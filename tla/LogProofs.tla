------------------------------ MODULE LogProofs ------------------------------
(***************************************************************************)
(* Theorems about the issuance log and its Merkle tree, in two parts.      *)
(*                                                                         *)
(* The tree and its proofs: what the proof verifiers of merkle/proof.py    *)
(* and merkle/consistency.py accept is true of the tree, for every tree,   *)
(* every claim and every list of hashes presented as a proof.              *)
(* A verifier climbs from level to level of the tree.  It knows its        *)
(* position on the level and the last position there, so the order in      *)
(* which it hashes is the one in which MTH combines the nodes (RiseIsNode).*)
(* From the root down, the hash it had on every level must then be the     *)
(* hash of the node at its position: the hashes are collision free.  The   *)
(* consistency verifier climbs with two hashes; the first follows the part *)
(* of the subtree that ends at its last entry (PartFrom), which its        *)
(* siblings on the left complete.  The other way round, every proof that   *)
(* the tree of a log generates is accepted, its roots and subtree hashes   *)
(* are those of MTH, and the covers of intervals are sound and tight, for  *)
(* a log of any size.  A path is a list of distinct hashes of intervals    *)
(* that tile the rest of its subtree, so it tells which subtree it is for, *)
(* and its beginnings are the paths in the nodes on the way.               *)
(*                                                                         *)
(* The log: whoever follows it never sees it roll back; an append          *)
(* never misses a node of the tree, a written file can always be loaded    *)
(* and no root ever changes; for any entries and any number of them,       *)
(* prunings, crashes and restarts.                                         *)
(*                                                                         *)
(* What the publisher serves came from the file, and a readable file is    *)
(* never ahead of the log of a running writer.  A writer restarts from     *)
(* that file, so it may lose entries, but none the publisher ever saw; and *)
(* without a file it starts anew only if none was ever written.            *)
(*                                                                         *)
(* The trees hold the hashes of the entries: pruning spares the last leaf  *)
(* without a sibling, so that the nodes the current size consists of are   *)
(* all there, and loading finds the whole right edge among them.  What is  *)
(* available can therefore be served: entries, hashes of checkpoints and   *)
(* subtrees, covers, consistency proofs, and every other proof until the   *)
(* first physical pruning.                                                 *)
(***************************************************************************)
EXTENDS IssuanceLog, MCMerkleTree, MCProofSoundness, DataLemmas, FiniteSetTheorems

-----------------------------------------------------------------------------
(* What the verifiers accept *)

\* evaluate_subtree_inclusion_proof: a proof that leads to the hash of some
\* entries starts from the hash of the entry at the position it is for.
THEOREM InclusionEvaluationSound ==
  ASSUME NEW D, Len(D) \in Nat \ {0}, NEW start \in Nat, NEW index \in start .. start + Len(D) - 1,
         NEW leaf, NEW proof, Len(proof) \in Nat,
         EvaluateInclusion(index, start, start + Len(D), leaf, proof) = MTH(D)
  PROVE  leaf = HashLeaf(D[index - start + 1])
<1> DEFINE n == Len(D)
           p == Len(proof)
           f == index - start
<1>0. f \in 0 .. n - 1 /\ (start + n) - start - 1 = n - 1 /\ n \in Nat \ {0} /\ p \in Nat
  OBVIOUS
<1>1. PICK at :
           /\ at[0] = [fn |-> f, sn |-> n - 1, r |-> leaf]
           /\ \A k \in 1 .. p : at[k] = InclusionStep(at[k - 1], proof[k])
           /\ EvaluateInclusion(index, start, start + n, leaf, proof)
                = IF at[p].sn = 0 THEN at[p].r ELSE Rejected
  <2> HIDE DEF n
  <2>1. PICK at : IsInclusionRun(at, index, start, start + n, leaf, proof)
    BY InclusionLoop
  <2>2. /\ at[0] = [fn |-> f, sn |-> n - 1, r |-> leaf]
        /\ \A k \in 1 .. p : at[k] = InclusionStep(at[k - 1], proof[k])
        /\ EvaluateInclusion(index, start, start + n, leaf, proof)
             = IF at[p].sn = 0 THEN at[p].r ELSE Rejected
    BY <1>0, <2>1 DEF IsInclusionRun
  <2> QED BY <2>2
<1>2. MTH(D) # Unavailable
  <2>1. LastAt(n, n - 1) = 0 /\ n - 1 \in Nat
    <3> HIDE DEF n
    <3>0. n - 1 \in Nat
      BY <1>0
    <3>1. n - 1 \in Nat /\ n - 1 < Pow2[n - 1] /\ Pow2[n - 1] \in Nat \ {0}
      BY <3>0, Pow2Exceeds, Pow2Positive
    <3> QED BY <3>1 DEF LastAt
  <2>2. 0 * Pow2[n - 1] < n
    <3>1. Pow2[n - 1] \in Nat
      BY <2>1, Pow2Positive
    <3> QED BY <1>0, <3>1
  <2> QED BY <2>1, <2>2, RootIsNode, NodeExists
<1>3. at[p].sn = 0 /\ at[p].r = MTH(D)
  BY <1>1, <1>2 DEF Rejected
<1> HIDE DEF n, p, f
\* On level l, the positions are right; then the hash must be the node's.
<1> DEFINE Placed(a, l) == a.sn = LastAt(n, l) /\ a.fn \in 0 .. LastAt(n, l)
           Proved(k) == \A l \in Nat : Placed(at[k], l) => at[k].r = NodeHash(D, l, at[k].fn)
           S == { j \in Nat : j <= p => Proved(p - j) }
<1>4. Proved(p)
  <2> SUFFICES ASSUME NEW l \in Nat, Placed(at[p], l)
               PROVE  at[p].r = NodeHash(D, l, at[p].fn)
    OBVIOUS
  <2>1. LastAt(n, l) = 0 /\ at[p].fn = 0
    BY <1>3
  <2> QED BY <1>0, <1>3, <2>1, RootIsNode DEF n
<1>5. ASSUME NEW k \in 1 .. p, Proved(k) PROVE Proved(k - 1)
  <2> SUFFICES ASSUME NEW l \in Nat, Placed(at[k - 1], l)
               PROVE  at[k - 1].r = NodeHash(D, l, at[k - 1].fn)
    OBVIOUS
  <2> DEFINE g == at[k - 1].fn
             x == at[k - 1].r
             t == LastAt(n, l)
             h == Rise(g, t)
             y == IF IsRight(g, t) THEN HashInternal(proof[k], x) ELSE HashInternal(x, proof[k])
  <2>1. /\ at[k].fn = RiseTo(g, t)
        /\ at[k].sn = t \div Pow2[h]
        /\ at[k].r = IF t = 0 THEN Rejected ELSE y
    <3>1. at[k] = InclusionStep(at[k - 1], proof[k]) /\ at[k - 1].sn = t
      BY <1>1
    <3>2. /\ at[k].fn = RiseTo(g, at[k - 1].sn)
          /\ at[k].sn = at[k - 1].sn \div Pow2[Rise(g, at[k - 1].sn)]
          /\ at[k].r = IF at[k - 1].sn = 0 THEN Rejected
                       ELSE IF IsRight(g, at[k - 1].sn) THEN HashInternal(proof[k], x)
                       ELSE HashInternal(x, proof[k])
      BY <3>1, InclusionStepIs
    <3> HIDE DEF t, g, x
    <3> QED BY <3>1, <3>2
  <2>2. CASE t = 0
    <3>1. g = 0
      BY <2>2
    <3>2. h = 1 /\ RiseTo(g, t) = 0 /\ t \div Pow2[h] = 0
      <4>1. h = 1 /\ Pow2[1] \in Nat \ {0}
        BY <3>1, Pow2Positive DEF Rise
      <4> QED BY <2>2, <3>1, <4>1 DEF RiseTo
    <3>3. LastAt(n, l + 1) = 0
      <4>1. n - 1 \in Nat /\ Pow2[1] \in Nat \ {0}
        BY <1>0, Pow2Positive
      <4>2. LastAt(n, l + 1) = t \div Pow2[1]
        BY <4>1, ShiftTwice DEF LastAt
      <4> QED BY <2>2, <4>1, <4>2
    <3>4. at[k].fn = 0 /\ at[k].sn = 0 /\ at[k].r = Rejected
      BY <2>1, <2>2, <3>2
    <3>5. Placed(at[k], l + 1)
      BY <3>3, <3>4
    <3>6. l + 1 \in Nat /\ at[k].r = NodeHash(D, l + 1, at[k].fn)
      BY <1>5, <3>5
    <3>7. Rejected = NodeHash(D, l + 1, 0)
      BY <3>4, <3>6
    <3>8. 0 * Pow2[l + 1] < Len(D) /\ Len(D) \in Nat
      <4>1. Pow2[l + 1] \in Nat
        BY <3>6, Pow2Positive
      <4> QED BY <1>0, <4>1 DEF n
    <3>9. NodeHash(D, l + 1, 0) # Unavailable
      BY <3>6, <3>8, NodeExists
    <3> QED BY <3>7, <3>9 DEF Rejected
  <2>3. CASE t # 0
    <3>1. h \in Nat /\ RiseTo(g, t) \in 0 .. LastAt(n, l + h) /\ t \div Pow2[h] = LastAt(n, l + h)
      <4>1. t = LastAt(n, l) /\ g \in 0 .. t
        OBVIOUS
      <4>2. Rise(g, t) = h
        OBVIOUS
      <4> HIDE DEF t, g, h, x, y, Placed, Proved, S
      <4>3. /\ Rise(g, t) \in Nat \ {0}
            /\ RiseTo(g, t) \in 0 .. LastAt(n, l + Rise(g, t))
            /\ t \div Pow2[Rise(g, t)] = LastAt(n, l + Rise(g, t))
        BY <1>0, <2>3, <4>1, RiseKeepsPlace, SMTT(30)
      <4> QED BY <4>2, <4>3
    <3>2. Placed(at[k], l + h) /\ at[k].r = y
      <4> HIDE DEF t, h, y, g
      <4> QED BY <2>1, <2>3, <3>1
    <3>3. y = NodeHash(D, l + h, RiseTo(g, t))
      <4> HIDE DEF t, h, y, g
      <4>1. l + h \in Nat
        BY <3>1
      <4>2. at[k].r = NodeHash(D, l + h, at[k].fn)
        BY <1>5, <3>2, <4>1
      <4> QED BY <2>1, <3>2, <4>2
    <3>4. x = NodeHash(D, l, g)
      <4>1. t = LastAt(Len(D), l) /\ g \in 0 .. t
        BY DEF n
      <4>2. (IF IsRight(g, t) THEN HashInternal(proof[k], x) ELSE HashInternal(x, proof[k]))
              = NodeHash(D, l + Rise(g, t), RiseTo(g, t))
        BY <3>3
      <4> HIDE DEF x, g, t
      <4> QED BY <1>0, <2>3, <4>1, <4>2, RiseIsNode
    <3> QED BY <3>4
  <2> QED BY <2>2, <2>3
<1>6. \A j \in Nat : j \in S
  <2> HIDE DEF Proved
  <2>1. 0 \in S
    BY <1>0, <1>4
  <2>2. ASSUME NEW j \in Nat, j \in S PROVE j + 1 \in S
    <3> SUFFICES ASSUME j + 1 <= p PROVE Proved(p - (j + 1))
      OBVIOUS
    <3>1. p - j \in 1 .. p /\ (p - j) - 1 = p - (j + 1) /\ j <= p
      BY <1>0
    <3>2. Proved(p - j)
      BY <2>2, <3>1
    <3>3. Proved((p - j) - 1)
      BY <1>5, <3>1, <3>2
    <3> QED BY <3>1, <3>3
  <2> HIDE DEF S
  <2> QED BY <2>1, <2>2, Induction
<1>7. Proved(0)
  <2> HIDE DEF Proved
  <2>1. p \in Nat /\ (p <= p => Proved(p - p))
    BY <1>0, <1>6
  <2>2. p <= p /\ p - p = 0
    BY <1>0
  <2> QED BY <2>1, <2>2
<1>8. LastAt(n, 0) = n - 1
  <2>1. Pow2[0] = 1
    BY Pow2Positive
  <2> QED BY <1>0, <2>1 DEF LastAt
<1>9. Placed(at[0], 0) /\ at[0].r = leaf /\ at[0].fn = f
  BY <1>0, <1>1, <1>8
<1>10. leaf = NodeHash(D, 0, f)
  BY <1>7, <1>9
<1> QED BY <1>0, <1>10, LeafIsNode DEF n, f

\* The first m states hold hashes of nodes, and all but the last are below the root.
HoldsNodes(at, D, m) ==
  \A k \in 0 .. m : \A l :
    InPlace(at[k], Len(D), l) =>
      /\ at[k].sr = NodeHash(D, l, at[k].sn)
      /\ k < m => at[k].tn # 0

\* A run that ends with the root proves every hash it goes through.
LEMMA RunProves ==
  ASSUME NEW D, Len(D) \in Nat \ {0}, NEW at, NEW from, NEW first, NEW rest, Len(rest) \in Nat,
         IsConsistencyRun(at, from, first, rest),
         at[Len(rest)].tn = 0, at[Len(rest)].sr = MTH(D)
  PROVE  HoldsNodes(at, D, Len(rest))
<1> DEFINE n == Len(D)
           p == Len(rest)
           Proved(k) == \A l : InPlace(at[k], n, l) => at[k].sr = NodeHash(D, l, at[k].sn)
           S == { j \in Nat : j <= p => Proved(p - j) }
<1>0. n \in Nat \ {0} /\ p \in Nat
  OBVIOUS
<1> HIDE DEF n, p
<1>1. Proved(p)
  <2> SUFFICES ASSUME NEW l, InPlace(at[p], n, l)
               PROVE  at[p].sr = NodeHash(D, l, at[p].sn)
    OBVIOUS
  <2>1. l \in Nat /\ LastAt(n, l) = 0 /\ at[p].sn = 0
    BY DEF InPlace, p
  <2> QED BY <1>0, <2>1, RootIsNode DEF n, p
<1>2. ASSUME NEW k \in 1 .. p, Proved(k)
      PROVE  \A l : InPlace(at[k - 1], n, l) =>
               at[k - 1].sr = NodeHash(D, l, at[k - 1].sn) /\ at[k - 1].tn # 0
  <2> SUFFICES ASSUME NEW l, InPlace(at[k - 1], n, l)
               PROVE  at[k - 1].sr = NodeHash(D, l, at[k - 1].sn) /\ at[k - 1].tn # 0
    OBVIOUS
  <2> DEFINE a == at[k - 1]
             b == at[k]
  <2>1. /\ a.tn = 0 => b.sn = a.sn /\ b.tn = 0 /\ b.sr = Rejected
        /\ a.tn # 0 => /\ b.sn = RiseTo(a.sn, a.tn)
                       /\ b.tn = a.tn \div Pow2[Rise(a.sn, a.tn)]
                       /\ b.sr = IF IsRight(a.sn, a.tn)
                                 THEN HashInternal(rest[k], a.sr) ELSE HashInternal(a.sr, rest[k])
    BY DEF IsConsistencyRun, p
  <2>2. InPlace(a, n, l) /\ l \in Nat /\ \A m : InPlace(b, n, m) => b.sr = NodeHash(D, m, b.sn)
    BY <1>2 DEF InPlace
  <2> HIDE DEF a, b
  <2>3. a.tn # 0
    <3> SUFFICES ASSUME a.tn = 0 PROVE FALSE
      OBVIOUS
    <3>1. InPlace(b, n, l) /\ a.sn = 0 /\ b.sn = 0 /\ b.sr = Rejected
      BY <2>1, <2>2 DEF InPlace
    <3>2. Rejected = NodeHash(D, l, 0)
      BY <2>2, <3>1
    <3>3. 0 * Pow2[l] < Len(D) /\ Len(D) \in Nat
      <4>1. Pow2[l] \in Nat
        BY <2>2, Pow2Positive
      <4> QED BY <1>0, <4>1 DEF n
    <3>4. NodeHash(D, l, 0) # Unavailable
      BY <2>2, <3>3, NodeExists
    <3> QED BY <3>2, <3>4 DEF Rejected
  <2>4. a.sr = NodeHash(D, l, a.sn)
    <3> DEFINE t == a.tn
               f == a.sn
               x == a.sr
    <3>1. InPlace(b, n, l + Rise(a.sn, a.tn))
      BY <1>0, <2>1, <2>2, <2>3, TurnRises
    <3>2. b.sr = NodeHash(D, l + Rise(a.sn, a.tn), b.sn)
      BY <2>2, <3>1
    <3>3. (IF IsRight(f, t) THEN HashInternal(rest[k], x) ELSE HashInternal(x, rest[k]))
            = NodeHash(D, l + Rise(f, t), RiseTo(f, t))
      BY <2>1, <2>3, <3>2
    <3>4. t = LastAt(Len(D), l) /\ t # 0 /\ f \in 0 .. t
      BY <2>2, <2>3 DEF InPlace, n
    <3> HIDE DEF t, f, x
    <3>5. x = NodeHash(D, l, f)
      BY <1>0, <2>2, <3>3, <3>4, RiseIsNode DEF n
    <3> QED BY <3>5 DEF x, f
  <2> QED BY <2>3, <2>4 DEF a
<1>3. \A j \in Nat : j \in S
  <2>1. 0 \in S
    <3> HIDE DEF Proved
    <3> QED BY <1>0, <1>1
  <2>2. ASSUME NEW j \in Nat, j \in S PROVE j + 1 \in S
    <3> SUFFICES ASSUME j + 1 <= p PROVE Proved(p - (j + 1))
      OBVIOUS
    <3>1. p - j \in 1 .. p /\ (p - j) - 1 = p - (j + 1) /\ j <= p
      BY <1>0
    <3>2. Proved(p - j)
      <4> HIDE DEF Proved
      <4> QED BY <2>2, <3>1
    <3>3. Proved((p - j) - 1)
      BY <1>2, <3>1, <3>2
    <3> HIDE DEF Proved
    <3> QED BY <3>1, <3>3
  <2> HIDE DEF S
  <2> QED BY <2>1, <2>2, Induction
<1>4. ASSUME NEW k \in 0 .. p PROVE Proved(k)
  <2> HIDE DEF Proved
  <2>1. p - k \in Nat /\ p - k <= p /\ p - (p - k) = k
    BY <1>0
  <2>2. p - k \in S
    BY <1>3, <2>1
  <2> QED BY <2>1, <2>2
<1>5. ASSUME NEW k \in 0 .. p, k < p, NEW l, InPlace(at[k], n, l) PROVE at[k].tn # 0
  <2>1. k + 1 \in 1 .. p /\ (k + 1) - 1 = k /\ k + 1 \in 0 .. p
    BY <1>0, <1>5
  <2>2. Proved(k + 1)
    BY <1>4, <2>1
  <2> HIDE DEF Proved
  <2> QED BY <1>2, <1>5, <2>1, <2>2
<1> QED BY <1>4, <1>5 DEF n, p, HoldsNodes

\* _verify_subtree_consistency_proof: hashes that lead to the root of a tree
\* and to a subtree's hash show that it is the hash of the tree's entries there.
THEOREM ConsistencyEvaluationSound ==
  ASSUME NEW D, Len(D) \in Nat \ {0}, NEW start, NEW end, IsValidSubtree(start, end),
         end <= Len(D), NEW node, NEW proof, NEW X, proof \in Seq(X),
         ConsistencyStart(start, end, Len(D)).fn = ConsistencyStart(start, end, Len(D)).sn
           \/ proof # <<>>,
         ConsistencyMatches(start, end, Len(D), node, proof, MTH(D))
  PROVE  node = MTHOf(D, start, end)
<1> DEFINE n == Len(D)
           from == ConsistencyStart(start, end, n)
           first == FirstHash(from, node, proof)
           rest == OtherHashes(from, proof)
           p == Len(rest)
           w == BitCeil(end - start)
<1>1. rest \in Seq(X)
  BY DEF OtherHashes
<1>2. p \in Nat /\ n \in Nat \ {0}
  <2> HIDE DEF rest
  <2> QED BY <1>1
<1>3. PICK at :
        /\ IsConsistencyRun(at, from, first, rest)
        /\ at[p].tn = 0 /\ at[p].fr = node /\ at[p].sr = MTH(D)
  <2>1. \E at :
           /\ IsConsistencyRun(at, from, FirstHash(from, node, proof), rest)
           /\ ConsistencyMatches(start, end, n, node, proof, MTH(D))
                => at[Len(rest)].tn = 0 /\ at[Len(rest)].fr = node /\ at[Len(rest)].sr = MTH(D)
    BY <1>2, ConsistencyLoop
  <2> QED BY <2>1
<1> HIDE DEF from, rest, first
<1>4. \A k \in 0 .. p : \A l :
         InPlace(at[k], n, l) =>
           at[k].sr = NodeHash(D, l, at[k].sn) /\ (k < p => at[k].tn # 0)
  <2>1. /\ Len(D) \in Nat \ {0} /\ Len(rest) \in Nat
        /\ IsConsistencyRun(at, from, first, rest)
        /\ at[Len(rest)].tn = 0 /\ at[Len(rest)].sr = MTH(D)
    BY <1>2, <1>3
  <2>2. HoldsNodes(at, D, Len(rest))
    BY <2>1, RunProves, Zenon
  <2> QED BY <2>2 DEF HoldsNodes
<1>5. PICK l0 \in Nat :
           /\ InPlace(from, n, l0)
           /\ AtSubtree(from, start, end, l0)
           /\ IF from.fn = from.sn
              THEN /\ l0 = BitCeil(end - start)
                   /\ end = n \/ end = start + Pow2[l0]
              ELSE l0 < BitCeil(end - start) /\ end = (from.sn + 1) * Pow2[l0]
  BY <1>2, StartIs DEF from
<1>6. /\ at[0].fn = from.fn /\ at[0].sn = from.sn /\ at[0].tn = from.tn
      /\ at[0].fr = first /\ at[0].sr = first
  BY <1>3 DEF IsConsistencyRun
<1> DEFINE Rebuilt(k) == \E l : HasRebuilt(D, start, end, at[k], l)
           S == { k \in Nat : k <= p => Rebuilt(k) }
<1>7. Rebuilt(0)
  <2>1. InPlace(at[0], n, l0) /\ AtSubtree(at[0], start, end, l0)
    BY <1>5, <1>6 DEF InPlace, AtSubtree
  <2>2. at[0].sr = NodeHash(D, l0, at[0].sn)
    BY <1>2, <1>4, <2>1
  <2>3. NodeHash(D, l0, from.sn) = PartFrom(D, start, end, l0)
    BY <1>2, <1>5, StartsFromPart DEF from
  <2> QED BY <1>6, <2>1, <2>2, <2>3 DEF HasRebuilt
<1>8. ASSUME NEW k \in Nat, k + 1 <= p, Rebuilt(k) PROVE Rebuilt(k + 1)
  <2>1. PICK l : HasRebuilt(D, start, end, at[k], l)
    BY <1>8
  <2> DEFINE a == at[k]
             b == at[k + 1]
             h == Rise(a.sn, a.tn)
  <2>2. k \in 0 .. p /\ k < p /\ k + 1 \in 1 .. p /\ k + 1 \in 0 .. p /\ (k + 1) - 1 = k
    BY <1>2, <1>8
  <2>3. InPlace(a, n, l) /\ a.tn # 0
    BY <1>4, <2>1, <2>2 DEF HasRebuilt
  <2>4. /\ b.fn = a.fn \div Pow2[h]
        /\ b.sn = RiseTo(a.sn, a.tn)
        /\ b.tn = a.tn \div Pow2[h]
        /\ b.fr = IF IsRight(a.sn, a.tn) /\ a.fn < a.sn
                  THEN HashInternal(rest[k + 1], a.fr) ELSE a.fr
        /\ b.sr = IF IsRight(a.sn, a.tn)
                  THEN HashInternal(rest[k + 1], a.sr) ELSE HashInternal(a.sr, rest[k + 1])
    <3>1. at[(k + 1) - 1] = a
      BY <2>2
    <3> QED BY <1>3, <2>2, <2>3, <3>1 DEF IsConsistencyRun
  <2>5. b.sr = NodeHash(D, l + h, b.sn)
    <3>1. InPlace(b, n, l + h)
      BY <1>2, <2>3, <2>4, TurnRises
    <3> QED BY <1>4, <2>2, <3>1
  <2>6. HasRebuilt(D, start, end, b, l + h)
    <3>1. HasRebuilt(D, start, end, a, l)
      BY <2>1
    <3> DEFINE c == rest[k + 1]
    <3> HIDE DEF a, b, c
    <3> QED BY <1>2, <2>3, <2>4, <2>5, <3>1, TurnRebuilds DEF c
  <2> QED BY <2>6
<1>9. Rebuilt(p)
  <2> HIDE DEF Rebuilt
  <2>1. 0 \in S
    BY <1>7
  <2>2. ASSUME NEW k \in Nat, k \in S PROVE k + 1 \in S
    <3> SUFFICES ASSUME k + 1 <= p PROVE Rebuilt(k + 1)
      OBVIOUS
    <3>1. k <= p
      BY <1>2
    <3> QED BY <1>8, <2>2, <3>1
  <2>3. p \in S
    <3> HIDE DEF S, p
    <3> QED BY <1>2, <2>1, <2>2, Induction
  <2>4. p <= p
    BY <1>2
  <2> QED BY <2>3, <2>4
<1>10. PICK l : HasRebuilt(D, start, end, at[p], l)
  BY <1>9
<1>11. l \in Nat /\ at[p].sn = 0 /\ AtSubtree(at[p], start, end, l)
  BY <1>3, <1>10 DEF HasRebuilt, InPlace
<1>12. ~(l < w)
  <2> SUFFICES ASSUME l < w PROVE FALSE
    OBVIOUS
  <2>1. w \in Nat /\ start \in Nat /\ \A j \in 0 .. w - 1 : start \div Pow2[j] < (end - 1) \div Pow2[j]
    BY SubtreePlace
  <2>2. start \div Pow2[l] < (end - 1) \div Pow2[l] /\ (end - 1) \div Pow2[l] = 0
    BY <1>11, <2>1 DEF AtSubtree
  <2>3. Pow2[l] \in Nat \ {0}
    BY <1>11, Pow2Positive
  <2>4. start \div Pow2[l] \in Nat
    BY <2>1, <2>3, DivBounds
  <2> QED BY <2>2, <2>4
<1> QED BY <1>3, <1>10, <1>12 DEF HasRebuilt, PartFrom

-----------------------------------------------------------------------------
(* The theorems *)

\* An accepted consistency proof links the hash of entries of one log to the
\* same entries of the other.
LEMMA LinkedEntriesAgree ==
  ASSUME NEW X, NEW A \in Seq(X), NEW Y, NEW D \in Seq(Y), D # <<>>,
         NEW start \in Nat, NEW end \in Nat, start < end, end <= Len(A), end <= Len(D),
         MTH(EntriesBetween(A, start, end)) = MTHOf(D, start, end)
  PROVE  EntriesBetween(A, start, end) = EntriesBetween(D, start, end)
<1> DEFINE a == EntriesBetween(A, start, end)
           d == EntriesBetween(D, start, end)
           m == end - start
<1>1. /\ a \in Seq(X) /\ Len(a) = m /\ \A i \in 1 .. m : a[i] = A[start + i]
      /\ d \in Seq(Y) /\ Len(d) = m /\ \A i \in 1 .. m : d[i] = D[start + i]
  <2>1. start + 1 \in 1 .. Len(A) + 1 /\ end \in start .. Len(A) /\ start + 1 \in 1 .. Len(D) + 1
    OBVIOUS
  <2>2. /\ \A i \in (start + 1) .. end : A[i] \in X
        /\ \A i \in (start + 1) .. end : D[i] \in Y
    OBVIOUS
  <2> QED BY <2>1, <2>2 DEF EntriesBetween
<1>2. m \in Nat \ {0} /\ Len(D) \in Nat /\ Len(a) \in Nat
  BY <1>1
<1>3. 0 + m <= Len(a) /\ start + m <= Len(D) /\ 0 + m = m /\ start + m = end
  BY <1>1
<1> HIDE DEF a, d, m
<1>4. MTHOf(a, 0, 0 + m) = MTHOf(D, start, start + m)
        <=> \A i \in 1 .. m : a[0 + i] = D[start + i]
  <2> DEFINE o == 0
  <2>1. /\ o \in Nat /\ start \in Nat /\ Len(a) \in Nat /\ Len(D) \in Nat /\ m \in Nat \ {0}
        /\ o + m <= Len(a) /\ start + m <= Len(D)
    BY <1>2, <1>3
  <2> HIDE DEF o
  <2>2. HashesAgree(a, o, D, start, m)
    BY <2>1, MTHAgree
  <2> QED BY <2>2, Zenon DEF HashesAgree, o
<1>5. MTHOf(a, 0, m) = MTHOf(D, start, end)
  BY <1>1 DEF MTH, a
<1>6. ASSUME NEW i \in 1 .. m PROVE a[i] = d[i]
  <2>1. 0 + i = i
    BY <1>2
  <2> QED BY <1>1, <1>3, <1>4, <1>5, <2>1
<1>7. a = d
  <2>1. a \in Seq(X \cup Y) /\ d \in Seq(X \cup Y)
    BY <1>1
  <2> QED BY <1>1, <1>6, <2>1, SeqEqual
<1> QED BY <1>7 DEF a, d

LogsInv == /\ mine \in Seq({Same}) /\ mine # <<>>
           /\ theirs \in Seq(Value) /\ theirs # <<>>

\* Both logs are lists of entries, and neither is empty.
LEMMA LogsInvariant == PairSpec => []LogsInv
<1>1. PairInit => LogsInv
  <2> SUFFICES ASSUME PairInit PROVE LogsInv
    OBVIOUS
  <2>1. \A S : \A e \in S : <<e>> \in Seq(S) /\ <<e>> # <<>>
    OBVIOUS
  <2> QED BY <2>1 DEF PairInit, LogsInv
<1>2. LogsInv /\ [PairNext]_<<mine, theirs>> => LogsInv'
  <2> SUFFICES ASSUME LogsInv, [PairNext]_<<mine, theirs>> PROVE LogsInv'
    OBVIOUS
  <2>1. \A S : \A s \in Seq(S), e \in S : Append(s, e) \in Seq(S) /\ Append(s, e) # <<>>
    BY AppendProperties
  <2>2. CASE MineAppends
    BY <2>1, <2>2 DEF LogsInv, MineAppends
  <2>3. CASE TheirsAppends
    BY <2>1, <2>3 DEF LogsInv, TheirsAppends
  <2>4. CASE UNCHANGED <<mine, theirs>>
    BY <2>4 DEF LogsInv
  <2> QED BY <2>2, <2>3, <2>4 DEF PairNext
<1> QED BY <1>1, <1>2, PTL DEF PairSpec

\* verify_subtree_inclusion_proof accepts an entry at an index only if it is the
\* entry at that index, for logs of any size, any entries and any proof that
\* either tree generates.
THEOREM InclusionSound == PairSpec => []InclusionIsSound
<1>1. LogsInv => InclusionIsSound
  <2> SUFFICES ASSUME LogsInv,
                      NEW s \in Subtrees(Len(theirs)), s.end = Len(theirs),
                      NEW i \in s.start .. s.end - 1, NEW e \in Value,
                      NEW p \in InclusionProofs(mine) \cup InclusionProofs(theirs),
                      VerifyInclusion(i, s.start, s.end, HashLeaf(e), p,
                                      MTH(EntriesBetween(theirs, s.start, s.end)))
               PROVE  e = theirs[i + 1]
    BY DEF InclusionIsSound
  <2> DEFINE D == EntriesBetween(theirs, s.start, s.end)
             m == s.end - s.start
  <2>1. s.start \in Nat /\ s.end \in Nat /\ s.start < s.end
    BY DEF Subtrees, IsValidSubtree
  <2>2. D \in Seq(Value) /\ Len(D) = m /\ \A j \in 1 .. m : D[j] = theirs[s.start + j]
    <3>1. theirs \in Seq(Value) /\ s.end = Len(theirs)
      BY DEF LogsInv
    <3>2. \A j \in (s.start + 1) .. s.end : theirs[j] \in Value
      BY <2>1, <3>1
    <3> QED BY <2>1, <3>1, <3>2, SMTT(30) DEF EntriesBetween
  <2>3. Len(p) \in Nat
    <3>1. ASSUME NEW l, p \in InclusionProofs(l), Len(l) \in Nat PROVE Len(p) \in Nat
      <4>1. PICK t \in Subtrees(Len(l)) : \E j :
               p = InclusionProof(FromEntries(l), j, t.start, t.end)
        BY <3>1 DEF InclusionProofs
      <4>2. t.end \in Nat /\ t.start \in 0 .. t.end
        BY DEF Subtrees, IsValidSubtree
      <4>3. \E X : p \in Seq(X)
        BY <4>1, <4>2, InclusionProofType
      <4> QED BY <4>3
    <3>2. Len(mine) \in Nat /\ Len(theirs) \in Nat
      BY DEF LogsInv
    <3> QED BY <3>1, <3>2
  <2>4. EvaluateInclusion(i, s.start, s.start + Len(D), HashLeaf(e), p) = MTH(D)
    <3>1. s.start + Len(D) = s.end
      BY <2>1, <2>2
    <3> QED BY <3>1 DEF VerifyInclusion
  <2>5. /\ Len(D) \in Nat \ {0} /\ i \in s.start .. s.start + Len(D) - 1
        /\ i - s.start + 1 \in 1 .. m /\ s.start + (i - s.start + 1) = i + 1
    BY <2>1, <2>2, SMTT(30)
  <2> HIDE DEF D, m
  <2>6. HashLeaf(e) = HashLeaf(D[i - s.start + 1])
    BY <2>1, <2>3, <2>4, <2>5, InclusionEvaluationSound
  <2>7. e = D[i - s.start + 1]
    BY <2>6, HashesDiffer
  <2> QED BY <2>2, <2>5, <2>7
<1> QED BY <1>1, LogsInvariant, PTL

\* verify_subtree_consistency_proof and verify_tree_consistency_proof accept a
\* subtree or a checkpoint only if both logs agree on every entry of it, for logs
\* of any size, any entries and any proof that either tree generates.
THEOREM ConsistencySound == PairSpec => []ConsistencyIsSound
<1>1. LogsInv => ConsistencyIsSound
  <2> SUFFICES ASSUME LogsInv,
                      NEW s \in Subtrees(Len(mine)),
                      NEW p \in ConsistencyProofs(mine) \cup ConsistencyProofs(theirs),
                      LET hash == MTH(EntriesBetween(mine, s.start, s.end))
                      IN  \/ VerifySubtreeConsistency(s.start, s.end, Len(theirs), hash, p, MTH(theirs))
                          \/ /\ s.start = 0
                             /\ VerifyTreeConsistency(s.end, Len(theirs), hash, MTH(theirs), p)
               PROVE  /\ s.end <= Len(theirs)
                      /\ EntriesBetween(mine, s.start, s.end) = EntriesBetween(theirs, s.start, s.end)
    BY DEF ConsistencyIsSound
  <2> DEFINE hash == MTH(EntriesBetween(mine, s.start, s.end))
             n == Len(theirs)
  <2>1. /\ s.start \in Nat /\ s.end \in Nat /\ s.start < s.end /\ s.end <= Len(mine)
        /\ IsValidSubtree(s.start, s.end)
    BY DEF Subtrees, IsValidSubtree
  <2>2. /\ mine \in Seq({Same}) /\ theirs \in Seq(Value) /\ theirs # <<>>
        /\ Len(mine) \in Nat /\ n \in Nat \ {0}
    BY DEF LogsInv
  <2>3. \E X : p \in Seq(X)
    <3>1. ASSUME NEW l, p \in ConsistencyProofs(l), Len(l) \in Nat
          PROVE  \E X : p \in Seq(X)
      <4>1. PICK t \in Subtrees(Len(l)) : \E j \in t.end .. Len(l) :
               p = ConsistencyProof(FromEntries(l), t.start, t.end, j)
        BY <3>1 DEF ConsistencyProofs
      <4>2. PICK k \in t.end .. Len(l) : p = ConsistencyProof(FromEntries(l), t.start, t.end, k)
        BY <4>1
      <4>3. k \in Nat /\ t.start \in 0 .. k
        BY <3>1 DEF Subtrees, IsValidSubtree
      <4> QED BY <4>2, <4>3, ConsistencyProofType
    <3> QED BY <2>2, <3>1
  <2>4. ASSUME VerifySubtreeConsistency(s.start, s.end, n, hash, p, MTH(theirs))
        PROVE  s.end <= n /\ hash = MTHOf(theirs, s.start, s.end)
    <3>1. /\ s.end <= n
          /\ ConsistencyStart(s.start, s.end, n).fn = ConsistencyStart(s.start, s.end, n).sn
               \/ p # <<>>
          /\ ConsistencyMatches(s.start, s.end, n, hash, p, MTH(theirs))
      BY <2>4 DEF VerifySubtreeConsistency
    <3>2. PICK X : p \in Seq(X)
      BY <2>3
    <3> HIDE DEF hash
    <3> QED BY <2>1, <2>2, <3>1, <3>2, ConsistencyEvaluationSound
  <2>5. s.end <= n /\ hash = MTHOf(theirs, s.start, s.end)
    <3>1. CASE VerifySubtreeConsistency(s.start, s.end, n, hash, p, MTH(theirs))
      BY <2>4, <3>1
    <3>2. CASE s.start = 0 /\ VerifyTreeConsistency(s.end, n, hash, MTH(theirs), p)
      <4>1. CASE s.end = n
        BY <2>2, <3>2, <4>1 DEF VerifyTreeConsistency, MTH
      <4>2. CASE s.end # n
        BY <2>4, <3>2, <4>2 DEF VerifyTreeConsistency
      <4> QED BY <4>1, <4>2
    <3> QED BY <3>1, <3>2
  <2> QED BY <2>1, <2>2, <2>5, LinkedEntriesAgree
<1> QED BY <1>1, LogsInvariant, PTL

-----------------------------------------------------------------------------
(* The tree of a log, its proofs and its covers *)

\* The walk stays on intervals of the log.
WalkInv == low \in Nat /\ high \in 1 .. LogSize /\ low < high

\* The walk over the intervals never leaves the log.
LEMMA WalkStays == WalkSpec => []WalkInv
<1>1. WalkInit => WalkInv
  BY LogSizeAssumption DEF WalkInit, WalkInv
<1>2. WalkInv /\ [WalkNext]_<<low, high>> => WalkInv'
  BY LogSizeAssumption DEF WalkInv, WalkNext, MoveLow, MoveHigh
<1> QED BY <1>1, <1>2, PTL DEF WalkSpec

\* The tree of the log, and the hashes of its intervals.
LEMMA TreeOfEntries == Len(Entries) = LogSize /\ IsWholeTreeOf(Tree, Entries)
<1>1. ListOf(Entries, LogSize)
  BY DEF Entries, ListOf
<1>2. Len(Entries) = LogSize
  BY <1>1, ListIsSeq, LogSizeAssumption
<1>3. IsWholeTreeOf(FromEntries(Entries), Entries)
  BY <1>1, <1>2, FromEntriesIsTree, LogSizeAssumption
<1> QED BY <1>2, <1>3 DEF Tree

\* No leaf hash of the tree is pruned.
LEMMA LeavesAreThere == \A b \in 1 .. LogSize : Tree.leaves[b] # Unavailable
<1> TAKE b \in 1 .. LogSize
<1>1. Tree.leaves[b] = HashLeaf(Entries[b])
  BY TreeOfEntries DEF IsWholeTreeOf
<1> QED BY <1>1 DEF HashLeaf, Unavailable

\* The hash of the entries of an interval is that of their place in the log.
LEMMA HashOfInterval ==
  ASSUME NEW s \in Nat, NEW e \in 1 .. LogSize, s < e
  PROVE  MTH(EntriesIn(s, e)) = MTHOf(Entries, s, e)
<1>1. Len(Entries) = LogSize /\ e <= LogSize /\ e \in Nat
  BY TreeOfEntries, LogSizeAssumption
<1>2. Entries \in Seq(Int)
  <2>1. ListOf(Entries, LogSize)
    BY DEF Entries, ListOf
  <2>2. \A i \in 1 .. LogSize : Entries[i] \in Int
    BY LogSizeAssumption DEF Entries
  <2>3. Entries \in [1 .. LogSize -> Int]
    BY <2>1, <2>2, LogSizeAssumption DEF Entries
  <2> QED BY <2>3, LogSizeAssumption
<1> QED BY <1>1, <1>2, HashOfSubSeq DEF EntriesIn

\* Every root and subtree hash is the one that MTH defines.
THEOREM RootsAreMTH == WalkSpec => []RootsMatchMTH
<1>1. ASSUME WalkInv PROVE RootsMatchMTH
  <2>1. /\ low \in Nat /\ high \in 1 .. Len(Entries) /\ high \in 1 .. LogSize
        /\ low < high /\ high <= Len(Entries) /\ Len(Entries) \in Nat
        /\ IsTreeOf(Tree, Entries)
    BY <1>1, TreeOfEntries, LogSizeAssumption DEF WalkInv, IsWholeTreeOf
  <2>2. Tree.leaves[high] # Unavailable
    BY <2>1, LeavesAreThere, LogSizeAssumption
  <2>3. RootAt(Tree, high) = MTHOf(Entries, 0, high)
    BY <2>1, <2>2, RootAtValue
  <2>4. MTH(EntriesIn(0, high)) = MTHOf(Entries, 0, high)
    BY <2>1, HashOfInterval
  <2>5. ASSUME IsValidSubtree(low, high)
        PROVE  SubtreeHash(Tree, low, high) = MTHOf(Entries, low, high)
    BY <2>1, <2>2, <2>5, SubtreeHashValue DEF IsStored
  <2>6. MTH(EntriesIn(low, high)) = MTHOf(Entries, low, high)
    BY <2>1, HashOfInterval
  <2> QED BY <2>3, <2>4, <2>5, <2>6 DEF RootsMatchMTH
<1> QED BY <1>1, WalkStays, PTL

\* Every generated inclusion proof verifies.
THEOREM InclusionProofsAccepted == WalkSpec => []InclusionProofsVerify
<1>1. ASSUME WalkInv PROVE InclusionProofsVerify
  <2> SUFFICES ASSUME IsValidSubtree(low, high), NEW i \in low .. high - 1
               PROVE  VerifyInclusion(i, low, high, HashLeaf(Entries[i + 1]),
                                      InclusionProof(Tree, i, low, high), MTH(EntriesIn(low, high)))
    BY DEF InclusionProofsVerify
  <2>1. /\ low \in Nat /\ high \in 1 .. Len(Entries) /\ high \in 1 .. LogSize
        /\ low < high /\ high <= Len(Entries) /\ Len(Entries) \in Nat
        /\ IsTreeOf(Tree, Entries)
    BY <1>1, TreeOfEntries, LogSizeAssumption DEF WalkInv, IsWholeTreeOf
  <2>2. \A b \in low + 1 .. high : Tree.leaves[b] # Unavailable
    BY <2>1, LeavesAreThere, LogSizeAssumption
  <2>3. MTH(EntriesIn(low, high)) = MTHOf(Entries, low, high)
    BY <2>1, HashOfInterval
  <2> QED BY <2>1, <2>2, <2>3, IncludedComplete
<1> QED BY <1>1, WalkStays, PTL

\* Every generated consistency proof verifies.
THEOREM ConsistencyProofsAccepted == WalkSpec => []ConsistencyProofsVerify
<1>1. ASSUME WalkInv PROVE ConsistencyProofsVerify
  <2> SUFFICES ASSUME IsValidSubtree(low, high), NEW n \in high .. LogSize,
                      NEW proof, proof = ConsistencyProof(Tree, low, high, n)
               PROVE  /\ VerifySubtreeConsistency(low, high, n, MTH(EntriesIn(low, high)), proof,
                                                  MTH(EntriesIn(0, n)))
                      /\ low = 0 => VerifyTreeConsistency(high, n, MTH(EntriesIn(0, high)),
                                                          MTH(EntriesIn(0, n)), proof)
    BY DEF ConsistencyProofsVerify
  <2>1. /\ low \in Nat /\ high \in 1 .. n /\ high \in 1 .. LogSize /\ n \in 1 .. LogSize
        /\ low < high /\ high <= n /\ Len(Entries) \in Nat /\ n \in 1 .. Len(Entries)
        /\ 0 < n /\ 0 < high
        /\ IsTreeOf(Tree, Entries)
    BY <1>1, TreeOfEntries, LogSizeAssumption DEF WalkInv, IsWholeTreeOf
  <2>2. \A b \in 1 .. n : Tree.leaves[b] # Unavailable
    BY <2>1, LeavesAreThere, LogSizeAssumption
  <2>3. /\ MTH(EntriesIn(low, high)) = MTHOf(Entries, low, high)
        /\ MTH(EntriesIn(0, n)) = MTHOf(Entries, 0, n)
        /\ MTH(EntriesIn(0, high)) = MTHOf(Entries, 0, high)
    BY <2>1, HashOfInterval
  <2>4. VerifySubtreeConsistency(low, high, n, MTHOf(Entries, low, high), proof, MTHOf(Entries, 0, n))
    BY <2>1, <2>2, ConsistentComplete
  <2>5. ASSUME low = 0
        PROVE  VerifyTreeConsistency(high, n, MTHOf(Entries, 0, high), MTHOf(Entries, 0, n), proof)
    <3>1. \A b \in high .. n : Tree.leaves[b] # Unavailable
      BY <2>1, <2>2
    <3>2. proof = ConsistencyProof(Tree, 0, high, n)
      BY <2>5
    <3> QED BY <2>1, <3>1, <3>2, CheckpointsConsistent
  <2> QED BY <2>3, <2>4, <2>5
<1> QED BY <1>1, WalkStays, PTL

-----------------------------------------------------------------------------
(* What a client may keep of a proof *)

\* How many copies of a node are kept, and the sum of them over a set of nodes.
Kept(first, second, node) == Min({Occurrences(node, first), Occurrences(node, second)})

\* The recursion of that sum.
KeptBody(first, second, f, s) ==
  IF s = {} THEN 0
  ELSE LET x == CHOOSE x \in s : TRUE IN Kept(first, second, x) + f[s \ {x}]

\* f is the sum over every set of nodes of S.
SumsKept(f, first, second, S) ==
  \A s \in SUBSET S : f[s] \in Nat /\ f[s] = KeptBody(first, second, f, s)

\* The recursion that ReusedNodes adds with has a solution.
LEMMA ReusedNodesIs ==
  ASSUME NEW first, NEW second, NEW S, S = ToSet(second), IsFiniteSet(S),
         \A node \in S : Kept(first, second, node) \in Nat
  PROVE  \E f : SumsKept(f, first, second, S) /\ ReusedNodes(first, second) = f[S]
<1> DEFINE I == SUBSET S
           G(f, s) == KeptBody(first, second, f, s)
           B == [p \in [I -> Nat] \X I |-> G(p[1], p[2])]
           rank == [s \in I |-> Cardinality(s)]
           Good(f) == f = [s \in I |-> G(f, s)]
           c == CHOOSE f : Good(f)
           m == Cardinality(S)
           Taken(s) == CHOOSE x \in s : TRUE
<1>1. ASSUME NEW s \in I, s # {}
      PROVE  /\ Taken(s) \in s /\ Taken(s) \in S /\ s \ {Taken(s)} \in I
             /\ rank[s \ {Taken(s)}] < rank[s]
  <2> DEFINE x == Taken(s)
  <2>1. x \in s
    BY <1>1
  <2> HIDE DEF x
  <2>2. x \in S /\ s \ {x} \in I
    BY <2>1
  <2>3. IsFiniteSet(s)
    BY FS_Subset
  <2>4. Cardinality(s \ {x}) = Cardinality(s) - 1 /\ Cardinality(s) \in Nat
    BY <2>1, <2>3, FS_RemoveElement, FS_CardinalityType
  <2>5. rank[s \ {x}] = Cardinality(s \ {x}) /\ rank[s] = Cardinality(s)
    BY <2>2
  <2>6. rank[s \ {x}] < rank[s]
    BY <2>4, <2>5
  <2> HIDE DEF rank
  <2> QED BY <2>1, <2>2, <2>6 DEF x
<1>2. ASSUME NEW f \in [I -> Nat], NEW s \in I PROVE G(f, s) \in Nat
  <2>1. CASE s = {}
    BY <2>1 DEF KeptBody
  <2>2. CASE s # {}
    <3>1. Taken(s) \in S /\ s \ {Taken(s)} \in I
      BY <1>1, <2>2
    <3>2. Kept(first, second, Taken(s)) \in Nat /\ f[s \ {Taken(s)}] \in Nat
      <4> HIDE DEF Taken
      <4> QED BY <3>1
    <3>3. G(f, s) = Kept(first, second, Taken(s)) + f[s \ {Taken(s)}]
      BY <2>2 DEF KeptBody
    <3> HIDE DEF G, Taken
    <3> QED BY <3>2, <3>3
  <2> QED BY <2>1, <2>2
<1>3. \E f : Solves(f, B, I, Nat)
  <2>1. m \in Nat /\ rank \in [I -> 0 .. m] /\ 0 \in Nat
    <3>1. \A s \in I : IsFiniteSet(s) /\ Cardinality(s) <= m /\ Cardinality(s) \in Nat
      BY FS_Subset, FS_CardinalityType
    <3>2. m \in Nat
      BY FS_CardinalityType
    <3> HIDE DEF m
    <3> QED BY <3>1, <3>2
  <2>2. B \in [[I -> Nat] \X I -> Nat]
    <3> HIDE DEF G
    <3> QED BY <1>2
  <2>3. GoesDown(B, I, Nat, rank)
    <3>1. SUFFICES ASSUME NEW f \in [I -> Nat], NEW g \in [I -> Nat], NEW s \in I,
                          \A j \in I : rank[j] < rank[s] => f[j] = g[j]
                   PROVE  B[<<f, s>>] = B[<<g, s>>]
      BY DEF GoesDown
    <3>2. B[<<f, s>>] = G(f, s) /\ B[<<g, s>>] = G(g, s)
      <4> HIDE DEF G
      <4> QED OBVIOUS
    <3>3. CASE s = {}
      <4>1. G(f, s) = 0 /\ G(g, s) = 0
        BY <3>3 DEF KeptBody
      <4> QED BY <3>2, <4>1
    <3>4. CASE s # {}
      <4>1. s \ {Taken(s)} \in I /\ rank[s \ {Taken(s)}] < rank[s]
        BY <1>1, <3>4
      <4>2. f[s \ {Taken(s)}] = g[s \ {Taken(s)}]
        <5> HIDE DEF rank, Taken
        <5> QED BY <3>1, <4>1
      <4>3. /\ G(f, s) = Kept(first, second, Taken(s)) + f[s \ {Taken(s)}]
            /\ G(g, s) = Kept(first, second, Taken(s)) + g[s \ {Taken(s)}]
        BY <3>4 DEF KeptBody
      <4> HIDE DEF B, G, Taken
      <4> QED BY <3>2, <4>2, <4>3
    <3> QED BY <3>3, <3>4
  <2> HIDE DEF B, rank, m, I
  <2> QED BY <2>1, <2>2, <2>3, RecursionExists
<1>4. \E f : Good(f)
  <2>1. PICK f : Solves(f, B, I, Nat)
    BY <1>3
  <2>2. f \in [I -> Nat] /\ \A s \in I : f[s] = B[<<f, s>>]
    BY <2>1 DEF Solves
  <2>3. \A s \in I : f[s] = G(f, s)
    <3> HIDE DEF G
    <3> QED BY <2>2
  <2> HIDE DEF G, B
  <2> QED BY <2>2, <2>3
<1>5. Good(c)
  <2> HIDE DEF Good
  <2> QED BY <1>4
<1>6. ReusedNodes(first, second) = c[S]
  BY DEF ReusedNodes, MapThenSumSet, MapThenFoldSet, Kept, KeptBody
<1>7. \A s \in I : c[s] = G(c, s)
  <2> HIDE DEF c, G
  <2> QED BY <1>5
<1>8. \A s \in I : c[s] \in Nat
  <2> DEFINE T == { k \in Nat : \A s \in I : rank[s] = k => c[s] \in Nat }
  <2>1. ASSUME NEW k \in Nat, \A j \in 0 .. k - 1 : j \in T PROVE k \in T
    <3>1. SUFFICES ASSUME NEW s \in I, rank[s] = k PROVE c[s] \in Nat
      OBVIOUS
    <3>2. CASE s = {}
      <4>1. G(c, s) = 0
        BY <3>2 DEF KeptBody
      <4> HIDE DEF G, c
      <4> QED BY <1>7, <4>1
    <3>3. CASE s # {}
      <4>1. Taken(s) \in S /\ s \ {Taken(s)} \in I /\ rank[s \ {Taken(s)}] < rank[s]
        BY <1>1, <3>3
      <4>2. rank[s \ {Taken(s)}] \in Nat
        <5>1. rank[s \ {Taken(s)}] = Cardinality(s \ {Taken(s)})
          BY <4>1
        <5>2. IsFiniteSet(s \ {Taken(s)})
          BY <4>1, FS_Subset
        <5> QED BY <5>1, <5>2, FS_CardinalityType
      <4>3. rank[s \ {Taken(s)}] \in T
        <5> HIDE DEF T, rank, Taken
        <5> QED BY <2>1, <3>1, <4>1, <4>2
      <4>4. c[s \ {Taken(s)}] \in Nat
        <5> HIDE DEF c, rank, Taken
        <5> QED BY <4>1, <4>3
      <4>5. G(c, s) = Kept(first, second, Taken(s)) + c[s \ {Taken(s)}]
        BY <3>3 DEF KeptBody
      <4> HIDE DEF G, c, Taken
      <4> QED BY <1>7, <4>1, <4>4, <4>5
    <3> QED BY <3>2, <3>3
  <2>2. \A k \in Nat : k \in T
    <3> HIDE DEF T
    <3> QED BY <2>1, StrongInduction
  <2>3. \A s \in I : rank[s] \in Nat
    BY FS_Subset, FS_CardinalityType
  <2> HIDE DEF c, rank
  <2> QED BY <2>2, <2>3
<1> HIDE DEF c, G
<1> QED BY <1>6, <1>7, <1>8 DEF SumsKept, G

\* Each node of a set that is kept at least once counts.
LEMMA KeptNodesCount ==
  ASSUME NEW f, NEW first, NEW second, NEW S, IsFiniteSet(S), SumsKept(f, first, second, S),
         \A node \in S : Kept(first, second, node) \in Nat,
         NEW T, T \subseteq S, \A node \in T : Kept(first, second, node) >= 1
  PROVE  Cardinality(T) <= f[S]
<1> DEFINE N == { k \in Nat : \A s \in SUBSET S : Cardinality(s) = k => Cardinality(s \cap T) <= f[s] }
<1>1. \A s \in SUBSET S : /\ IsFiniteSet(s) /\ Cardinality(s) \in Nat /\ f[s] \in Nat
                          /\ IsFiniteSet(s \cap T) /\ Cardinality(s \cap T) \in Nat
  BY FS_Subset, FS_CardinalityType DEF SumsKept
<1>2. ASSUME NEW k \in Nat, \A j \in 0 .. k - 1 : j \in N PROVE k \in N
  <2>1. SUFFICES ASSUME NEW s \in SUBSET S, Cardinality(s) = k
                 PROVE  Cardinality(s \cap T) <= f[s]
    OBVIOUS
  <2>2. CASE s = {}
    <3>1. s \cap T = {}
      BY <2>2
    <3>2. f[s] \in Nat
      BY <1>1
    <3> QED BY <3>1, <3>2, FS_EmptySet
  <2>3. CASE s # {}
    <3> DEFINE x == CHOOSE x \in s : TRUE
               r == s \ {x}
    <3>1. x \in s /\ f[s] = Kept(first, second, x) + f[r]
      BY <2>3 DEF SumsKept, KeptBody
    <3> HIDE DEF x
    <3>2. r \in SUBSET S /\ x \in S /\ Kept(first, second, x) \in Nat
      BY <3>1
    <3>3. Cardinality(r) = k - 1 /\ k - 1 \in 0 .. k - 1
      <4>1. Cardinality(r) = Cardinality(s) - 1 /\ Cardinality(r) \in Nat
        BY <1>1, <3>1, <3>2, FS_RemoveElement
      <4> HIDE DEF r
      <4> QED BY <2>1, <4>1
    <3>4. Cardinality(r \cap T) <= f[r]
      <4> HIDE DEF r
      <4> QED BY <1>2, <3>2, <3>3
    <3>5. r \cap T = (s \cap T) \ {x}
      OBVIOUS
    <3>6. Cardinality(r \cap T) = IF x \in s \cap T THEN Cardinality(s \cap T) - 1 ELSE Cardinality(s \cap T)
      BY <1>1, <3>5, FS_RemoveElement
    <3>7. f[r] \in Nat /\ Cardinality(s \cap T) \in Nat
      BY <1>1, <3>2
    <3> HIDE DEF r
    <3> DEFINE y == Kept(first, second, x)
    <3>8. y \in Nat /\ (x \in T => y >= 1) /\ f[s] = y + f[r]
      BY <3>1, <3>2
    <3> HIDE DEF y
    <3> QED BY <3>4, <3>6, <3>7, <3>8
  <2> QED BY <2>2, <2>3
<1>3. \A k \in Nat : k \in N
  <2> HIDE DEF N
  <2> QED BY <1>2, StrongInduction
<1>4. S \cap T = T
  OBVIOUS
<1>5. Cardinality(S \cap T) <= f[S]
  <2>1. Cardinality(S) \in N /\ S \in SUBSET S
    BY <1>1, <1>3
  <2> QED BY <2>1
<1> QED BY <1>4, <1>5

\* A node that both proofs have is kept at least once.
LEMMA KeptIfInBoth ==
  ASSUME NEW E, NEW first \in Seq(E), NEW second \in Seq(E), NEW node
  PROVE  /\ Kept(first, second, node) \in Nat
         /\ node \in ToSet(first) /\ node \in ToSet(second) => Kept(first, second, node) >= 1
<1>1. ASSUME NEW p \in Seq(E)
      PROVE  /\ Occurrences(node, p) \in Nat
             /\ node \in ToSet(p) => Occurrences(node, p) >= 1
  <2> DEFINE K == { k \in DOMAIN p : p[k] = node }
  <2>1. DOMAIN p = 1 .. Len(p) /\ Len(p) \in Nat
    OBVIOUS
  <2>2. IsFiniteSet(1 .. Len(p))
    BY <2>1, FS_Interval
  <2>3. IsFiniteSet(K) /\ Cardinality(K) \in Nat
    BY <2>1, <2>2, FS_Subset, FS_CardinalityType
  <2>4. ASSUME node \in ToSet(p) PROVE K # {}
    <3>1. \E k \in DOMAIN p : p[k] = node
      BY <2>4 DEF ToSet
    <3> QED BY <3>1
  <2>5. K # {} => Cardinality(K) # 0
    <3> HIDE DEF K
    <3> QED BY <2>3, FS_EmptySet
  <2>6. Occurrences(node, p) = Cardinality(K)
    BY DEF Occurrences
  <2> HIDE DEF K
  <2> QED BY <2>3, <2>4, <2>5, <2>6
<1>2. ASSUME NEW a \in Nat, NEW b \in Nat PROVE Min({a, b}) \in {a, b}
  <2>1. \E x \in {a, b} : \A y \in {a, b} : x <= y
    OBVIOUS
  <2> QED BY <2>1 DEF Min
<1> DEFINE a == Occurrences(node, first)
           b == Occurrences(node, second)
<1>3. a \in Nat /\ b \in Nat /\ (node \in ToSet(first) /\ node \in ToSet(second) => a >= 1 /\ b >= 1)
  BY <1>1
<1>4. Kept(first, second, node) = Min({a, b})
  BY DEF Kept
<1> HIDE DEF a, b
<1>5. Min({a, b}) \in {a, b}
  BY <1>2, <1>3
<1> QED BY <1>3, <1>4, <1>5

\* The second proof gets at least the nodes of a list that both have.
LEMMA ReusesAll ==
  ASSUME NEW E, NEW first \in Seq(E), NEW second \in Seq(E), NEW common \in Seq(E),
         ToSet(common) \subseteq ToSet(first), ToSet(common) \subseteq ToSet(second),
         \A j, k \in 1 .. Len(common) : common[j] = common[k] => j = k
  PROVE  ReusedNodes(first, second) \in Nat /\ Len(common) <= ReusedNodes(first, second)
<1> DEFINE S == ToSet(second)
           T == ToSet(common)
           n == Len(common)
<1>1. DOMAIN second = 1 .. Len(second) /\ Len(second) \in Nat /\ DOMAIN common = 1 .. n /\ n \in Nat
  OBVIOUS
<1>2. IsFiniteSet(S)
  <2>1. S = { second[k] : k \in 1 .. Len(second) }
    BY <1>1 DEF ToSet
  <2>2. second \in [1 .. Len(second) -> S]
    BY <1>1, <2>1
  <2>3. IsFiniteSet(1 .. Len(second))
    BY <1>1, FS_Interval
  <2>4. second \in Surjection(1 .. Len(second), S)
    BY <2>1, <2>2 DEF Surjection
  <2> HIDE DEF S
  <2> QED BY <2>3, <2>4, FS_Surjection
<1>3. Cardinality(T) = n
  <2>1. common \in Bijection(1 .. n, T)
    <3>1. T = { common[k] : k \in 1 .. n }
      BY <1>1 DEF ToSet
    <3>2. common \in [1 .. n -> T]
      BY <1>1, <3>1
    <3>3. common \in Injection(1 .. n, T)
      BY <3>2 DEF Injection, IsInjective
    <3>4. common \in Surjection(1 .. n, T)
      BY <3>1, <3>2 DEF Surjection
    <3> HIDE DEF T
    <3> QED BY <3>3, <3>4 DEF Bijection
  <2>2. ExistsBijection(1 .. n, T)
    BY <2>1 DEF ExistsBijection
  <2> HIDE DEF T, n
  <2> QED BY <1>1, <2>2, FS_CountingElements
<1>4. \A node \in S : Kept(first, second, node) \in Nat
  BY KeptIfInBoth
<1>5. T \subseteq S /\ \A node \in T : Kept(first, second, node) >= 1
  BY KeptIfInBoth
<1> HIDE DEF S, T, n
<1>6. PICK f : SumsKept(f, first, second, S) /\ ReusedNodes(first, second) = f[S]
  BY <1>2, <1>4, ReusedNodesIs DEF S
<1>7. Cardinality(T) <= f[S]
  BY <1>2, <1>4, <1>5, <1>6, KeptNodesCount
<1>8. f[S] \in Nat
  BY <1>6 DEF SumsKept
<1> QED BY <1>3, <1>6, <1>7, <1>8 DEF n

\* f lists the paths up to d, and g those up to e, which is not before d.
ListPathsTo(f, g, tree, index, d, e) ==
  /\ d \in Nat /\ e \in Nat /\ d <= e
  /\ ListsPaths(f, tree, index, d)
  /\ ListsPaths(g, tree, index, e)

\* The part of a path below an interval does not depend on where the path ends.
LEMMA PathsAgree ==
  ASSUME NEW tree, NEW index, NEW d, NEW e, NEW f, NEW g,
         ListPathsTo(f, g, tree, index, d, e)
  PROVE  \A a, b \in 0 .. d : f[<<a, b>>] = g[<<a, b>>]
<1> USE DEF ListPathsTo
<1> DEFINE S == { m \in Nat : \A a, b \in 0 .. d : b - a <= m => f[<<a, b>>] = g[<<a, b>>] }
<1>1. ASSUME NEW m \in Nat, \A j \in 0 .. m - 1 : j \in S PROVE m \in S
  <2>1. SUFFICES ASSUME NEW a \in 0 .. d, NEW b \in 0 .. d, b - a <= m
                 PROVE  f[<<a, b>>] = g[<<a, b>>]
    OBVIOUS
  <2> DEFINE i == <<a, b>>
             mid == a + Split(b - a)
  <2>2. i[1] = a /\ i[2] = b
    OBVIOUS
  <2>3. f[i] = PathBody(tree, index, f, i) /\ g[i] = PathBody(tree, index, g, i)
    <3>1. i \in (0 .. d) \X (0 .. d) /\ i \in (0 .. e) \X (0 .. e)
      OBVIOUS
    <3> QED BY <3>1 DEF ListsPaths
  <2>4. b - a > 1 => f[<<a, mid>>] = g[<<a, mid>>] /\ f[<<mid, b>>] = g[<<mid, b>>]
    <3>1. SUFFICES ASSUME b - a > 1
                   PROVE  f[<<a, mid>>] = g[<<a, mid>>] /\ f[<<mid, b>>] = g[<<mid, b>>]
      OBVIOUS
    <3>2. Split(b - a) \in 1 .. (b - a) - 1
      BY <3>1, SplitInside
    <3> DEFINE k == m - 1
    <3>3. mid \in 0 .. d /\ mid - a <= k /\ b - mid <= k /\ k \in 0 .. m - 1
      BY <2>1, <3>1, <3>2
    <3>4. k \in S
      BY <1>1, <3>3
    <3>5. \A x, y \in 0 .. d : y - x <= k => f[<<x, y>>] = g[<<x, y>>]
      BY <3>4
    <3> HIDE DEF S, mid, k
    <3> QED BY <3>3, <3>5
  <2> HIDE DEF i, mid
  <2>5. CASE b - a <= 1
    <3>1. PathBody(tree, index, f, i) = <<>> /\ PathBody(tree, index, g, i) = <<>>
      BY <2>2, <2>5 DEF PathBody
    <3> QED BY <2>3, <3>1 DEF i
  <2>6. CASE b - a > 1
    <3>1. f[i] = IF index < mid THEN Append(f[<<a, mid>>], SubtreeHash(tree, mid, b))
                 ELSE Append(f[<<mid, b>>], SubtreeHash(tree, a, mid))
      BY <2>2, <2>3, <2>6 DEF PathBody, mid
    <3>2. g[i] = IF index < mid THEN Append(g[<<a, mid>>], SubtreeHash(tree, mid, b))
                 ELSE Append(g[<<mid, b>>], SubtreeHash(tree, a, mid))
      BY <2>2, <2>3, <2>6 DEF PathBody, mid
    <3>3. f[i] = g[i]
      BY <2>4, <2>6, <3>1, <3>2
    <3> QED BY <3>3 DEF i
  <2> QED BY <2>5, <2>6
<1>2. \A m \in Nat : m \in S
  <2> HIDE DEF S
  <2> QED BY <1>1, StrongInduction
<1>3. ASSUME NEW a \in 0 .. d, NEW b \in 0 .. d PROVE f[<<a, b>>] = g[<<a, b>>]
  <2>1. d \in S /\ b - a <= d
    BY <1>2
  <2> QED BY <2>1
<1> QED BY <1>3

\* The interval [a, b) has its halves on the two sides of mid.
SplitsAt(a, b, mid) == a \in Nat /\ b \in Nat /\ a < b /\ mid = a + Split(b - a)

\* One step of a path.
LEMMA ProofSplits ==
  ASSUME NEW tree, NEW index, NEW a, NEW b, NEW mid, SplitsAt(a, b, mid)
  PROVE  /\ b - a <= 1 => InclusionProof(tree, index, a, b) = << >>
         /\ b - a > 1 /\ index < mid =>
              InclusionProof(tree, index, a, b)
                = Append(InclusionProof(tree, index, a, mid), SubtreeHash(tree, mid, b))
         /\ b - a > 1 /\ ~(index < mid) =>
              InclusionProof(tree, index, a, b)
                = Append(InclusionProof(tree, index, mid, b), SubtreeHash(tree, a, mid))
<1> USE DEF SplitsAt
<1>1. PICK f : ListsPaths(f, tree, index, b) /\ InclusionProof(tree, index, a, b) = f[<<a, b>>]
  BY InclusionProofIs
<1> DEFINE i == <<a, b>>
<1>2. i[1] = a /\ i[2] = b /\ i \in (0 .. b) \X (0 .. b)
  OBVIOUS
<1>3. f[i] = PathBody(tree, index, f, i)
  BY <1>1, <1>2 DEF ListsPaths
<1>4. CASE b - a <= 1
  <2>1. PathBody(tree, index, f, i) = <<>>
    BY <1>2, <1>4 DEF PathBody
  <2> QED BY <1>1, <1>3, <1>4, <2>1
<1>5. CASE b - a > 1
  <2>1. mid \in Nat /\ a < mid /\ mid < b
    BY <1>5, SplitInside
  <2>2. /\ index < mid => f[i] = Append(f[<<a, mid>>], SubtreeHash(tree, mid, b))
        /\ ~(index < mid) => f[i] = Append(f[<<mid, b>>], SubtreeHash(tree, a, mid))
    <3> HIDE DEF i
    <3> QED BY <1>2, <1>3, <1>5 DEF PathBody
  <2>3. InclusionProof(tree, index, a, mid) = f[<<a, mid>>]
    <3>1. PICK g : ListsPaths(g, tree, index, mid) /\ InclusionProof(tree, index, a, mid) = g[<<a, mid>>]
      BY <2>1, InclusionProofIs
    <3>2. g[<<a, mid>>] = f[<<a, mid>>]
      <4>1. mid <= b /\ b \in Nat /\ mid \in Nat /\ a \in 0 .. mid /\ mid \in 0 .. mid
        BY <2>1
      <4>2. ListPathsTo(g, f, tree, index, mid, b)
        BY ONLY <1>1, <3>1, <4>1 DEF ListPathsTo
      <4> QED BY <4>1, <4>2, PathsAgree
    <3> QED BY <3>1, <3>2
  <2>4. InclusionProof(tree, index, mid, b) = f[<<mid, b>>]
    <3>1. PICK g : ListsPaths(g, tree, index, b) /\ InclusionProof(tree, index, mid, b) = g[<<mid, b>>]
      BY <2>1, InclusionProofIs
    <3>2. g[<<mid, b>>] = f[<<mid, b>>]
      <4>1. b <= b /\ b \in Nat /\ mid \in 0 .. b /\ b \in 0 .. b
        BY <2>1
      <4>2. ListPathsTo(g, f, tree, index, b, b)
        BY ONLY <1>1, <3>1, <4>1 DEF ListPathsTo
      <4> QED BY <4>1, <4>2, PathsAgree
    <3> QED BY <3>1, <3>2
  <2>5. InclusionProof(tree, index, a, b) = f[i]
    BY <1>1
  <2>6. ~(b - a <= 1)
    BY <1>5, <2>1
  <2> HIDE DEF i
  <2> QED BY <2>2, <2>3, <2>4, <2>5, <2>6
<1> QED BY <1>4, <1>5

\* The hash of the entries of [a, b).
IntervalHash(a, b) == MTHOf(Entries, a, b)
\* The inclusion proof of entry i in [a, b).
Path(i, a, b) == InclusionProof(Tree, i, a, b)

\* A subtree of that size is complete.
IsFull(size) == \E k \in Nat : size = Pow2[k]

\* [a, b) is a subtree of the log around entry i.
Around(i, a, b) ==
  /\ i \in Nat /\ a \in Nat /\ b \in Nat
  /\ IsValidSubtree(a, b)
  /\ b <= LogSize
  /\ a <= i /\ i < b

\* [a, b) has the two halves [c, d) and [u, v), of which the first is around i.
HalvesOf(a, b, c, d, u, v) ==
  \/ d = a + Split(b - a) /\ c = a /\ u = d /\ v = b
  \/ v = a + Split(b - a) /\ u = a /\ c = v /\ d = b

\* The way from [a, b) to its half around entry i, and what it does to the path.
Halved(i, a, b, c, d, u, v) ==
  /\ Around(i, a, b) /\ b - a > 1
  /\ Around(i, c, d) /\ a <= c /\ d <= b /\ d - c < b - a
  /\ u \in Nat /\ v \in Nat /\ a <= u /\ u < v /\ v <= b
  /\ HalvesOf(a, b, c, d, u, v)
  /\ IsFull(d - c) \/ (d = b /\ ~IsFull(b - a))
  /\ \A k \in Nat : b - a = Pow2[k] => k > 0 /\ d - c = Pow2[k - 1]
  /\ Path(i, a, b) = Append(Path(i, c, d), IntervalHash(u, v))

\* Where a subtree is split, and what its halves are.
LEMMA SplitsInTwo ==
  ASSUME NEW a \in Nat, NEW b \in Nat, IsValidSubtree(a, b), b - a > 1, NEW mid, mid = a + Split(b - a)
  PROVE  /\ mid \in Nat /\ a < mid /\ mid < b
         /\ IsValidSubtree(a, mid) /\ IsValidSubtree(mid, b)
         /\ IsFull(mid - a)
         /\ \A k \in Nat : b - a = Pow2[k] =>
              k > 0 /\ mid - a = Pow2[k - 1] /\ b - mid = Pow2[k - 1]
<1>1. PICK g \in Nat : SpansNode(a, b, b, BitCeil(b - a), g)
  BY SubtreeSpans
<1> DEFINE l == BitCeil(b - a)
<1> HIDE DEF l
<1>2. SpansNode(a, b, b, l, g)
  BY <1>1 DEF l
<1>3. mid \in Nat /\ a < mid /\ mid < b /\ SpansNode(a, mid, b, l - 1, 2 * g)
  BY <1>2, LeftChild
<1>4. PICK j : SpansNode(mid, b, b, j, (2 * g + 1) * Pow2[(l - 1) - j])
  BY <1>2, RightChild
<1>5. IsValidSubtree(a, mid) /\ IsValidSubtree(mid, b)
  BY <1>3, <1>4, SpanIsValid
<1>6. PICK k \in Nat : Split(b - a) = Pow2[k] /\ Pow2[k] < b - a /\ b - a <= 2 * Pow2[k]
  BY SplitDef
<1>7. mid - a = Pow2[k] /\ Pow2[k] \in Nat
  BY <1>6, Pow2Positive
<1>8. ASSUME NEW m \in Nat, b - a = Pow2[m]
      PROVE  m > 0 /\ mid - a = Pow2[m - 1] /\ b - mid = Pow2[m - 1]
  <2>1. Pow2[k + 1] = 2 * Pow2[k] /\ k + 1 \in Nat /\ Pow2[m] \in Nat
    BY Pow2Positive
  <2>2. Pow2[m] < 2 * Pow2[k + 1] /\ Pow2[k + 1] < 2 * Pow2[m]
    BY <1>6, <1>7, <1>8, <2>1
  <2>3. m = k + 1
    BY <2>1, <2>2, Pow2Injective
  <2> QED BY <1>6, <1>7, <1>8, <2>1, <2>3
<1> QED BY <1>3, <1>5, <1>7, <1>8 DEF IsFull

\* The tree has the hash of each subtree of the log.
LEMMA SubtreeOfLog ==
  ASSUME NEW a \in Nat, NEW b \in Nat, IsValidSubtree(a, b), b <= LogSize
  PROVE  SubtreeHash(Tree, a, b) = IntervalHash(a, b)
<1>1. b \in 1 .. LogSize
  BY LogSizeAssumption DEF IsValidSubtree
<1>2. Tree.leaves[b] # Unavailable
  BY <1>1, LeavesAreThere
<1>3. IsStored(Tree, a, b)
  BY <1>2 DEF IsStored
<1>4. IsTreeOf(Tree, Entries) /\ Len(Entries) \in Nat /\ b <= Len(Entries)
  BY TreeOfEntries, LogSizeAssumption DEF IsWholeTreeOf
<1> QED BY <1>3, <1>4, SubtreeHashValue DEF IntervalHash

\* A subtree around an entry is a leaf, or one of its halves is around it.
LEMMA LeafOrHalved ==
  ASSUME NEW i, NEW a, NEW b, Around(i, a, b)
  PROVE  \/ b - a = 1 /\ Path(i, a, b) = << >>
         \/ \E c, d, u, v : Halved(i, a, b, c, d, u, v)
<1> DEFINE mid == a + Split(b - a)
<1>1. /\ i \in Nat /\ a \in Nat /\ b \in Nat /\ a < b /\ a <= i /\ i < b
      /\ IsValidSubtree(a, b) /\ b <= LogSize /\ LogSize \in Nat
  BY LogSizeAssumption DEF Around, IsValidSubtree
<1>2. CASE b - a <= 1
  <2>1. Path(i, a, b) = << >>
    <3>1. SplitsAt(a, b, mid)
      BY <1>1 DEF SplitsAt
    <3> HIDE DEF mid
    <3> QED BY <1>2, <3>1, ProofSplits DEF Path
  <2> QED BY <1>1, <1>2, <2>1
<1>3. CASE b - a > 1
  <2>1. /\ mid \in Nat /\ a < mid /\ mid < b
        /\ IsValidSubtree(a, mid) /\ IsValidSubtree(mid, b)
        /\ IsFull(mid - a)
        /\ \A k \in Nat : b - a = Pow2[k] =>
             k > 0 /\ mid - a = Pow2[k - 1] /\ b - mid = Pow2[k - 1]
    BY <1>1, <1>3, SplitsInTwo
  <2>2. /\ i < mid => Path(i, a, b) = Append(Path(i, a, mid), SubtreeHash(Tree, mid, b))
        /\ ~(i < mid) => Path(i, a, b) = Append(Path(i, mid, b), SubtreeHash(Tree, a, mid))
    <3>1. SplitsAt(a, b, mid)
      BY <1>1 DEF SplitsAt
    <3> HIDE DEF mid
    <3> QED BY <1>3, <3>1, ProofSplits DEF Path
  <2>3. SubtreeHash(Tree, mid, b) = IntervalHash(mid, b) /\ SubtreeHash(Tree, a, mid) = IntervalHash(a, mid)
    <3>1. mid <= LogSize
      BY <1>1, <2>1
    <3> HIDE DEF mid
    <3> QED BY <1>1, <2>1, <3>1, SubtreeOfLog
  <2>4. IsFull(b - a) => IsFull(b - mid)
    <3>1. SUFFICES ASSUME NEW k \in Nat, b - a = Pow2[k] PROVE IsFull(b - mid)
      BY DEF IsFull
    <3>2. k > 0 /\ b - mid = Pow2[k - 1] /\ k - 1 \in Nat
      BY <2>1, <3>1
    <3> QED BY <3>2 DEF IsFull
  <2>5. CASE i < mid
    <3>1. HalvesOf(a, b, a, mid, mid, b)
      BY DEF HalvesOf
    <3>2. Around(i, a, mid)
      BY <1>1, <2>1, <2>5 DEF Around
    <3> HIDE DEF mid
    <3>3. Path(i, a, b) = Append(Path(i, a, mid), IntervalHash(mid, b))
      BY <2>2, <2>3, <2>5
    <3>4. Halved(i, a, b, a, mid, mid, b)
      BY <1>1, <1>3, <2>1, <3>1, <3>2, <3>3 DEF Halved, Around
    <3> QED BY <3>4
  <2>6. CASE ~(i < mid)
    <3>1. HalvesOf(a, b, mid, b, a, mid)
      BY DEF HalvesOf
    <3>2. Around(i, mid, b)
      BY <1>1, <2>1, <2>6 DEF Around
    <3> HIDE DEF mid
    <3>3. Path(i, a, b) = Append(Path(i, mid, b), IntervalHash(a, mid))
      BY <2>2, <2>3, <2>6
    <3>4. Halved(i, a, b, mid, b, a, mid)
      BY <1>1, <1>3, <2>1, <2>4, <3>1, <3>2, <3>3 DEF Halved, Around
    <3> QED BY <3>4
  <2> QED BY <2>5, <2>6
<1> QED BY <1>1, <1>2, <1>3

\* A set with each leaf around an entry, and with each subtree of which it has
\* the half around the entry, has every subtree around it.
LEMMA WayInduction ==
  ASSUME NEW i, NEW S,
         \A a, b : Around(i, a, b) /\ b - a = 1 /\ Path(i, a, b) = << >> => <<a, b>> \in S,
         \A a, b, c, d, u, v : Halved(i, a, b, c, d, u, v) /\ <<c, d>> \in S => <<a, b>> \in S
  PROVE  \A a, b : Around(i, a, b) => <<a, b>> \in S
<1> DEFINE T == { m \in Nat : \A a, b : Around(i, a, b) /\ b - a = m => <<a, b>> \in S }
<1>1. ASSUME NEW m \in Nat, \A j \in 0 .. m - 1 : j \in T PROVE m \in T
  <2>1. SUFFICES ASSUME NEW a, NEW b, Around(i, a, b), b - a = m PROVE <<a, b>> \in S
    OBVIOUS
  <2>2. CASE \E c, d, u, v : Halved(i, a, b, c, d, u, v)
    <3>1. PICK c, d, u, v : Halved(i, a, b, c, d, u, v)
      BY <2>2
    <3>2. Around(i, c, d) /\ d - c \in 0 .. m - 1
      BY <2>1, <3>1 DEF Halved, Around, IsValidSubtree
    <3>3. d - c \in T
      BY <1>1, <3>2
    <3>4. <<c, d>> \in S
      BY <3>2, <3>3
    <3> QED BY <3>1, <3>4
  <2> QED BY <2>1, <2>2, LeafOrHalved
<1>2. \A m \in Nat : m \in T
  <2> HIDE DEF T
  <2> QED BY <1>1, StrongInduction
<1>3. ASSUME NEW a, NEW b, Around(i, a, b) PROVE <<a, b>> \in S
  <2>1. b - a \in Nat
    BY <1>3 DEF Around, IsValidSubtree
  <2>2. b - a \in T
    BY <1>2, <2>1
  <2> QED BY <1>3, <2>2
<1> QED BY <1>3

\* The hashes of intervals of the log.
IntervalHashes == { IntervalHash(w[1], w[2]) : w \in (0 .. LogSize) \X (0 .. LogSize) }

\* The hashes of intervals of n entries exist and differ from all others.
TellsApart(n) ==
  \A a, b, c, d \in 0 .. LogSize :
    b - a = n /\ a < b /\ c < d =>
      /\ IntervalHash(a, b) # Unavailable
      /\ IntervalHash(a, b) = IntervalHash(c, d) => a = c /\ b = d

\* The hash of an interval exists, and tells which one it is.
LEMMA HashTellsInterval == \A n \in Nat : TellsApart(n)
<1> DEFINE Tells(a, b, c, d) ==
             /\ IntervalHash(a, b) # Unavailable
             /\ IntervalHash(a, b) = IntervalHash(c, d) => a = c /\ b = d
           S == { n \in Nat : \A a, b, c, d \in 0 .. LogSize :
                                b - a = n /\ a < b /\ c < d => Tells(a, b, c, d) }
<1>1. LogSize \in Nat /\ Len(Entries) = LogSize /\ Len(Entries) \in Nat
  BY LogSizeAssumption, TreeOfEntries
<1>2. ASSUME NEW a \in 0 .. LogSize, NEW b \in 0 .. LogSize, a < b PROVE IntervalHash(a, b) # Unavailable
  <2> DEFINE m == b - a
  <2>1. m \in Nat \ {0} /\ a \in Nat /\ a + m <= Len(Entries) /\ a + m = b
    BY <1>1, <1>2
  <2> HIDE DEF m
  <2>2. HashesAgree(Entries, a, Entries, a, m)
    BY <1>1, <2>1, MTHAgree
  <2> QED BY <2>1, <2>2 DEF HashesAgree, IntervalHash
<1>3. ASSUME NEW a \in 0 .. LogSize, NEW b \in 0 .. LogSize, a < b
      PROVE  IntervalHash(a, b) =
               IF b - a <= 1 THEN HashLeaf(Entries[b])
               ELSE HashInternal(IntervalHash(a, a + Split(b - a)), IntervalHash(a + Split(b - a), b))
  BY <1>1, <1>3, MTHOfDef DEF IntervalHash
<1>4. ASSUME NEW n \in Nat, \A j \in 0 .. n - 1 : j \in S PROVE n \in S
  <2>1. SUFFICES ASSUME NEW a \in 0 .. LogSize, NEW b \in 0 .. LogSize,
                        NEW c \in 0 .. LogSize, NEW d \in 0 .. LogSize,
                        b - a = n, a < b, c < d, IntervalHash(a, b) = IntervalHash(c, d)
                 PROVE  a = c /\ b = d
    BY <1>2
  <2> DEFINE m == a + Split(b - a)
             k == c + Split(d - c)
  <2>2. b - a > 1 => m \in 0 .. LogSize /\ a < m /\ m < b
    <3>1. SUFFICES ASSUME b - a > 1 PROVE m \in 0 .. LogSize /\ a < m /\ m < b
      OBVIOUS
    <3>2. Split(b - a) \in 1 .. (b - a) - 1
      BY <3>1, SplitInside
    <3> QED BY <1>1, <2>1, <3>2
  <2>3. d - c > 1 => k \in 0 .. LogSize /\ c < k /\ k < d
    <3>1. SUFFICES ASSUME d - c > 1 PROVE k \in 0 .. LogSize /\ c < k /\ k < d
      OBVIOUS
    <3>2. d - c \in Nat
      BY <1>1, <2>1
    <3>3. Split(d - c) \in 1 .. (d - c) - 1
      BY <3>1, <3>2, SplitInside
    <3> QED BY <1>1, <2>1, <3>3
  <2>4. IntervalHash(a, b) = IF b - a <= 1 THEN HashLeaf(Entries[b])
                             ELSE HashInternal(IntervalHash(a, m), IntervalHash(m, b))
    BY <1>3, <2>1
  <2>5. IntervalHash(c, d) = IF d - c <= 1 THEN HashLeaf(Entries[d])
                             ELSE HashInternal(IntervalHash(c, k), IntervalHash(k, d))
    BY <1>3, <2>1
  <2> HIDE DEF m, k, S
  <2>6. IntervalHash(a, b) # Unavailable /\ IntervalHash(c, d) # Unavailable
    BY <1>2, <2>1
  <2>7. CASE b - a <= 1 /\ d - c <= 1
    <3>1. Entries[b] = Entries[d]
      <4>1. HashLeaf(Entries[b]) = HashLeaf(Entries[d])
        BY <2>1, <2>4, <2>5, <2>7
      <4> QED BY <4>1, HashesDiffer, Zenon
    <3>2. b \in 1 .. LogSize /\ d \in 1 .. LogSize
      BY <1>1, <2>1
    <3>3. Entries[b] = b - 1 /\ Entries[d] = d - 1
      BY <3>2 DEF Entries
    <3>4. b - 1 = d - 1
      BY ONLY <3>1, <3>3
    <3>5. b = d
      BY <3>2, <3>4, <1>1
    <3>6. a = b - 1 /\ c = d - 1
      BY <2>1, <2>7, <1>1
    <3> QED BY <3>5, <3>6
  <2>8. CASE b - a > 1 /\ d - c > 1
    <3>1. /\ IntervalHash(a, b) = HashInternal(IntervalHash(a, m), IntervalHash(m, b))
          /\ IntervalHash(c, d) = HashInternal(IntervalHash(c, k), IntervalHash(k, d))
      BY <2>4, <2>5, <2>8, <1>1
    <3>2. IntervalHash(a, m) = IntervalHash(c, k) /\ IntervalHash(m, b) = IntervalHash(k, d)
      <4> DEFINE w == IntervalHash(a, m)
                 x == IntervalHash(m, b)
                 y == IntervalHash(c, k)
                 z == IntervalHash(k, d)
      <4>1. HashInternal(w, x) # Unavailable /\ HashInternal(w, x) = HashInternal(y, z)
        BY <2>1, <2>6, <3>1
      <4> HIDE DEF w, x, y, z
      <4>2. w = y /\ x = z
        BY <4>1, HashesDiffer
      <4> QED BY <4>2 DEF w, x, y, z
    <3>3. m - a \in 0 .. n - 1 /\ b - m \in 0 .. n - 1
      BY <1>1, <2>1, <2>2, <2>8
    <3>4. m - a \in S /\ b - m \in S
      BY <1>4, <3>3
    <3>5. Tells(a, m, c, k) /\ Tells(m, b, k, d)
      <4> HIDE DEF Tells
      <4> QED BY <2>1, <2>2, <2>3, <2>8, <3>4 DEF S
    <3> QED BY <3>2, <3>5
  <2>9. CASE ~(b - a <= 1 <=> d - c <= 1)
    <3>1. ASSUME NEW x, NEW y, NEW z, HashInternal(x, y) # Unavailable
          PROVE  HashInternal(x, y) # HashLeaf(z)
      <4>1. HashInternal(x, y) = <<x, y>>
        BY <3>1 DEF HashInternal
      <4>2. Len(<<x, y>>) = 2 /\ Len(<<z>>) = 1
        OBVIOUS
      <4> QED BY <4>1, <4>2 DEF HashLeaf
    <3>2. CASE b - a <= 1
      <4>1. /\ IntervalHash(a, b) = HashLeaf(Entries[b])
            /\ IntervalHash(c, d) = HashInternal(IntervalHash(c, k), IntervalHash(k, d))
        BY <2>4, <2>5, <2>9, <3>2
      <4> QED BY <2>1, <2>6, <3>1, <4>1
    <3>3. CASE ~(b - a <= 1)
      <4>1. /\ IntervalHash(a, b) = HashInternal(IntervalHash(a, m), IntervalHash(m, b))
            /\ IntervalHash(c, d) = HashLeaf(Entries[d])
        BY <2>4, <2>5, <2>9, <3>3
      <4> QED BY <2>1, <2>6, <3>1, <4>1
    <3> QED BY <3>2, <3>3
  <2> QED BY <1>1, <2>1, <2>7, <2>8, <2>9
<1>5. \A n \in Nat : n \in S
  <2> HIDE DEF S
  <2> QED BY <1>4, StrongInduction
<1>6. ASSUME NEW n \in Nat PROVE TellsApart(n)
  <2>1. n \in S
    <3> HIDE DEF S
    <3> QED BY <1>5
  <2> QED BY <2>1 DEF TellsApart
<1> QED BY <1>6

\* So equal hashes are hashes of one interval.
LEMMA SameInterval ==
  ASSUME NEW a \in 0 .. LogSize, NEW b \in 0 .. LogSize, NEW c \in 0 .. LogSize, NEW d \in 0 .. LogSize,
         a < b, c < d, IntervalHash(a, b) = IntervalHash(c, d)
  PROVE  a = c /\ b = d
<1> DEFINE n == b - a
<1>1. n \in Nat /\ b - a = n
  BY LogSizeAssumption
<1> HIDE DEF n
<1>2. TellsApart(n)
  BY <1>1, HashTellsInterval
<1> QED BY <1>1, <1>2 DEF TellsApart

\* A hash of the path of entry i is that of an interval beside the entry.
IsBeside(hash, i, a, b) ==
  \E u, v \in 0 .. LogSize :
    a <= u /\ u < v /\ v <= b /\ (i < u \/ v <= i) /\ hash = IntervalHash(u, v)

\* What a path consists of: hashes of intervals beside the entry, all different
\* and together all the rest; one for each level of a full subtree.
PathFits(i, a, b) ==
  LET p == Path(i, a, b)
  IN  /\ p \in Seq(IntervalHashes)
      /\ \A j \in 1 .. Len(p) : IsBeside(p[j], i, a, b)
      /\ \A x \in Nat : a <= x /\ x < b /\ x # i =>
           \E j \in 1 .. Len(p) : \E u, v \in 0 .. LogSize :
             u <= x /\ x < v /\ p[j] = IntervalHash(u, v)
      /\ \A j, k \in 1 .. Len(p) : p[j] = p[k] => j = k
      /\ \A k \in Nat : b - a = Pow2[k] => Len(p) = k

\* A path one hash longer.
LEMMA LongerPathFits ==
  ASSUME NEW i, NEW a, NEW b, NEW c, NEW d, NEW u, NEW v, Halved(i, a, b, c, d, u, v), PathFits(i, c, d)
  PROVE  PathFits(i, a, b)
<1> DEFINE p == Path(i, a, b)
           q == Path(i, c, d)
           h == IntervalHash(u, v)
<1>1. /\ i \in Nat /\ a \in Nat /\ b \in Nat /\ c \in Nat /\ d \in Nat /\ LogSize \in Nat
      /\ c <= i /\ i < d /\ a <= c /\ d <= b /\ b <= LogSize /\ d - c < b - a
      /\ u \in Nat /\ v \in Nat /\ a <= u /\ u < v /\ v <= b
      /\ u \in 0 .. LogSize /\ v \in 0 .. LogSize
      /\ (u = d /\ c = a /\ v = b) \/ (c = v /\ u = a /\ d = b)
      /\ \A k \in Nat : b - a = Pow2[k] => k > 0 /\ d - c = Pow2[k - 1]
  BY LogSizeAssumption DEF Halved, Around, HalvesOf
<1>2. p = Append(q, h)
  BY DEF Halved
<1>3. /\ q \in Seq(IntervalHashes)
      /\ \A j \in 1 .. Len(q) : IsBeside(q[j], i, c, d)
      /\ \A x \in Nat : c <= x /\ x < d /\ x # i =>
           \E j \in 1 .. Len(q) : \E y, z \in 0 .. LogSize :
             y <= x /\ x < z /\ q[j] = IntervalHash(y, z)
      /\ \A j, k \in 1 .. Len(q) : q[j] = q[k] => j = k
      /\ \A k \in Nat : d - c = Pow2[k] => Len(q) = k
  BY DEF PathFits
<1>4. h \in IntervalHashes
  <2>1. <<u, v>> \in (0 .. LogSize) \X (0 .. LogSize)
    BY <1>1
  <2> QED BY <2>1 DEF IntervalHashes
<1> HIDE DEF p, q, h
<1>5. /\ p \in Seq(IntervalHashes) /\ Len(q) \in Nat /\ Len(p) = Len(q) + 1
      /\ \A j \in 1 .. Len(q) : p[j] = q[j]
      /\ p[Len(p)] = h
  BY <1>2, <1>3, <1>4
<1>6. \A j \in 1 .. Len(p) : j \in 1 .. Len(q) \/ j = Len(p)
  BY <1>5
<1>7. ASSUME NEW j \in 1 .. Len(p) PROVE IsBeside(p[j], i, a, b)
  <2>1. CASE j \in 1 .. Len(q)
    <3>1. PICK y \in 0 .. LogSize, z \in 0 .. LogSize :
            c <= y /\ y < z /\ z <= d /\ (i < y \/ z <= i) /\ q[j] = IntervalHash(y, z)
      BY <1>3, <2>1 DEF IsBeside
    <3>2. a <= y /\ z <= b
      BY <1>1, <3>1
    <3> QED BY <1>5, <2>1, <3>1, <3>2 DEF IsBeside
  <2>2. CASE j = Len(p)
    <3>1. i < u \/ v <= i
      BY <1>1
    <3>2. p[j] = IntervalHash(u, v)
      BY <1>5, <2>2 DEF h
    <3> QED BY <1>1, <3>1, <3>2 DEF IsBeside
  <2> QED BY <1>6, <2>1, <2>2
<1>8. ASSUME NEW x \in Nat, a <= x, x < b, x # i
      PROVE  \E j \in 1 .. Len(p) : \E y, z \in 0 .. LogSize :
               y <= x /\ x < z /\ p[j] = IntervalHash(y, z)
  <2>1. CASE c <= x /\ x < d
    <3>1. PICK j \in 1 .. Len(q), y \in 0 .. LogSize, z \in 0 .. LogSize :
            y <= x /\ x < z /\ q[j] = IntervalHash(y, z)
      BY <1>3, <1>8, <2>1
    <3>2. j \in 1 .. Len(p) /\ p[j] = q[j]
      BY <1>5
    <3> QED BY <3>1, <3>2
  <2>2. CASE ~(c <= x /\ x < d)
    <3>1. u <= x /\ x < v
      BY <1>1, <1>8, <2>2
    <3>2. Len(p) \in 1 .. Len(p) /\ p[Len(p)] = IntervalHash(u, v)
      BY <1>5 DEF h
    <3> QED BY <1>1, <3>1, <3>2
  <2> QED BY <2>1, <2>2
<1>9. ASSUME NEW j \in 1 .. Len(q) PROVE q[j] # h
  <2>1. PICK y \in 0 .. LogSize, z \in 0 .. LogSize :
          c <= y /\ y < z /\ z <= d /\ q[j] = IntervalHash(y, z)
    BY <1>3 DEF IsBeside
  <2>2. ~(y = u /\ z = v)
    BY <1>1, <2>1
  <2>3. IntervalHash(y, z) # IntervalHash(u, v)
    BY <1>1, <2>1, <2>2, SameInterval
  <2> QED BY <2>1, <2>3 DEF h
<1>10. ASSUME NEW j \in 1 .. Len(p), NEW k \in 1 .. Len(p), p[j] = p[k] PROVE j = k
  BY <1>3, <1>5, <1>6, <1>9, <1>10
<1>11. ASSUME NEW k \in Nat, b - a = Pow2[k] PROVE Len(p) = k
  <2>1. k > 0 /\ d - c = Pow2[k - 1] /\ k - 1 \in Nat
    BY <1>1, <1>11
  <2>2. Len(q) = k - 1
    BY <1>3, <2>1
  <2> QED BY <1>5, <2>1, <2>2
<1> QED BY <1>5, <1>7, <1>8, <1>10, <1>11 DEF PathFits, p

\* Every path is of this form.
LEMMA PathsFit ==
  ASSUME NEW i, NEW a, NEW b, Around(i, a, b)
  PROVE  PathFits(i, a, b)
<1> DEFINE S == { w \in Nat \X Nat : PathFits(i, w[1], w[2]) }
<1>1. ASSUME NEW x, NEW y, Around(i, x, y), y - x = 1, Path(i, x, y) = << >> PROVE <<x, y>> \in S
  <2>1. x \in Nat /\ y \in Nat /\ i \in Nat /\ x <= i /\ i < y
    BY <1>1 DEF Around
  <2>2. << >> \in Seq(IntervalHashes) /\ Len(<< >>) = 0
    OBVIOUS
  <2>3. \A z \in Nat : ~(x <= z /\ z < y /\ z # i)
    BY <1>1, <2>1
  <2>4. ASSUME NEW k \in Nat, y - x = Pow2[k] PROVE k = 0
    <3>1. Pow2[k] = 1 /\ Pow2[0] = 1 /\ 0 \in Nat
      BY <1>1, <2>4, Pow2Positive
    <3> QED BY <3>1, Pow2Injective
  <2>5. PathFits(i, x, y)
    BY <1>1, <2>2, <2>3, <2>4 DEF PathFits
  <2> QED BY <2>1, <2>5
<1>2. ASSUME NEW x, NEW y, NEW c, NEW d, NEW u, NEW v, Halved(i, x, y, c, d, u, v), <<c, d>> \in S
      PROVE  <<x, y>> \in S
  <2>1. x \in Nat /\ y \in Nat
    BY <1>2 DEF Halved, Around
  <2>2. PathFits(i, c, d)
    BY <1>2
  <2>3. PathFits(i, x, y)
    BY <1>2, <2>2, LongerPathFits
  <2> QED BY <2>1, <2>3
<1>3. <<a, b>> \in S
  <2> HIDE DEF S
  <2> QED BY <1>1, <1>2, WayInduction
<1> QED BY <1>3

\* The beginning of a path is the path inside one of the nodes on the way: a
\* full one, or one that ends where the subtree ends.
PrefixIsPart(i, a, b) ==
  \A p \in Seq(IntervalHashes) : IsPrefix(p, Path(i, a, b)) =>
    \E c, d \in Nat : /\ Around(i, c, d) /\ a <= c /\ d <= b
                      /\ p = Path(i, c, d)
                      /\ IsFull(d - c) \/ (d = b /\ ~IsFull(b - a))

\* Every beginning of a path is of that kind.
LEMMA PrefixesAreParts ==
  ASSUME NEW i, NEW a, NEW b, Around(i, a, b)
  PROVE  PrefixIsPart(i, a, b)
<1> DEFINE S == { w \in Nat \X Nat : PrefixIsPart(i, w[1], w[2]) }
<1>0. ASSUME NEW x, NEW y, Around(i, x, y), NEW p \in Seq(IntervalHashes), p = Path(i, x, y)
      PROVE  \E c, d \in Nat : /\ Around(i, c, d) /\ x <= c /\ d <= y
                               /\ p = Path(i, c, d)
                               /\ IsFull(d - c) \/ (d = y /\ ~IsFull(y - x))
  <2>1. x \in Nat /\ y \in Nat
    BY <1>0 DEF Around
  <2>2. x <= x /\ y <= y
    BY <2>1
  <2> QED BY <1>0, <2>1, <2>2
<1>1. ASSUME NEW x, NEW y, Around(i, x, y), y - x = 1, Path(i, x, y) = << >> PROVE <<x, y>> \in S
  <2>1. x \in Nat /\ y \in Nat
    BY <1>1 DEF Around
  <2>2. ASSUME NEW p \in Seq(IntervalHashes), IsPrefix(p, Path(i, x, y)) PROVE p = Path(i, x, y)
    <3>1. << >> \in Seq(IntervalHashes) /\ Len(<< >>) = 0 /\ Len(p) \in Nat
      OBVIOUS
    <3> DEFINE q == Path(i, x, y)
    <3>2. q \in Seq(IntervalHashes) /\ Len(q) = 0 /\ IsPrefix(p, q)
      BY <1>1, <2>2, <3>1
    <3> HIDE DEF q
    <3>3. Len(p) >= Len(q)
      BY <3>1, <3>2
    <3>4. p = q
      BY <3>2, <3>3, PrefixOfSameLength
    <3> QED BY <3>4 DEF q
  <2>3. PrefixIsPart(i, x, y)
    BY <1>0, <1>1, <2>2 DEF PrefixIsPart
  <2> QED BY <2>1, <2>3
<1>2. ASSUME NEW x, NEW y, NEW c, NEW d, NEW u, NEW v, Halved(i, x, y, c, d, u, v), <<c, d>> \in S
      PROVE  <<x, y>> \in S
  <2> DEFINE q == Path(i, c, d)
             h == IntervalHash(u, v)
  <2>1. /\ x \in Nat /\ y \in Nat /\ c \in Nat /\ d \in Nat /\ x <= c /\ d <= y
        /\ IsFull(d - c) \/ (d = y /\ ~IsFull(y - x))
        /\ Around(i, x, y) /\ Around(i, c, d)
        /\ Path(i, x, y) = Append(q, h)
    BY <1>2 DEF Halved, Around
  <2>2. q \in Seq(IntervalHashes) /\ Path(i, x, y) \in Seq(IntervalHashes)
    BY <2>1, PathsFit DEF PathFits
  <2>3. PrefixIsPart(i, c, d)
    BY <1>2
  <2> HIDE DEF q, h, S
  <2>4. ASSUME NEW p \in Seq(IntervalHashes), IsPrefix(p, Path(i, x, y))
        PROVE  \E e, f \in Nat : /\ Around(i, e, f) /\ x <= e /\ f <= y
                                 /\ p = Path(i, e, f)
                                 /\ IsFull(f - e) \/ (f = y /\ ~IsFull(y - x))
    <3>1. /\ Len(p) <= Len(Path(i, x, y)) /\ Len(Path(i, x, y)) = Len(q) + 1 /\ Len(q) \in Nat
          /\ Len(p) \in Nat
          /\ \A j \in 1 .. Len(p) : p[j] = Path(i, x, y)[j]
          /\ \A j \in 1 .. Len(q) : Path(i, x, y)[j] = q[j]
      <4>1. Len(p) <= Len(Path(i, x, y)) /\ \A j \in 1 .. Len(p) : p[j] = Path(i, x, y)[j]
        BY <2>2, <2>4, PrefixChar
      <4>2. /\ Len(Append(q, h)) = Len(q) + 1 /\ Len(q) \in Nat
            /\ \A j \in 1 .. Len(q) : Append(q, h)[j] = q[j]
        BY <2>2
      <4>3. Len(p) \in Nat
        OBVIOUS
      <4> QED BY <2>1, <4>1, <4>2, <4>3
    <3>2. CASE Len(p) >= Len(Path(i, x, y))
      <4>1. p = Path(i, x, y)
        BY <2>2, <2>4, <3>2, PrefixOfSameLength
      <4> QED BY <1>0, <2>1, <4>1
    <3>3. CASE ~(Len(p) >= Len(Path(i, x, y)))
      <4>1. Len(p) <= Len(q) /\ \A j \in 1 .. Len(p) : p[j] = q[j]
        BY <3>1, <3>3
      <4>2. IsPrefix(p, q)
        BY <2>2, <4>1, PrefixChar
      <4>3. PICK e \in Nat, f \in Nat :
              /\ Around(i, e, f) /\ c <= e /\ f <= d
              /\ p = Path(i, e, f)
              /\ IsFull(f - e) \/ (f = d /\ ~IsFull(d - c))
        BY <2>3, <4>2 DEF PrefixIsPart, q
      <4>4. x <= e /\ f <= y
        BY <2>1, <4>3
      <4>5. IsFull(f - e) \/ (f = y /\ ~IsFull(y - x))
        BY <2>1, <4>3
      <4> QED BY <4>3, <4>4, <4>5
    <3> QED BY <3>2, <3>3
  <2>5. PrefixIsPart(i, x, y)
    BY <2>4 DEF PrefixIsPart
  <2> QED BY <2>1, <2>5 DEF S
<1>3. <<a, b>> \in S
  <2> HIDE DEF S
  <2> QED BY <1>1, <1>2, WayInduction
<1> QED BY <1>3

\* A path stays inside the subtree that another path with the same hashes is in.
LEMMA PathTellsPart ==
  ASSUME NEW i, NEW a, NEW b, NEW c, NEW d, Around(i, a, b), Around(i, c, d),
         Path(i, a, b) = Path(i, c, d)
  PROVE  c <= a /\ b <= d
<1> DEFINE p == Path(i, a, b)
<1>1. /\ i \in Nat /\ a \in Nat /\ b \in Nat /\ c \in Nat /\ d \in Nat
      /\ a <= i /\ i < b /\ c <= i /\ i < d
  BY DEF Around
<1>2. \A x \in Nat : a <= x /\ x < b /\ x # i =>
        \E j \in 1 .. Len(p) : \E u, v \in 0 .. LogSize :
          u <= x /\ x < v /\ p[j] = IntervalHash(u, v)
  BY PathsFit DEF PathFits
<1>3. \A j \in 1 .. Len(p) : IsBeside(p[j], i, c, d)
  BY PathsFit DEF PathFits
<1> HIDE DEF p
<1>4. ASSUME NEW x \in Nat, a <= x, x < b PROVE c <= x /\ x < d
  <2>1. CASE x = i
    BY <1>1, <2>1
  <2>2. CASE x # i
    <3>1. PICK j \in 1 .. Len(p), u \in 0 .. LogSize, v \in 0 .. LogSize :
            u <= x /\ x < v /\ p[j] = IntervalHash(u, v)
      BY <1>2, <1>4, <2>2
    <3>2. PICK y \in 0 .. LogSize, z \in 0 .. LogSize :
            c <= y /\ y < z /\ z <= d /\ p[j] = IntervalHash(y, z)
      BY <1>3 DEF IsBeside
    <3>3. u < v
      BY <3>1, LogSizeAssumption
    <3>4. u = y /\ v = z
      BY <3>1, <3>2, <3>3, SameInterval
    <3> QED BY <1>1, <3>1, <3>2, <3>4
  <2> QED BY <2>1, <2>2
<1>5. c <= a
  BY <1>1, <1>4
<1>6. b - 1 \in Nat /\ a <= b - 1 /\ b - 1 < b
  BY <1>1
<1>7. b - 1 < d
  BY <1>4, <1>6
<1> QED BY <1>1, <1>5, <1>7

\* A subtree with entries on both sides of the split of another that is around
\* it is all of it, if it is full or ends there.
LEMMA StraddlingIsWhole ==
  ASSUME NEW a, NEW b, NEW c, NEW d, IsValidSubtree(a, b), b - a > 1, IsValidSubtree(c, d),
         a <= c, c < a + Split(b - a), a + Split(b - a) < d, d <= b, IsFull(d - c) \/ d = b
  PROVE  c = a /\ d = b
<1> DEFINE mid == a + Split(b - a)
<1>1. PICK g \in Nat : SpansNode(a, b, b, BitCeil(b - a), g)
  BY SubtreeSpans
<1>2. a \in Nat /\ b \in Nat /\ c \in Nat /\ d \in Nat
  BY DEF IsValidSubtree
<1>3. c = a
  <2>1. mid = a + Split(b - a) /\ c < mid /\ mid < d
    OBVIOUS
  <2> HIDE DEF mid
  <2> QED BY <1>1, <1>2, <2>1, StraddlesFromStart
<1>4. PICK k \in Nat : Split(b - a) = Pow2[k] /\ Pow2[k] < b - a /\ b - a <= 2 * Pow2[k]
  BY <1>2, SplitDef
<1>5. ASSUME d # b PROVE FALSE
  <2>1. PICK m \in Nat : d - c = Pow2[m]
    BY <1>5 DEF IsFull
  <2>2. Pow2[k] \in Nat /\ Pow2[m] \in Nat
    BY Pow2Positive
  <2>3. Pow2[k] < Pow2[m] /\ Pow2[m] < 2 * Pow2[k]
    BY <1>2, <1>3, <1>4, <1>5, <2>1, <2>2
  <2>4. Pow2[k] < 2 * Pow2[m]
    BY <2>2, <2>3
  <2>5. k = m
    BY <2>3, <2>4, Pow2Injective
  <2> QED BY <2>2, <2>3, <2>5
<1> QED BY <1>3, <1>5

\* The path inside a full subtree, or inside one that ends where the larger one
\* ends, begins the path in the larger one.
LEMMA PartIsPrefix ==
  ASSUME NEW i, NEW a, NEW b, NEW c, NEW d, Around(i, a, b), Around(i, c, d),
         a <= c, d <= b, IsFull(d - c) \/ d = b
  PROVE  IsPrefix(Path(i, c, d), Path(i, a, b))
<1> DEFINE Fits(x, y) == x <= c /\ d <= y /\ (IsFull(d - c) \/ d = y)
           S == { w \in Nat \X Nat : Fits(w[1], w[2]) => IsPrefix(Path(i, c, d), Path(i, w[1], w[2])) }
<1>1. /\ i \in Nat /\ c \in Nat /\ d \in Nat /\ c <= i /\ i < d /\ c < d /\ IsValidSubtree(c, d)
      /\ Path(i, c, d) \in Seq(IntervalHashes)
  BY PathsFit DEF Around, PathFits
<1>2. IsPrefix(Path(i, c, d), Path(i, c, d))
  BY <1>1, PrefixReflexive
<1>3. ASSUME NEW x, NEW y, Around(i, x, y), y - x = 1, Path(i, x, y) = << >> PROVE <<x, y>> \in S
  <2>1. x \in Nat /\ y \in Nat
    BY <1>3 DEF Around
  <2>2. Fits(x, y) => x = c /\ y = d
    BY <1>1, <1>3, <2>1
  <2> QED BY <1>2, <2>1, <2>2
<1>4. ASSUME NEW x, NEW y, NEW e, NEW f, NEW u, NEW v, Halved(i, x, y, e, f, u, v), <<e, f>> \in S
      PROVE  <<x, y>> \in S
  <2>1. /\ x \in Nat /\ y \in Nat /\ e \in Nat /\ f \in Nat /\ x <= e /\ f <= y
        /\ Around(i, x, y) /\ Around(i, e, f) /\ y - x > 1 /\ e <= i /\ i < f
        /\ IsValidSubtree(x, y)
        /\ Path(i, x, y) = Append(Path(i, e, f), IntervalHash(u, v))
    BY <1>4 DEF Halved, Around
  <2>2. x + Split(y - x) \in Nat /\ HalvesOf(x, y, e, f, u, v)
    <3>1. Split(y - x) \in 1 .. (y - x) - 1
      BY <2>1, SplitInside
    <3> QED BY <1>4, <2>1, <3>1 DEF Halved
  <2>3. ASSUME Fits(x, y) PROVE IsPrefix(Path(i, c, d), Path(i, x, y))
    <3>1. CASE e <= c /\ d <= f
      <4>1. Fits(e, f)
        BY <1>1, <2>1, <2>3, <3>1
      <4>2. IsPrefix(Path(i, c, d), Path(i, e, f))
        <5> HIDE DEF Fits
        <5> QED BY <1>4, <4>1
      <4>3. Path(i, e, f) \in Seq(IntervalHashes) /\ Path(i, x, y) \in Seq(IntervalHashes)
        BY <2>1, PathsFit DEF PathFits
      <4>4. IsPrefix(Path(i, e, f), Path(i, x, y))
        <5>1. /\ Len(Append(Path(i, e, f), IntervalHash(u, v))) = Len(Path(i, e, f)) + 1
              /\ Len(Path(i, e, f)) \in Nat
              /\ \A j \in 1 .. Len(Path(i, e, f)) :
                   Append(Path(i, e, f), IntervalHash(u, v))[j] = Path(i, e, f)[j]
          BY <4>3
        <5>2. /\ Len(Path(i, e, f)) <= Len(Path(i, x, y))
              /\ \A j \in 1 .. Len(Path(i, e, f)) : Path(i, e, f)[j] = Path(i, x, y)[j]
          BY <2>1, <5>1
        <5> QED BY <4>3, <5>2, PrefixChar
      <4> QED BY <1>1, <4>2, <4>3, <4>4, PrefixTransitive
    <3>2. CASE ~(e <= c /\ d <= f)
      <4>1. x <= c /\ c < x + Split(y - x) /\ x + Split(y - x) < d /\ d <= y
        BY <1>1, <2>1, <2>2, <2>3, <3>2 DEF HalvesOf
      <4>2. IsFull(d - c) \/ d = y
        BY <2>3
      <4>3. c = x /\ d = y
        BY <1>1, <2>1, <4>1, <4>2, StraddlingIsWhole
      <4> QED BY <1>2, <4>3
    <3> QED BY <3>1, <3>2
  <2> HIDE DEF Fits
  <2> QED BY <2>1, <2>3
<1>5. <<a, b>> \in S
  <2> HIDE DEF S
  <2> QED BY <1>3, <1>4, WayInduction
<1>6. Fits(a, b)
  OBVIOUS
<1> QED BY <1>5, <1>6

\* A subtree is full exactly if its size is the power of two of its level.
LEMMA FullIsOfLevel ==
  ASSUME NEW m \in Nat \ {0}
  PROVE  IsFull(m) <=> m = Pow2[BitCeil(m)]
<1>1. ASSUME NEW k \in Nat, m = Pow2[k] PROVE BitCeil(m) = k
  <2>1. k > 0 => Pow2[k - 1] < m
    <3>1. SUFFICES ASSUME k > 0 PROVE Pow2[k - 1] < m
      OBVIOUS
    <3>2. k - 1 \in Nat /\ (k - 1) + 1 = k
      BY <3>1
    <3>3. Pow2[k - 1] \in Nat \ {0} /\ Pow2[k] = 2 * Pow2[k - 1]
      BY <3>2, Pow2Positive
    <3> QED BY <1>1, <3>3
  <2>2. m <= Pow2[k]
    BY <1>1
  <2> QED BY <2>1, <2>2, BitCeilIs
<1>2. BitCeil(m) \in Nat
  BY BitCeilDef
<1> QED BY <1>1, <1>2 DEF IsFull

\* Every path leads from its entry to the subtree's hash.
LEMMA PathEvaluates ==
  ASSUME NEW i, NEW a, NEW b, Around(i, a, b)
  PROVE  Evaluates(Tree, i, a, b, Path(i, a, b))
<1>1. /\ i \in Nat /\ a \in Nat /\ b \in Nat /\ a <= i /\ i < b /\ b <= LogSize /\ LogSize \in Nat
      /\ IsValidSubtree(a, b)
  BY LogSizeAssumption DEF Around
<1>2. /\ Len(Entries) = LogSize /\ Len(Entries) \in Nat /\ b <= Len(Entries)
      /\ IsTreeOf(Tree, Entries)
      /\ \A x \in 1 .. LogSize : Tree.leaves[x] = HashLeaf(Entries[x])
  BY <1>1, TreeOfEntries DEF IsWholeTreeOf
<1>3. \A x \in a + 1 .. b : Tree.leaves[x] # Unavailable
  BY <1>1, LeavesAreThere
<1>4. i \in a .. b - 1
  BY <1>1
<1> DEFINE p == InclusionProof(Tree, i, a, b)
<1>5. VerifyInclusion(i, a, b, HashLeaf(Entries[i + 1]), p, MTHOf(Entries, a, b))
  BY <1>1, <1>2, <1>3, <1>4, IncludedComplete
<1>6. Tree.leaves[i + 1] = HashLeaf(Entries[i + 1])
  BY <1>1, <1>2
<1>7. SubtreeHash(Tree, a, b) = MTHOf(Entries, a, b)
  BY <1>1, SubtreeOfLog DEF IntervalHash
<1> HIDE DEF p
<1> QED BY <1>5, <1>6, <1>7 DEF Evaluates, VerifyInclusion, Path, p

\* A certificate can be converted exactly if its subtree is full or ends where
\* the landmark's subtree ends.
LEMMA ConvertsWhenComplete ==
  ASSUME NEW i, NEW a, NEW b, NEW c, NEW d, Around(i, a, b), Around(i, c, d), a <= c, d <= b
  PROVE  ConvertFullToLandmark(Tree, i, Interval(c, d), Interval(a, b)) # {}
           <=> d = b \/ d - c = Pow2[BitCeil(d - c)]
<1>1. /\ i \in Nat /\ a \in Nat /\ b \in Nat /\ c \in Nat /\ d \in Nat
      /\ c <= i /\ i < d /\ d <= LogSize /\ b <= LogSize
      /\ IsValidSubtree(a, b) /\ IsValidSubtree(c, d)
  BY DEF Around
<1>2. Size(Tree) = LogSize
  <2>1. ListOf(Tree.leaves, LogSize)
    BY TreeOfEntries DEF IsWholeTreeOf, IsTreeOf, HoldsLeaves
  <2> QED BY <2>1, ListIsSeq, LogSizeAssumption DEF Size
<1>3. Evaluates(Tree, i, a, b, Path(i, a, b)) /\ Evaluates(Tree, i, c, d, Path(i, c, d))
  BY PathEvaluates
<1>4. ConvertFullToLandmark(Tree, i, Interval(c, d), Interval(a, b)) # {}
        <=> IsPrefix(Path(i, c, d), Path(i, a, b))
  BY <1>1, <1>2, <1>3 DEF ConvertFullToLandmark, StartsWith, Path, Interval
<1>5. IsFull(d - c) <=> d - c = Pow2[BitCeil(d - c)]
  <2>1. d - c \in Nat \ {0}
    BY <1>1
  <2> QED BY <2>1, FullIsOfLevel
<1>6. ASSUME IsPrefix(Path(i, c, d), Path(i, a, b)) PROVE IsFull(d - c) \/ d = b
  <2>1. Path(i, c, d) \in Seq(IntervalHashes)
    BY PathsFit DEF PathFits
  <2>2. PICK e \in Nat, f \in Nat :
          /\ Around(i, e, f)
          /\ Path(i, c, d) = Path(i, e, f)
          /\ IsFull(f - e) \/ (f = b /\ ~IsFull(b - a))
    BY <1>6, <2>1, PrefixesAreParts DEF PrefixIsPart
  <2>3. c <= e /\ f <= d /\ e <= c /\ d <= f
    BY <2>2, PathTellsPart
  <2>4. c = e /\ d = f
    BY <1>1, <2>2, <2>3
  <2> QED BY <2>2, <2>4
<1>7. ASSUME IsFull(d - c) \/ d = b PROVE IsPrefix(Path(i, c, d), Path(i, a, b))
  BY <1>7, PartIsPrefix
<1> QED BY <1>4, <1>5, <1>6, <1>7

\* The hashes of a prefix are all in the sequence.
LEMMA PrefixHasHashes ==
  ASSUME NEW E, NEW p \in Seq(E), NEW q \in Seq(E), IsPrefix(p, q)
  PROVE  ToSet(p) \subseteq ToSet(q)
<1>1. Len(p) <= Len(q) /\ \A j \in 1 .. Len(p) : p[j] = q[j]
  BY PrefixChar
<1>2. DOMAIN p = 1 .. Len(p) /\ DOMAIN q = 1 .. Len(q) /\ Len(p) \in Nat /\ Len(q) \in Nat
  OBVIOUS
<1>3. ASSUME NEW j \in DOMAIN p PROVE p[j] \in ToSet(q)
  <2>1. j \in DOMAIN q /\ p[j] = q[j]
    BY <1>1, <1>2
  <2> QED BY <2>1 DEF ToSet
<1> QED BY <1>3 DEF ToSet

\* A full node around the entry that both checkpoints have keeps its path.
LEMMA NodeIsReused ==
  ASSUME NEW i, NEW m, NEW n, NEW level \in Nat, Around(i, 0, m), Around(i, 0, n), m <= n,
         (i \div Pow2[level] + 1) * Pow2[level] <= m
  PROVE  \E reuse \in MeasureReuse(Tree, i, m, n) : level <= reuse.reused
<1> DEFINE P == Pow2[level]
           x == i \div P
           a == x * P
           b == (x + 1) * P
           p == Path(i, a, b)
           first == Path(i, 0, m)
           second == Path(i, 0, n)
<1>1. i \in Nat /\ m \in Nat /\ n \in Nat /\ m <= LogSize /\ LogSize \in Nat
  BY LogSizeAssumption DEF Around
<1>2. P \in Nat \ {0}
  BY Pow2Positive
<1>3. x \in Nat /\ a \in Nat /\ a <= i /\ i < b /\ b \in Nat /\ b - a = P /\ a < b /\ b <= m
  <2> HIDE DEF P
  <2>0. x \in Nat /\ P * x <= i /\ i < P * x + P
    BY <1>1, <1>2, DivBounds
  <2>2. (x + 1) * P = x * P + P /\ x * P = P * x
    <3> HIDE DEF x
    <3> QED BY <1>2, <2>0
  <2>1. x \in Nat /\ x * P <= i /\ i < (x + 1) * P
    <3> HIDE DEF x
    <3> QED BY <2>0, <2>2
  <2>3. b <= m
    BY DEF P
  <2>4. x * P \in Nat
    BY <1>2, <2>1
  <2> HIDE DEF x
  <2> QED BY <1>1, <1>2, <2>1, <2>2, <2>3, <2>4
<1>4. Around(i, a, b) /\ IsFull(b - a)
  <2>1. IsFull(P)
    BY DEF IsFull
  <2>2. IsFull(b - a)
    <3> HIDE DEF P
    <3> QED BY <1>3, <2>1
  <2>3. IsValidSubtree(a, b)
    <3>1. P = Pow2[BitCeil(P)]
      BY <1>2, <2>1, FullIsOfLevel
    <3>2. a % P = 0
      <4> HIDE DEF P, x
      <4>1. x \in Nat /\ P \in Nat \ {0}
        BY <1>2, <1>3
      <4>2. a = P * x
        BY <4>1
      <4> HIDE DEF a
      <4> QED BY <4>1, <4>2, NoRest
    <3> HIDE DEF P, x, a, b
    <3> QED BY <1>3, <3>1, <3>2 DEF IsValidSubtree
  <2> HIDE DEF a, b
  <2> QED BY <1>1, <1>3, <2>2, <2>3 DEF Around
<1> HIDE DEF a, b, x
<1>5. IsPrefix(p, first) /\ IsPrefix(p, second)
  <2>1. 0 <= a /\ b <= m /\ b <= n
    BY <1>1, <1>3
  <2> QED BY <1>4, <2>1, PartIsPrefix
<1>6. /\ p \in Seq(IntervalHashes) /\ first \in Seq(IntervalHashes) /\ second \in Seq(IntervalHashes)
      /\ \A j, k \in 1 .. Len(p) : p[j] = p[k] => j = k
      /\ Len(p) = level
  BY <1>3, <1>4, PathsFit DEF PathFits
<1> HIDE DEF p, first, second
<1>7. ToSet(p) \subseteq ToSet(first) /\ ToSet(p) \subseteq ToSet(second)
  BY <1>5, <1>6, PrefixHasHashes
<1>8. level <= ReusedNodes(first, second)
  BY <1>6, <1>7, ReusesAll
<1> DEFINE r == [reused |-> ReusedNodes(first, second),
                 fresh  |-> Len(second) - ReusedNodes(first, second)]
<1>9. r \in MeasureReuse(Tree, i, m, n)
  <2>1. Evaluates(Tree, i, 0, m, first) /\ Evaluates(Tree, i, 0, n, second)
    BY PathEvaluates DEF first, second
  <2> QED BY <2>1 DEF MeasureReuse, Path, first, second
<1>10. r.reused = ReusedNodes(first, second)
  OBVIOUS
<1> HIDE DEF r
<1> QED BY <1>8, <1>9, <1>10

\* Every certificate of a complete subtree, and none of another, is converted
\* to a landmark's, and a later checkpoint's proof keeps what is complete.
THEOREM ProofsReused == WalkSpec => []ProofsAreReused
<1>1. ASSUME WalkInv PROVE ProofsAreReused
  <2> SUFFICES ASSUME IsValidSubtree(low, high), NEW i \in low .. high - 1
               PROVE  /\ \A s \in 0 .. low : \A e \in high .. LogSize :
                           IsValidSubtree(s, e) =>
                             ( ConvertFullToLandmark(Tree, i, Interval(low, high), Interval(s, e)) # {}
                                 <=> high = e \/ high - low = Pow2[BitCeil(high - low)] )
                      /\ \A n \in high .. LogSize : \A level \in 0 .. BitWidth(high) :
                           low = 0 /\ (i \div Pow2[level] + 1) * Pow2[level] <= high =>
                             \E reuse \in MeasureReuse(Tree, i, high, n) : level <= reuse.reused
    BY DEF ProofsAreReused
  <2>1. /\ low \in Nat /\ high \in Nat /\ high <= LogSize /\ LogSize \in Nat /\ 0 < high
        /\ i \in Nat /\ low <= i /\ i < high
    BY <1>1, LogSizeAssumption DEF WalkInv
  <2>2. Around(i, low, high)
    BY <2>1 DEF Around
  <2>3. ASSUME NEW s \in 0 .. low, NEW e \in high .. LogSize, IsValidSubtree(s, e)
        PROVE  ConvertFullToLandmark(Tree, i, Interval(low, high), Interval(s, e)) # {}
                 <=> high = e \/ high - low = Pow2[BitCeil(high - low)]
    <3>1. Around(i, s, e) /\ s <= low /\ high <= e
      BY <2>1, <2>3 DEF Around
    <3> QED BY <2>2, <3>1, ConvertsWhenComplete
  <2>4. ASSUME NEW n \in high .. LogSize, NEW level \in 0 .. BitWidth(high),
               low = 0, (i \div Pow2[level] + 1) * Pow2[level] <= high
        PROVE  \E reuse \in MeasureReuse(Tree, i, high, n) : level <= reuse.reused
    <3>1. Around(i, 0, high) /\ Around(i, 0, n)
      <4>1. IsValidSubtree(0, n)
        BY <2>1, CheckpointIsSubtree
      <4> QED BY <2>1, <2>2, <2>4, <4>1 DEF Around
    <3>2. level \in Nat /\ high <= n
      BY <2>1, BitWidthDef
    <3> QED BY <2>4, <3>1, <3>2, NodeIsReused
  <2> QED BY <2>3, <2>4
<1> QED BY <1>1, WalkStays, PTL DEF WalkInv

-----------------------------------------------------------------------------
(* The covers of intervals *)

\* The nodes of a tree, from those of its two parts.
NodesBody(f, n) ==
  IF n = 1 THEN { <<0, 1>> }
  ELSE { <<0, n>> } \cup f[Split(n)]
         \cup { <<Split(n) + x[1], Split(n) + x[2]>> : x \in f[n - Split(n)] }

\* The recursion has a solution.
LEMMA NodesAre == \A n \in 1 .. LogSize : MTHNodes[n] = NodesBody(MTHNodes, n)
<1> DEFINE I == 1 .. LogSize
           Body(f, n) == NodesBody(f, n)
           Upto(f, m) == \A n \in I : n <= m => f[n] = Body(f, n)
           S == { m \in Nat : \E f : Upto(f, m) }
           nodes == CHOOSE f : f = [n \in I |-> Body(f, n)]
<1>1. ASSUME NEW n \in I, NEW f, NEW g, \A j \in I : j < n => f[j] = g[j]
      PROVE  Body(f, n) = Body(g, n)
  <2>1. CASE n = 1
    BY <2>1 DEF NodesBody
  <2>2. CASE n # 1
    <3> DEFINE s == Split(n)
    <3>1. s \in I /\ s < n /\ n - s \in I /\ n - s < n
      <4>1. n \in Nat /\ n > 1 /\ n <= LogSize
        BY <2>2, LogSizeAssumption
      <4>2. s \in 1 .. n - 1
        BY <4>1, SplitInside
      <4> HIDE DEF s
      <4> QED BY <4>1, <4>2, LogSizeAssumption
    <3> HIDE DEF s
    <3>2. f[s] = g[s] /\ f[n - s] = g[n - s]
      BY <1>1, <3>1
    <3> QED BY <2>2, <3>2 DEF NodesBody, s
  <2> QED BY <2>1, <2>2
<1> HIDE DEF Body
<1>2. 0 \in S
  <2>1. \E f : Upto(f, 0)
    <3>1. \A n \in I : ~(n <= 0)
      OBVIOUS
    <3> QED BY <3>1
  <2> HIDE DEF Upto
  <2> QED BY <2>1
<1>3. ASSUME NEW m \in Nat, m \in S PROVE m + 1 \in S
  <2>1. PICK f : Upto(f, m)
    BY <1>3
  <2> DEFINE g == [n \in I |-> Body(f, n)]
  <2>2. ASSUME NEW n \in I, n <= m PROVE g[n] = f[n]
    BY <2>1, <2>2
  <2>3. ASSUME NEW n \in I, n <= m + 1 PROVE g[n] = Body(g, n)
    <3>1. g[n] = Body(f, n)
      OBVIOUS
    <3>2. ASSUME NEW j \in I, j < n PROVE f[j] = g[j]
      <4>1. j <= m
        BY <2>3, <3>2
      <4> QED BY <2>2, <4>1
    <3> HIDE DEF g
    <3>3. Body(f, n) = Body(g, n)
      BY <1>1, <3>2
    <3> QED BY <3>1, <3>3
  <2>4. Upto(g, m + 1)
    <3> HIDE DEF g
    <3> QED BY <2>3
  <2> HIDE DEF g, Upto
  <2> QED BY <2>4
<1>4. \A m \in Nat : m \in S
  <2> HIDE DEF S
  <2> QED BY <1>2, <1>3, Induction
<1>5. PICK f : Upto(f, LogSize)
  BY <1>4, LogSizeAssumption
<1>6. \A n \in I : f[n] = Body(f, n)
  BY <1>5, LogSizeAssumption
<1> DEFINE g == [n \in I |-> f[n]]
<1>7. g = [n \in I |-> Body(g, n)]
  <2>1. ASSUME NEW n \in I PROVE f[n] = Body(g, n)
    <3>1. \A j \in I : j < n => f[j] = g[j]
      OBVIOUS
    <3> HIDE DEF g
    <3>2. Body(f, n) = Body(g, n)
      BY <1>1, <3>1
    <3> QED BY <1>6, <3>2
  <2> HIDE DEF I
  <2> QED BY <2>1
<1>8. nodes = [n \in I |-> Body(nodes, n)]
  <2> HIDE DEF I, g
  <2> QED BY <1>7
<1>9. MTHNodes = nodes
  BY DEF MTHNodes, Body, NodesBody
<1>10. \A n \in I : nodes[n] = Body(nodes, n)
  <2> HIDE DEF nodes, I
  <2> QED BY <1>8
<1> HIDE DEF nodes
<1> QED BY <1>9, <1>10 DEF Body

\* A tree's nodes lie inside it; those that end where it does are the subtrees.
NodesFit(n) ==
  /\ \A x \in MTHNodes[n] : \E a \in Nat : \E b \in 1 .. n : a < b /\ x = <<a, b>>
  /\ \A a \in 0 .. n - 1 : <<a, n>> \in MTHNodes[n] <=> IsValidSubtree(a, n)

\* The nodes that MTH creates over n entries lie inside it, and those that end
\* at n are the subtrees that is_valid_subtree accepts there.
LEMMA NodesAreSubtrees == \A n \in 1 .. LogSize : NodesFit(n)
<1> DEFINE S == { n \in Nat : n \in 1 .. LogSize => NodesFit(n) }
<1>1. ASSUME NEW n \in Nat, \A m \in 0 .. n - 1 : m \in S PROVE n \in S
  <2> SUFFICES ASSUME n \in 1 .. LogSize PROVE NodesFit(n)
    OBVIOUS
  <2>1. CASE n = 1
    <3>1. MTHNodes[n] = { <<0, 1>> }
      BY <2>1, NodesAre DEF NodesBody
    <3>2. \A x \in MTHNodes[n] : \E a \in Nat : \E b \in 1 .. n : a < b /\ x = <<a, b>>
      BY <2>1, <3>1
    <3>3. \A a \in 0 .. n - 1 : a = 0
      BY <2>1
    <3>4. <<0, n>> \in MTHNodes[n] /\ IsValidSubtree(0, n)
      BY <2>1, <3>1, CheckpointIsSubtree
    <3> QED BY <3>2, <3>3, <3>4 DEF NodesFit
  <2>2. CASE n # 1
    <3> DEFINE P == Split(n)
               r == n - P
    <3>1. /\ n > 1 /\ P \in 1 .. n - 1 /\ r \in 1 .. n - 1 /\ P + r = n
          /\ P \in 1 .. LogSize /\ r \in 1 .. LogSize /\ P \in Nat /\ r \in Nat
      <4>1. n > 1 /\ n <= LogSize
        BY <2>2, LogSizeAssumption
      <4>2. P \in 1 .. n - 1
        BY <4>1, SplitInside
      <4> HIDE DEF P
      <4> QED BY <4>1, <4>2, LogSizeAssumption
    <3>2. MTHNodes[n] = { <<0, n>> } \cup MTHNodes[P] \cup { <<P + x[1], P + x[2]>> : x \in MTHNodes[r] }
      BY <2>2, NodesAre DEF NodesBody
    <3>3. NodesFit(P) /\ NodesFit(r)
      <4>1. P \in 0 .. n - 1 /\ r \in 0 .. n - 1
        BY <3>1
      <4> HIDE DEF P, r
      <4> QED BY <1>1, <3>1, <4>1
    <3>4. P = Split(n) /\ r = n - P
      OBVIOUS
    <3> HIDE DEF P, r
    <3>5. ASSUME NEW x \in MTHNodes[n]
          PROVE  \E a \in Nat : \E b \in 1 .. n : a < b /\ x = <<a, b>>
      <4>1. CASE x = <<0, n>>
        BY <3>1, <4>1
      <4>2. CASE x \in MTHNodes[P]
        <5>1. PICK a \in Nat, b \in 1 .. P : a < b /\ x = <<a, b>>
          BY <3>3, <4>2 DEF NodesFit
        <5>2. b \in 1 .. n
          BY <3>1, <5>1
        <5> QED BY <5>1, <5>2
      <4>3. CASE x \in { <<P + y[1], P + y[2]>> : y \in MTHNodes[r] }
        <5>1. PICK y \in MTHNodes[r] : x = <<P + y[1], P + y[2]>>
          BY <4>3
        <5>2. PICK a \in Nat, b \in 1 .. r : a < b /\ y = <<a, b>>
          BY <3>3, <5>1 DEF NodesFit
        <5>3. x = <<P + a, P + b>> /\ P + a \in Nat /\ P + b \in 1 .. n /\ P + a < P + b
          BY <3>1, <5>1, <5>2
        <5> QED BY <5>3
      <4> QED BY <3>2, <4>1, <4>2, <4>3
    <3>6. ASSUME NEW a \in 0 .. n - 1 PROVE <<a, n>> \in MTHNodes[n] <=> IsValidSubtree(a, n)
      <4>1. CASE a = 0
        BY <3>1, <3>2, <4>1, CheckpointIsSubtree
      <4>2. CASE a # 0
        <5>1. a \in Nat /\ 0 < a /\ a < n
          BY <4>2
        <5>2. IsValidSubtree(a, n) <=> P <= a /\ IsValidSubtree(a - P, n - P)
          BY <3>1, <3>4, <5>1, SubtreesAfterSplit
        <5>3. <<a, n>> \notin MTHNodes[P]
          <6> SUFFICES ASSUME <<a, n>> \in MTHNodes[P] PROVE FALSE
            OBVIOUS
          <6>1. PICK c \in Nat, b \in 1 .. P : c < b /\ <<a, n>> = <<c, b>>
            BY <3>3 DEF NodesFit
          <6>2. b = n
            BY <6>1
          <6> QED BY <3>1, <6>1, <6>2
        <5>4. ASSUME P <= a, IsValidSubtree(a - P, n - P) PROVE <<a, n>> \in MTHNodes[n]
          <6> DEFINE c == a - P
          <6>1. c \in 0 .. r - 1 /\ IsValidSubtree(c, r) /\ P + c = a
            BY <3>1, <3>4, <5>1, <5>4
          <6> HIDE DEF c
          <6>2. <<c, r>> \in MTHNodes[r]
            BY <3>3, <6>1 DEF NodesFit
          <6> DEFINE x == <<c, r>>
          <6>3. x \in MTHNodes[r] /\ <<P + x[1], P + x[2]>> = <<a, n>>
            BY <3>1, <6>1, <6>2
          <6> HIDE DEF x
          <6> QED BY <3>2, <6>3
        <5>5. ASSUME <<a, n>> \in MTHNodes[n] PROVE P <= a /\ IsValidSubtree(a - P, n - P)
          <6>1. <<a, n>> \in { <<P + y[1], P + y[2]>> : y \in MTHNodes[r] }
            <7>1. <<a, n>> # <<0, n>>
              BY <4>2
            <7> QED BY <3>2, <5>3, <5>5, <7>1
          <6>2. PICK y \in MTHNodes[r] : <<a, n>> = <<P + y[1], P + y[2]>>
            BY <6>1
          <6>3. PICK c \in Nat, b \in 1 .. r : c < b /\ y = <<c, b>>
            BY <3>3, <6>2 DEF NodesFit
          <6>4. a = P + c /\ n = P + b
            BY <6>2, <6>3
          <6>5. b = r /\ c = a - P /\ P <= a /\ c \in 0 .. r - 1 /\ b = n - P
            BY <3>1, <5>1, <6>3, <6>4
          <6>6. IsValidSubtree(c, r)
            BY <3>3, <6>2, <6>3, <6>5 DEF NodesFit
          <6> QED BY <6>5, <6>6
        <5> QED BY <5>2, <5>4, <5>5
      <4> QED BY <4>1, <4>2
    <3> QED BY <3>5, <3>6 DEF NodesFit
  <2> QED BY <2>1, <2>2
<1>2. \A n \in Nat : n \in S
  <2> HIDE DEF S
  <2> QED BY <1>1, StrongInduction
<1> QED BY <1>2, LogSizeAssumption

\* The cover of every interval consists of nodes of the tree, and the CA's
\* checks accept it.
THEOREM CoversAreSound == WalkSpec => []CoverIsSound
<1>1. ASSUME WalkInv PROVE CoverIsSound
  <2> DEFINE cover == Cover(low, high)
             Genuine(i) == <<cover[i].start, cover[i].end>> \in MTHNodes[cover[i].end]
  <2>1. low \in Nat /\ high \in Nat /\ low < high /\ high \in 1 .. LogSize /\ high <= LogSize
    BY <1>1, LogSizeAssumption DEF WalkInv
  <2>2. ASSUME NEW a \in Nat, NEW b \in Nat, a < b, b <= high
        PROVE  <<a, b>> \in MTHNodes[b] <=> IsValidSubtree(a, b)
    <3>1. b \in 1 .. LogSize /\ a \in 0 .. b - 1
      BY <2>1, <2>2, LogSizeAssumption
    <3> QED BY <3>1, NodesAreSubtrees DEF NodesFit
  <2> SUFFICES CoverAccepted(cover, low, high) /\ \A i \in DOMAIN cover : Genuine(i)
    BY <2>1, <2>2 DEF CoverIsSound
  <2> HIDE DEF cover
  <2>3. CASE high = low + 1 /\ cover = << Interval(low, high) >> /\ IsValidSubtree(low, high)
    <3>1. cover[1].start = low /\ cover[1].end = high /\ Len(cover) = 1 /\ DOMAIN cover = {1}
      BY <2>3 DEF Interval
    <3>2. \A i \in DOMAIN cover : Genuine(i)
      BY <2>1, <2>2, <2>3, <3>1
    <3>3. CoverAccepted(cover, low, high)
      BY <2>1, <3>1 DEF CoverAccepted
    <3> QED BY <3>2, <3>3
  <2>4. ASSUME NEW left \in Nat, NEW mid \in Nat,
               cover = << Interval(left, mid), Interval(mid, high) >>,
               left <= low, low < mid, mid < high, IsValidSubtree(left, mid), IsValidSubtree(mid, high)
        PROVE  CoverAccepted(cover, low, high) /\ \A i \in DOMAIN cover : Genuine(i)
    <3>1. /\ cover[1].start = left /\ cover[1].end = mid
          /\ cover[2].start = mid /\ cover[2].end = high
          /\ Len(cover) = 2 /\ DOMAIN cover = {1, 2}
      BY <2>4 DEF Interval
    <3>2. \A i \in DOMAIN cover : Genuine(i)
      BY <2>1, <2>2, <2>4, <3>1
    <3>3. CoverAccepted(cover, low, high)
      BY <2>1, <2>4, <3>1 DEF CoverAccepted
    <3> QED BY <3>2, <3>3
  <2>5. \/ high = low + 1 /\ cover = << Interval(low, high) >> /\ IsValidSubtree(low, high)
        \/ \E left, mid \in Nat, h \in Nat :
             /\ cover = << Interval(left, mid), Interval(mid, high) >>
             /\ left <= low /\ low < mid /\ mid < high
             /\ IsValidSubtree(left, mid) /\ IsValidSubtree(mid, high)
             /\ mid - left = Pow2[h] /\ mid - left < 2 * (high - low)
    <3>1. cover = Cover(low, high)
      BY DEF cover
    <3> QED BY <2>1, <3>1, CoverIs
  <2> HIDE DEF Genuine
  <2> QED BY <2>3, <2>4, <2>5
<1> QED BY <1>1, WalkStays, PTL

\* The left subtree of a cover is complete and less than twice as long.
THEOREM CoversAreTight == WalkSpec => []CoverIsTight
<1>1. ASSUME WalkInv PROVE CoverIsTight
  <2> DEFINE cover == Cover(low, high)
             left == cover[1]
             size == left.end - left.start
  <2>1. low \in Nat /\ high \in Nat /\ low < high
    BY <1>1, LogSizeAssumption DEF WalkInv
  <2> SUFFICES ASSUME Len(cover) = 2
               PROVE  size < 2 * (high - low) /\ size = Pow2[BitCeil(size)]
    BY DEF CoverIsTight
  <2> HIDE DEF cover
  <2>2. cover # << Interval(low, high) >>
    OBVIOUS
  <2>3. PICK a \in Nat, mid \in Nat, h \in Nat :
          /\ cover = << Interval(a, mid), Interval(mid, high) >>
          /\ a <= low /\ low < mid
          /\ mid - a = Pow2[h] /\ mid - a < 2 * (high - low)
    <3>1. cover = Cover(low, high)
      BY DEF cover
    <3>2. \/ high = low + 1 /\ cover = << Interval(low, high) >> /\ IsValidSubtree(low, high)
          \/ \E at, mid, h \in Nat :
               /\ cover = << Interval(at, mid), Interval(mid, high) >>
               /\ at <= low /\ low < mid /\ mid < high
               /\ IsValidSubtree(at, mid) /\ IsValidSubtree(mid, high)
               /\ mid - at = Pow2[h] /\ mid - at < 2 * (high - low)
      BY <2>1, <3>1, CoverIs
    <3> QED BY <2>2, <3>2, Zenon
  <2>4. size = mid - a
    BY <2>3 DEF Interval
  <2> HIDE DEF size
  <2>5. BitCeil(size) = h
    <3>1. size \in Nat \ {0} /\ size = Pow2[h]
      BY <2>1, <2>3, <2>4
    <3>2. h > 0 => Pow2[h - 1] < size
      <4> SUFFICES ASSUME h > 0 PROVE Pow2[h - 1] < size
        OBVIOUS
      <4>1. h - 1 \in Nat /\ (h - 1) + 1 = h
        OBVIOUS
      <4>2. Pow2[h - 1] \in Nat \ {0} /\ Pow2[h] = 2 * Pow2[h - 1]
        BY <4>1, Pow2Positive
      <4> QED BY <3>1, <4>2
    <3> QED BY <3>1, <3>2, BitCeilIs
  <2> QED BY <2>3, <2>4, <2>5
<1> QED BY <1>1, WalkStays, PTL

-----------------------------------------------------------------------------
(* The log *)

AnyEntry == Entry \cup {Null}
LeafHashes == { HashLeaf(e) : e \in AnyEntry } \cup {Unavailable}

\* A log: as many bodies and leaf hashes as entries.
LogShape(l) ==
  /\ DOMAIN l = {"bodies", "tree", "minimum", "history"}
  /\ DOMAIN l.tree = {"leaves", "levels", "pending"}
  /\ l.history \in Seq(AnyEntry)
  /\ l.bodies \in Seq(AnyEntry \cup {NoBody})
  /\ l.tree.leaves \in Seq(LeafHashes)
  /\ Len(l.bodies) = Len(l.history)
  /\ Len(l.tree.leaves) = Len(l.history)
  /\ l.minimum \in 0 .. Len(l.history)

\* m continues l.
Continues(l, m) == IsPrefix(l.history, m.history) /\ l.minimum <= m.minimum

LogsAreLogs ==
  /\ step \in {"idle", "saving", "down"}
  /\ LogShape(log) /\ LogShape(view)
  /\ file # Torn => LogShape(file)
  /\ IF step = "down" THEN log = Nothing ELSE log.history # << >>
  /\ Readable(file) => file.history # << >>
  /\ Readable(view) => view.history # << >>

\* The publisher is never ahead of the file or the log, and the file never of
\* the log; a publisher has loaded nothing if there never was a file.
NobodyAhead ==
  /\ step # "down" => Continues(view, log)
  /\ Readable(file) => Continues(view, file)
  /\ Readable(file) /\ step # "down" => Continues(file, log)
  /\ file = Nothing => view = Nothing

LogInv == LogsAreLogs /\ NobodyAhead

-----------------------------------------------------------------------------
(* What the operations on a log do to its history and minimum index *)

\* A log continues itself.
LEMMA ContinuesItself ==
  ASSUME NEW l, LogShape(l)
  PROVE  Continues(l, l)
BY PrefixReflexive DEF Continues, LogShape

\* Continuing is transitive.
LEMMA ContinuesTransitive ==
  ASSUME NEW l, NEW m, NEW n, LogShape(l), LogShape(m), LogShape(n),
         Continues(l, m), Continues(m, n)
  PROVE  Continues(l, n)
<1>1. IsPrefix(l.history, n.history)
  BY PrefixTransitive DEF Continues, LogShape
<1>2. l.minimum <= n.minimum
  BY DEF Continues, LogShape
<1> QED BY <1>1, <1>2 DEF Continues

\* No log is an empty one, which every log continues.
LEMMA NothingIsEmpty ==
  /\ LogShape(Nothing) /\ Nothing.history = << >> /\ Nothing.minimum = 0
  /\ \A l : LogShape(l) => Continues(Nothing, l)
  /\ Torn.history = << >>
<1>1. LogShape(Nothing) /\ Nothing.history = << >> /\ Nothing.minimum = 0 /\ Torn.history = << >>
  <2>1. /\ << >> \in Seq(AnyEntry) /\ << >> \in Seq(AnyEntry \cup {NoBody}) /\ << >> \in Seq(LeafHashes)
        /\ Len(<< >>) = 0
    BY EmptySeq
  <2>2. /\ DOMAIN Nothing = {"bodies", "tree", "minimum", "history"}
        /\ Nothing.bodies = << >> /\ Nothing.history = << >> /\ Nothing.minimum = 0
        /\ Nothing.tree = EmptyTree /\ Torn.history = << >>
    BY DEF Nothing, Torn
  <2>3. DOMAIN EmptyTree = {"leaves", "levels", "pending"} /\ EmptyTree.leaves = << >>
    BY DEF EmptyTree
  <2>4. 0 \in 0 .. 0
    OBVIOUS
  <2> QED BY <2>1, <2>2, <2>3, <2>4 DEF LogShape
<1>2. ASSUME NEW l, LogShape(l) PROVE Continues(Nothing, l)
  <2>1. IsPrefix(<< >>, l.history)
    BY <1>2, EmptyIsPrefix DEF LogShape
  <2> QED BY <1>1, <1>2, <2>1 DEF Continues, LogShape
<1> QED BY <1>1, <1>2

\* append continues the log.
LEMMA AppendedContinues ==
  ASSUME NEW l, LogShape(l), NEW e \in AnyEntry
  PROVE  /\ LogShape(Appended(l, e)) /\ Continues(l, Appended(l, e))
         /\ Appended(l, e).history # << >>
<1> DEFINE m == Appended(l, e)
<1>1. /\ DOMAIN m = {"bodies", "tree", "minimum", "history"}
      /\ m.bodies = Append(l.bodies, e) /\ m.history = Append(l.history, e)
      /\ m.minimum = l.minimum /\ m.tree = AppendLeaf(l.tree, HashLeaf(e))
  BY DEF Appended, LogShape
<1>2. DOMAIN m.tree = {"leaves", "levels", "pending"} /\ m.tree.leaves = Append(l.tree.leaves, HashLeaf(e))
  BY <1>1 DEF AppendLeaf
<1> HIDE DEF m
<1>3. m.bodies \in Seq(AnyEntry \cup {NoBody}) /\ Len(m.bodies) = Len(l.bodies) + 1
  BY <1>1, AppendProperties DEF LogShape
<1>4. m.history \in Seq(AnyEntry) /\ Len(m.history) = Len(l.history) + 1 /\ IsPrefix(l.history, m.history)
  BY <1>1, PrefixOfAppend DEF LogShape
<1>5. m.tree.leaves \in Seq(LeafHashes) /\ Len(m.tree.leaves) = Len(l.tree.leaves) + 1
  <2>1. HashLeaf(e) \in LeafHashes
    BY DEF LeafHashes
  <2> QED BY <1>2, <2>1, AppendProperties DEF LogShape
<1>6. LogShape(m)
  BY <1>1, <1>2, <1>3, <1>4, <1>5 DEF LogShape
<1>7. Continues(l, m)
  BY <1>1, <1>4 DEF Continues, LogShape
<1>8. m.history # << >>
  BY <1>1 DEF LogShape
<1> QED BY <1>6, <1>7, <1>8 DEF m

\* IssuanceLog.new holds the null entry.
LEMMA NewLogShape == LogShape(NewLog) /\ NewLog.history # << >> /\ NewLog.minimum = 0
<1>1. LogShape(Nothing) /\ Null \in AnyEntry
  BY NothingIsEmpty DEF AnyEntry
<1>2. NewLog.minimum = 0
  BY DEF NewLog, Appended, Nothing
<1> QED BY <1>1, <1>2, AppendedContinues DEF NewLog

\* What Prune leaves.
PrunedLog(l, k, physical) == [Pruned(l, k, physical) EXCEPT !.minimum = k]

\* prune keeps the entries and moves the minimum forward.
LEMMA PrunedContinues ==
  ASSUME NEW l, LogShape(l), NEW k \in Nat, l.minimum <= k, k <= Size(l.tree),
         NEW physical \in BOOLEAN
  PROVE  /\ LogShape(PrunedLog(l, k, physical))
         /\ Continues(l, PrunedLog(l, k, physical))
         /\ PrunedLog(l, k, physical).history = l.history
<1> DEFINE p == Pruned(l, k, physical)
           m == PrunedLog(l, k, physical)
<1>1. ASSUME NEW bodies, bodies \in Seq(AnyEntry \cup {NoBody}), Len(bodies) = Len(l.history)
      PROVE  /\ PruneBelow(bodies, k) \in Seq(AnyEntry \cup {NoBody})
             /\ Len(PruneBelow(bodies, k)) = Len(l.history)
  <2>1. Len(l.history) \in Nat /\ DOMAIN bodies = 1 .. Len(l.history)
    BY <1>1 DEF LogShape
  <2>2. \A i \in DOMAIN bodies : bodies[i] \in AnyEntry \cup {NoBody}
    BY <1>1
  <2>3. PruneBelow(bodies, k) \in [1 .. Len(l.history) -> AnyEntry \cup {NoBody}]
    BY <2>1, <2>2 DEF PruneBelow
  <2> QED BY <2>1, <2>3
<1>2. ASSUME NEW f, DOMAIN f = DOMAIN l.tree.leaves, f = [i \in DOMAIN l.tree.leaves |-> f[i]],
             \A i \in DOMAIN f : f[i] \in {l.tree.leaves[i], Unavailable}
      PROVE  f \in Seq(LeafHashes) /\ Len(f) = Len(l.history)
  <2>1. DOMAIN f = 1 .. Len(l.history) /\ Len(l.history) \in Nat
    BY <1>2 DEF LogShape
  <2>2. \A i \in DOMAIN f : f[i] \in LeafHashes
    <3>1. Unavailable \in LeafHashes
      BY DEF LeafHashes
    <3>2. \A i \in DOMAIN l.tree.leaves : l.tree.leaves[i] \in LeafHashes
      <4>1. l.tree.leaves \in Seq(LeafHashes)
        BY DEF LogShape
      <4> QED BY <4>1
    <3> QED BY <1>2, <3>1, <3>2
  <2> HIDE DEF LeafHashes
  <2>3. f \in [1 .. Len(l.history) -> LeafHashes]
    BY <1>2, <2>1, <2>2
  <2> QED BY <2>1, <2>3
<1> DEFINE pruned == PruneLeavesBelow(l.tree, k)
<1>3. /\ DOMAIN pruned = {"leaves", "levels", "pending"}
      /\ pruned.leaves \in Seq(LeafHashes) /\ Len(pruned.leaves) = Len(l.history)
  <2>1. /\ DOMAIN pruned = DOMAIN l.tree
        /\ pruned.leaves = [i \in DOMAIN l.tree.leaves |-> pruned.leaves[i]]
        /\ DOMAIN pruned.leaves = DOMAIN l.tree.leaves
        /\ \A i \in DOMAIN pruned.leaves : pruned.leaves[i] \in {l.tree.leaves[i], Unavailable}
    BY DEF PruneLeavesBelow, LogShape
  <2> HIDE DEF pruned
  <2> QED BY <1>2, <2>1 DEF LogShape
<1>4. /\ DOMAIN p = {"bodies", "tree", "minimum", "history"} /\ p.history = l.history
      /\ p.tree = IF physical THEN pruned ELSE l.tree
      /\ p.bodies = IF physical THEN PruneBelow(l.bodies, k) ELSE l.bodies
  <2> HIDE DEF pruned
  <2> QED BY DEF Pruned, LogShape, pruned
<1> HIDE DEF p, pruned
<1>5. /\ DOMAIN m = {"bodies", "tree", "minimum", "history"} /\ m.history = p.history
      /\ m.tree = p.tree /\ m.bodies = p.bodies /\ m.minimum = k
  BY <1>4 DEF p, PrunedLog
<1> HIDE DEF m
<1>6. LogShape(m)
  <2>1. k \in 0 .. Len(l.history)
    BY DEF LogShape, Size
  <2> QED BY <1>1, <1>3, <1>4, <1>5, <2>1 DEF LogShape
<1>7. Continues(l, m)
  BY <1>4, <1>5, PrefixReflexive DEF Continues, LogShape
<1> QED BY <1>4, <1>5, <1>6, <1>7 DEF m

\* Saving and loading touch the right edge of the tree only.
LEMMA EdgeOnly ==
  ASSUME NEW l, LogShape(l), NEW m, m \in {Stored(l), Loaded(l)}
  PROVE  /\ LogShape(m) /\ m.history = l.history /\ m.minimum = l.minimum
         /\ \A n : Continues(n, l) => Continues(n, m)
         /\ \A n : Continues(l, n) => Continues(m, n)
<1>1. /\ DOMAIN m = {"bodies", "tree", "minimum", "history"} /\ m.history = l.history
      /\ m.minimum = l.minimum /\ m.bodies = l.bodies
      /\ DOMAIN m.tree = DOMAIN l.tree /\ m.tree.leaves = l.tree.leaves
  <2>1. CASE m = Stored(l)
    BY <2>1 DEF Stored, LogShape
  <2>2. CASE m = Loaded(l)
    <3>1. DOMAIN RebuildPending(l.tree) = DOMAIN l.tree /\ RebuildPending(l.tree).leaves = l.tree.leaves
      BY DEF RebuildPending, LogShape
    <3> QED BY <2>2, <3>1 DEF Loaded, LogShape
  <2> QED BY <2>1, <2>2
<1> QED BY <1>1 DEF LogShape, Continues

-----------------------------------------------------------------------------
(* The invariant is inductive *)

\* The invariant holds in the first state.
LEMMA LogInitInv == Init => LogInv
<1> SUFFICES ASSUME Init PROVE LogInv
  OBVIOUS
<1>1. log = NewLog /\ file = Nothing /\ step = "idle" /\ view = Nothing /\ ~Readable(file) /\ ~Readable(view)
  BY DEF Init, Readable
<1>2. LogsAreLogs
  BY <1>1, NewLogShape, NothingIsEmpty DEF LogsAreLogs
<1>3. NobodyAhead
  BY <1>1, NewLogShape, NothingIsEmpty DEF NobodyAhead
<1> QED BY <1>2, <1>3 DEF LogInv

\* An operation of a running writer that continues its log.
LEMMA WriterContinues ==
  ASSUME LogInv, step # "down", LogShape(log'), log'.history # << >>, Continues(log, log'),
         UNCHANGED <<file, step, view>>
  PROVE  LogInv'
<1>1. LogShape(log) /\ LogShape(view) /\ Continues(view, log)
  BY DEF LogInv, LogsAreLogs, NobodyAhead
<1>2. Continues(view, log')
  BY <1>1, ContinuesTransitive
<1>3. Readable(file) => Continues(file, log')
  <2> SUFFICES ASSUME Readable(file) PROVE Continues(file, log')
    OBVIOUS
  <2>1. LogShape(file) /\ Continues(file, log)
    BY DEF LogInv, LogsAreLogs, NobodyAhead, Readable
  <2> QED BY <1>1, <2>1, ContinuesTransitive
<1>4. LogsAreLogs'
  BY DEF LogInv, LogsAreLogs, Readable
<1>5. NobodyAhead'
  BY <1>2, <1>3 DEF LogInv, NobodyAhead, Readable, Continues
<1> QED BY <1>4, <1>5 DEF LogInv

\* append keeps the invariant.
LEMMA AppendInv ==
  ASSUME LogInv, NEW e \in Entry, AppendEntry(e)
  PROVE  LogInv'
<1>1. step # "down" /\ log' = Appended(log, e) /\ UNCHANGED <<file, step, view>> /\ e \in AnyEntry
  BY DEF AppendEntry, AnyEntry
<1>2. LogShape(log)
  BY DEF LogInv, LogsAreLogs
<1> QED BY <1>1, <1>2, AppendedContinues, WriterContinues

\* prune keeps the invariant.
LEMMA PruneInv ==
  ASSUME LogInv, NEW k \in 0 .. MaxSize, NEW physical \in BOOLEAN, Prune(k, physical)
  PROVE  LogInv'
<1>1. /\ step # "down" /\ UNCHANGED <<file, step, view>> /\ k \in Nat
      /\ log.minimum <= k /\ k <= Size(log.tree)
      /\ log' = PrunedLog(log, k, physical)
  BY DEF Prune, PrunedLog
<1>2. LogShape(log) /\ log.history # << >>
  BY <1>1 DEF LogInv, LogsAreLogs
<1>3. LogShape(log') /\ Continues(log, log') /\ log'.history = log.history
  BY <1>1, <1>2, PrunedContinues
<1> QED BY <1>1, <1>2, <1>3, WriterContinues

\* Truncating the file keeps the invariant.
LEMMA BeginSaveInv == LogInv /\ BeginSave => LogInv'
<1> SUFFICES ASSUME LogInv, BeginSave PROVE LogInv'
  OBVIOUS
<1>1. step = "idle" /\ step' = "saving" /\ file' = Torn /\ UNCHANGED <<log, view>> /\ ~Readable(file')
  BY DEF BeginSave, Readable
<1>2. Torn # Nothing
  BY DEF Torn, Nothing
<1>3. Readable(file)' = Readable(file')
  BY DEF Readable
<1>4. LogsAreLogs'
  BY <1>1, <1>3 DEF LogInv, LogsAreLogs
<1>5. NobodyAhead'
  BY <1>1, <1>2, <1>3 DEF LogInv, NobodyAhead
<1> QED BY <1>4, <1>5 DEF LogInv

\* Writing the file keeps the invariant.
LEMMA EndSaveInv == LogInv /\ EndSave => LogInv'
<1> SUFFICES ASSUME LogInv, EndSave PROVE LogInv'
  OBVIOUS
<1>1. step = "saving" /\ step' = "idle" /\ file' = Stored(log) /\ UNCHANGED <<log, view>>
  BY DEF EndSave
<1>2. LogShape(log) /\ LogShape(view) /\ log.history # << >> /\ Continues(view, log)
  BY <1>1 DEF LogInv, LogsAreLogs, NobodyAhead
<1>3. LogShape(file') /\ file'.history # << >> /\ Continues(view, file') /\ Continues(file', log)
  <2>1. Continues(log, log)
    BY <1>2, ContinuesItself
  <2> QED BY <1>1, <1>2, <2>1, EdgeOnly
<1>4. file' # Nothing
  BY <1>3, NothingIsEmpty
<1>5. LogsAreLogs'
  BY <1>1, <1>2, <1>3 DEF LogInv, LogsAreLogs
<1>6. NobodyAhead'
  BY <1>1, <1>2, <1>3, <1>4 DEF NobodyAhead
<1> QED BY <1>5, <1>6 DEF LogInv

\* A crash keeps the invariant.
LEMMA CrashInv == LogInv /\ Crash => LogInv'
<1> SUFFICES ASSUME LogInv, Crash PROVE LogInv'
  OBVIOUS
<1>1. step' = "down" /\ log' = Nothing /\ UNCHANGED <<file, view>>
  BY DEF Crash
<1>2. LogsAreLogs'
  BY <1>1, NothingIsEmpty DEF LogInv, LogsAreLogs, Readable
<1>3. NobodyAhead'
  BY <1>1 DEF LogInv, NobodyAhead, Readable
<1> QED BY <1>2, <1>3 DEF LogInv

\* A restart keeps the invariant: the publisher was never ahead of the file.
LEMMA RestartInv == LogInv /\ Restart => LogInv'
<1> SUFFICES ASSUME LogInv, Restart PROVE LogInv'
  OBVIOUS
<1>1. step' = "idle" /\ UNCHANGED <<file, view>> /\ LogShape(view)
  BY DEF Restart, LogInv, LogsAreLogs
<1>2. CASE file = Nothing /\ log' = NewLog
  <2>1. view = Nothing /\ ~Readable(file)
    BY <1>2 DEF LogInv, NobodyAhead, Readable
  <2>2. LogShape(log') /\ log'.history # << >> /\ Continues(view, log')
    BY <1>2, <2>1, NewLogShape, NothingIsEmpty
  <2>3. LogsAreLogs'
    BY <1>1, <2>1, <2>2 DEF LogInv, LogsAreLogs, Readable
  <2>4. NobodyAhead'
    BY <1>1, <2>1, <2>2 DEF NobodyAhead, Readable
  <2> QED BY <2>3, <2>4 DEF LogInv
<1>3. CASE CanLoad(file) /\ log' = Loaded(file)
  <2>1. /\ Readable(file) /\ file # Torn /\ file # Nothing
        /\ LogShape(file) /\ file.history # << >> /\ Continues(view, file)
    BY <1>3 DEF CanLoad, LogInv, LogsAreLogs, NobodyAhead, Readable
  <2>2. /\ LogShape(log') /\ log'.history # << >>
        /\ Continues(view, log') /\ Continues(file, log')
    <3>1. Continues(file, file)
      BY <2>1, ContinuesItself
    <3> QED BY <1>3, <2>1, <3>1, EdgeOnly
  <2>3. LogsAreLogs'
    BY <1>1, <2>1, <2>2 DEF LogInv, LogsAreLogs, Readable
  <2>4. NobodyAhead'
    BY <1>1, <2>1, <2>2 DEF NobodyAhead, Readable
  <2> QED BY <2>3, <2>4 DEF LogInv
<1> QED BY <1>2, <1>3 DEF Restart

\* A refresh keeps the invariant and continues what the publisher had.
LEMMA RefreshContinues ==
  ASSUME LogInv, Refresh
  PROVE  LogInv' /\ Continues(view, view')
<1>1. CanLoad(file) /\ view' = Loaded(file) /\ UNCHANGED <<log, file, step>>
  BY DEF Refresh
<1>2. /\ Readable(file) /\ file # Torn /\ file # Nothing
      /\ LogShape(file) /\ Continues(view, file)
      /\ step # "down" => Continues(file, log)
  BY <1>1 DEF CanLoad, LogInv, LogsAreLogs, NobodyAhead, Readable
<1>3. /\ LogShape(view') /\ Continues(view, view') /\ Continues(view', file)
      /\ step # "down" => Continues(view', log)
      /\ view'.history # << >>
  <2>1. Continues(file, file) /\ file.history # << >>
    BY <1>2, ContinuesItself DEF LogInv, LogsAreLogs
  <2> QED BY <1>1, <1>2, <2>1, EdgeOnly
<1>4. LogsAreLogs'
  BY <1>1, <1>3 DEF LogInv, LogsAreLogs, Readable
<1>5. NobodyAhead'
  BY <1>1, <1>2, <1>3 DEF NobodyAhead, Readable
<1> QED BY <1>3, <1>4, <1>5 DEF LogInv

\* Every step keeps the invariant.
LEMMA LogNextInv == LogInv /\ [Next]_vars => LogInv'
<1> SUFFICES ASSUME LogInv, [Next]_vars PROVE LogInv'
  OBVIOUS
<1>1. CASE \E e \in Entry : AppendEntry(e)
  BY <1>1, AppendInv
<1>2. CASE \E k \in 0 .. MaxSize, physical \in BOOLEAN : Prune(k, physical)
  BY <1>2, PruneInv
<1>3. CASE BeginSave
  BY <1>3, BeginSaveInv
<1>4. CASE EndSave
  BY <1>4, EndSaveInv
<1>5. CASE Crash
  BY <1>5, CrashInv
<1>6. CASE Restart
  BY <1>6, RestartInv
<1>7. CASE Refresh
  BY <1>7, RefreshContinues
<1>8. CASE UNCHANGED vars
  BY <1>8 DEF vars, LogInv, LogsAreLogs, NobodyAhead, Readable, Continues
<1> QED BY <1>1, <1>2, <1>3, <1>4, <1>5, <1>6, <1>7, <1>8 DEF Next

\* Only a refresh changes what the publisher serves.
LEMMA ViewContinues ==
  ASSUME LogInv, [Next]_vars
  PROVE  [IsPrefix(view.history, view'.history) /\ view.minimum <= view'.minimum]_view
<1>1. CASE Refresh
  BY <1>1, RefreshContinues DEF Continues
<1>2. CASE UNCHANGED view
  BY <1>2
<1>3. Refresh \/ UNCHANGED view
  BY DEF Next, vars, AppendEntry, Prune, BeginSave, EndSave, Crash, Restart
<1> QED BY <1>1, <1>2, <1>3

-----------------------------------------------------------------------------
(* The theorems *)

\* The publisher is never ahead of a readable file, nor the file of the log.
THEOREM LogCorrect == Spec => []LogInv
<1>1. Init => LogInv
  BY LogInitInv
<1>2. LogInv /\ [Next]_vars => LogInv'
  BY LogNextInv
<1> QED BY <1>1, <1>2, PTL DEF Spec

\* Bodies, leaf hashes and entries of a log keep in step in memory, in the
\* file and in the publisher.
THEOREM LogTypes == Spec => []TypeOK
<1>1. ASSUME NEW l, LogShape(l)
      PROVE  /\ l.history \in Seq(Entry \cup {Null}) /\ l.bodies \in Seq(Entry \cup {Null, NoBody})
             /\ Len(l.bodies) = Len(l.history) /\ Size(l.tree) = Len(l.history)
             /\ l.minimum \in 0 .. Len(l.history)
  <2>1. (Entry \cup {Null}) \cup {NoBody} = Entry \cup {Null, NoBody}
    OBVIOUS
  <2> QED BY <1>1, <2>1 DEF LogShape, AnyEntry, Size
<1>2. LogInv => TypeOK
  <2> SUFFICES ASSUME LogInv PROVE TypeOK
    OBVIOUS
  <2>1. (step = "down") = (log = Nothing)
    BY NothingIsEmpty DEF LogInv, LogsAreLogs
  <2>2. \A l \in {log, view} \cup { f \in {file} : f # Torn } : LogShape(l)
    BY DEF LogInv, LogsAreLogs
  <2>3. step \in {"idle", "saving", "down"}
    BY DEF LogInv, LogsAreLogs
  <2> QED BY <1>1, <2>1, <2>2, <2>3 DEF TypeOK
<1> QED BY <1>2, LogCorrect, PTL

\* What a publisher serves never shrinks or changes: crashes and restarts of
\* the writer lose only entries that nobody could have seen.
THEOREM ViewsContinue == Spec => PublisherNeverRollsBack
<1>1. LogInv /\ [Next]_vars => [IsPrefix(view.history, view'.history) /\ view.minimum <= view'.minimum]_view
  BY ViewContinues
<1> QED BY <1>1, LogCorrect, PTL DEF Spec, PublisherNeverRollsBack

-----------------------------------------------------------------------------
(* What the operations on a log do to its tree *)

\* A body is that of its entry unless it was pruned, and a leaf hash goes only
\* together with the body.
BodiesFit(l) ==
  /\ l.history # <<>> => l.history[1] = Null
  /\ \A i \in 1 .. Len(l.history) :
       /\ \/ l.bodies[i] = l.history[i]
          \/ l.bodies[i] = NoBody /\ i <= l.minimum
       /\ l.tree.leaves[i] = Unavailable => l.bodies[i] = NoBody

\* The nodes of a log are those of its entries, without and with the right edge.
TreeFits(l) == IsTreeOf(l.tree, l.history) /\ BodiesFit(l)
EdgeFits(l) == TreeFits(l) /\ HoldsEdge(l.tree, l.history)

\* A new log, and a torn file, have the tree without entries.
LEMMA NothingFits == EdgeFits(Nothing) /\ TreeFits(Torn)
<1> DEFINE none == EmptyTree
<1>1. /\ none.leaves = <<>> /\ none.levels = <<>> /\ none.pending = <<>>
      /\ DOMAIN none = {"leaves", "levels", "pending"}
  BY DEF EmptyTree
<1>2. Nothing.tree = none /\ Torn.tree = none /\ Nothing.history = <<>> /\ Torn.history = <<>>
  BY DEF Nothing, Torn
<1> HIDE DEF none
<1>3. Len(<<>>) = 0 /\ ListOf(<<>>, 0)
  BY DEF ListOf
<1> DEFINE one == 1
           zero == 0
<1>4. Pow2[0 + 1] \in Nat \ {0}
  <2>1. 0 + 1 \in Nat
    OBVIOUS
  <2> QED BY <2>1, Pow2Positive
<1>5. HoldsLeaves(<<>>, <<>>)
  BY <1>3 DEF HoldsLeaves
<1>6. HoldsLevels(<<>>, <<>>)
  BY <1>3, <1>4 DEF HoldsLevels
<1>7. IsTreeOf(none, <<>>)
  BY <1>1, <1>5, <1>6 DEF IsTreeOf
<1>8. ASSUME NEW l \in Nat PROVE (zero \div Pow2[l]) % 2 # 1
  <2>1. Pow2[l] \in Nat \ {0}
    BY Pow2Positive
  <2>2. zero \div Pow2[l] = 0
    BY <2>1
  <2> QED BY <2>2
<1>9. HoldsEdge(none, <<>>)
  BY <1>1, <1>3, <1>8 DEF HoldsEdge
<1>10. BodiesFit(Nothing) /\ BodiesFit(Torn)
  BY <1>2, <1>3 DEF BodiesFit
<1> QED BY <1>2, <1>7, <1>9, <1>10 DEF EdgeFits, TreeFits

\* append extends the tree by the new entry.
LEMMA AppendedFits ==
  ASSUME NEW l, LogShape(l), EdgeFits(l), NEW e \in AnyEntry, l.history = <<>> => e = Null
  PROVE  EdgeFits(Appended(l, e))
<1> DEFINE m == Appended(l, e)
           n == Len(l.history)
<1>1. /\ m.bodies = Append(l.bodies, e) /\ m.history = Append(l.history, e)
      /\ m.tree = AppendLeaf(l.tree, HashLeaf(e)) /\ m.minimum = l.minimum
  BY DEF Appended, LogShape
<1>2. m.tree.leaves = Append(l.tree.leaves, HashLeaf(e))
  BY <1>1 DEF AppendLeaf
<1> HIDE DEF m
<1>3. /\ l.history \in Seq(AnyEntry) /\ l.bodies \in Seq(AnyEntry \cup {NoBody})
      /\ l.tree.leaves \in Seq(LeafHashes)
      /\ Len(l.bodies) = n /\ Len(l.tree.leaves) = n /\ n \in Nat
  BY DEF LogShape
<1>4. /\ m.history \in Seq(AnyEntry) /\ Len(m.history) = n + 1
      /\ \A i \in 1 .. n : m.history[i] = l.history[i]
      /\ m.history[n + 1] = e
  BY <1>1, <1>3, AppendProperties
<1>5. OneMore(l.history, m.history, e)
  BY <1>3, <1>4, SeqIsList DEF OneMore
<1>6. IsTreeOf(m.tree, m.history) /\ HoldsEdge(m.tree, m.history)
  <2>1. IsTreeOf(l.tree, l.history) /\ HoldsEdge(l.tree, l.history)
    BY DEF EdgeFits, TreeFits
  <2> QED BY <1>1, <1>5, <2>1, AppendMakesTree
<1>7. (\A i \in 1 .. n : m.bodies[i] = l.bodies[i]) /\ m.bodies[n + 1] = e
  BY <1>1, <1>3, AppendProperties
<1>8. /\ \A i \in 1 .. n : m.tree.leaves[i] = l.tree.leaves[i]
      /\ m.tree.leaves[n + 1] = HashLeaf(e)
  <2>1. HashLeaf(e) \in LeafHashes
    BY DEF LeafHashes
  <2> QED BY <1>2, <1>3, <2>1, AppendProperties
<1>9. BodiesFit(m)
  <2>1. BodiesFit(l)
    BY DEF EdgeFits, TreeFits
  <2>2. m.history[1] = Null
    <3>1. CASE n = 0
      <4>1. l.history = <<>>
        BY <1>3, <3>1
      <4> QED BY <1>4, <3>1, <4>1
    <3>2. CASE n # 0
      <4>1. 1 \in 1 .. n /\ l.history # <<>>
        BY <1>3, <3>2
      <4> QED BY <1>4, <2>1, <4>1 DEF BodiesFit
    <3> QED BY <3>1, <3>2
  <2>3. ASSUME NEW i \in 1 .. n + 1
        PROVE  /\ m.bodies[i] = m.history[i] \/ (m.bodies[i] = NoBody /\ i <= m.minimum)
               /\ m.tree.leaves[i] = Unavailable => m.bodies[i] = NoBody
    <3>1. CASE i = n + 1
      <4>1. m.tree.leaves[i] # Unavailable
        BY <1>8, <3>1, HashesDiffer
      <4> QED BY <1>4, <1>7, <3>1, <4>1
    <3>2. CASE i # n + 1
      <4>1. i \in 1 .. n
        BY <1>3, <3>2
      <4>2. /\ l.bodies[i] = l.history[i] \/ (l.bodies[i] = NoBody /\ i <= l.minimum)
            /\ l.tree.leaves[i] = Unavailable => l.bodies[i] = NoBody
        BY <2>1, <4>1 DEF BodiesFit
      <4>3. /\ m.bodies[i] = l.bodies[i] /\ m.history[i] = l.history[i]
            /\ m.tree.leaves[i] = l.tree.leaves[i] /\ m.minimum = l.minimum
        BY <1>1, <1>4, <1>7, <1>8, <4>1
      <4> QED BY <4>2, <4>3
    <3> QED BY <3>1, <3>2
  <2> QED BY <1>4, <2>2, <2>3 DEF BodiesFit
<1> QED BY <1>6, <1>9 DEF EdgeFits, TreeFits, m

\* Of n leaf hashes, only such below k are gone.
OnlyBelow(new, old, n, k) ==
  \A i \in 1 .. n : /\ new[i] \in {old[i], Unavailable}
                    /\ i - 1 >= k => new[i] = old[i]

\* prune_leaves_below: only leaf hashes go, and never one of the nodes that
\* the current tree consists of.
LEMMA PruningFits ==
  ASSUME NEW D, Len(D) \in Nat, NEW tree, IsTreeOf(tree, D), NEW k \in Nat,
         NEW pruned, pruned = PruneLeavesBelow(tree, k)
  PROVE  /\ IsTreeOf(pruned, D)
         /\ HoldsEdge(tree, D) => HoldsEdge(pruned, D)
         /\ OnlyBelow(pruned.leaves, tree.leaves, Len(D), k)
<1> DEFINE n == Len(D)
           refs == NodesForTreeSize(n)
           protected == { refs[r].index : r \in { q \in DOMAIN refs : refs[q].level = 0 } }
           Gone(i) == i - 1 < k /\ i - 1 \notin protected /\ HasNode(tree, 1, (i - 1) \div 2)
<1>1. /\ tree.leaves = [i \in 1 .. n |-> tree.leaves[i]] /\ DOMAIN tree.leaves = 1 .. n /\ Size(tree) = n
      /\ DOMAIN tree = {"leaves", "levels", "pending"}
  BY ListIsSeq DEF IsTreeOf, HoldsLeaves, ListOf, Size
<1>2. /\ DOMAIN pruned = DOMAIN tree /\ pruned.levels = tree.levels /\ pruned.pending = tree.pending
      /\ pruned.leaves = [i \in 1 .. n |-> IF Gone(i) THEN Unavailable ELSE tree.leaves[i]]
  BY <1>1 DEF PruneLeavesBelow
<1>3. n % 2 = 1 => n - 1 \in protected
  <2> SUFFICES ASSUME n % 2 = 1 PROVE n - 1 \in protected
    OBVIOUS
  <2>1. CutInto(refs, 0, n)
    BY NodesCutTree
  <2> HIDE DEF refs
  <2>2. Len(refs) \in Nat \ {0} /\ refs[Len(refs)].level = 0
    BY <2>1, LastIsLeaf
  <2> DEFINE p == Len(refs)
             ref == refs[p]
  <2>3. p \in DOMAIN refs /\ p \in 1 .. Len(refs)
    BY <2>1, <2>2 DEF CutInto
  <2>4. IsPart(ref, n) /\ ref.level = 0
    BY <2>1, <2>2, <2>3 DEF CutInto
  <2> HIDE DEF p
  <2>5. ref.index = n - 1
    <3> HIDE DEF ref
    <3>1. ref.index + 1 = n /\ ref.index \in Nat
      BY <2>4, PartNode DEF IsPart
    <3> QED BY <3>1
  <2> QED BY <2>3, <2>4, <2>5
<1> HIDE DEF protected
<1>4. ASSUME NEW i \in 1 .. n
      PROVE  /\ pruned.leaves[i] \in {tree.leaves[i], Unavailable}
             /\ i - 1 >= k => pruned.leaves[i] = tree.leaves[i]
             /\ i - 1 \in protected => pruned.leaves[i] = tree.leaves[i]
  <2>1. pruned.leaves[i] = IF Gone(i) THEN Unavailable ELSE tree.leaves[i]
    <3> HIDE DEF Gone
    <3> QED BY <1>2
  <2>2. i - 1 >= k => ~Gone(i)
    OBVIOUS
  <2>3. i - 1 \in protected => ~Gone(i)
    OBVIOUS
  <2> HIDE DEF Gone
  <2> QED BY <2>1, <2>2, <2>3
<1>5. HoldsLeaves(pruned.leaves, D)
  <2>1. ListOf(pruned.leaves, n)
    <3> HIDE DEF Gone
    <3> QED BY <1>2 DEF ListOf
  <2>2. \A i \in 1 .. n : tree.leaves[i] \in {HashLeaf(D[i]), Unavailable}
    BY DEF IsTreeOf, HoldsLeaves
  <2>3. \A i \in 1 .. n : pruned.leaves[i] \in {HashLeaf(D[i]), Unavailable}
    BY <1>4, <2>2
  <2>4. n % 2 = 1 => pruned.leaves[n] = HashLeaf(D[n])
    <3> SUFFICES ASSUME n % 2 = 1 PROVE pruned.leaves[n] = HashLeaf(D[n])
      OBVIOUS
    <3>1. n \in 1 .. n
      OBVIOUS
    <3>2. tree.leaves[n] = HashLeaf(D[n])
      BY DEF IsTreeOf, HoldsLeaves
    <3> QED BY <1>3, <1>4, <3>1, <3>2
  <2> QED BY <2>1, <2>3, <2>4 DEF HoldsLeaves
<1>6. IsTreeOf(pruned, D)
  BY <1>1, <1>2, <1>5 DEF IsTreeOf
<1>7. HoldsEdge(tree, D) => HoldsEdge(pruned, D)
  BY <1>2 DEF HoldsEdge, Pending
<1>8. OnlyBelow(pruned.leaves, tree.leaves, n, k)
  BY <1>4 DEF OnlyBelow
<1> QED BY <1>6, <1>7, <1>8

\* prune drops the body with the leaf hash.
LEMMA PrunedFits ==
  ASSUME NEW l, LogShape(l), EdgeFits(l), NEW k \in Nat, l.minimum <= k, NEW physical \in BOOLEAN
  PROVE  EdgeFits(PrunedLog(l, k, physical))
<1> DEFINE p == Pruned(l, k, physical)
           m == PrunedLog(l, k, physical)
           pruned == PruneLeavesBelow(l.tree, k)
           n == Len(l.history)
<1>1. /\ DOMAIN p = {"bodies", "tree", "minimum", "history"} /\ p.history = l.history
      /\ p.tree = IF physical THEN pruned ELSE l.tree
      /\ p.bodies = IF physical THEN PruneBelow(l.bodies, k) ELSE l.bodies
  <2> HIDE DEF pruned
  <2> QED BY DEF Pruned, LogShape, pruned
<1> HIDE DEF p, pruned
<1>2. m.history = p.history /\ m.tree = p.tree /\ m.bodies = p.bodies /\ m.minimum = k
  BY <1>1 DEF p, PrunedLog
<1> HIDE DEF m
<1>3. IsTreeOf(l.tree, l.history) /\ HoldsEdge(l.tree, l.history) /\ BodiesFit(l)
  BY DEF EdgeFits, TreeFits
<1>4. CASE ~physical
  <2>1. /\ m.history = l.history /\ m.bodies = l.bodies /\ m.tree = l.tree
        /\ Len(l.history) \in Nat /\ l.minimum \in Nat
    BY <1>1, <1>2, <1>4 DEF LogShape
  <2>2. ASSUME NEW i \in 1 .. Len(l.history)
        PROVE  /\ m.bodies[i] = m.history[i] \/ (m.bodies[i] = NoBody /\ i <= m.minimum)
               /\ m.tree.leaves[i] = Unavailable => m.bodies[i] = NoBody
    <3>1. /\ l.bodies[i] = l.history[i] \/ (l.bodies[i] = NoBody /\ i <= l.minimum)
          /\ l.tree.leaves[i] = Unavailable => l.bodies[i] = NoBody
      BY <1>3 DEF BodiesFit
    <3>2. i <= l.minimum => i <= k
      BY <2>1
    <3> QED BY <1>2, <2>1, <3>1, <3>2
  <2>3. BodiesFit(m)
    BY <1>3, <2>1, <2>2 DEF BodiesFit
  <2> QED BY <1>3, <2>1, <2>3 DEF EdgeFits, TreeFits, m
<1>5. CASE physical
  <2>1. n \in Nat /\ DOMAIN l.bodies = 1 .. n
    BY DEF LogShape
  <2>2. /\ IsTreeOf(pruned, l.history) /\ HoldsEdge(pruned, l.history)
        /\ OnlyBelow(pruned.leaves, l.tree.leaves, n, k)
    <3>1. pruned = PruneLeavesBelow(l.tree, k)
      BY DEF pruned
    <3> QED BY <1>3, <2>1, <3>1, PruningFits
  <2>3. \A i \in 1 .. n : m.bodies[i] = IF i - 1 < k THEN NoBody ELSE l.bodies[i]
    BY <1>1, <1>2, <1>5, <2>1 DEF PruneBelow
  <2>4. m.history = l.history /\ m.tree = pruned /\ l.minimum \in Nat
    BY <1>1, <1>2, <1>5 DEF LogShape
  <2>5. ASSUME NEW i \in 1 .. n
        PROVE  /\ m.bodies[i] = m.history[i] \/ (m.bodies[i] = NoBody /\ i <= m.minimum)
               /\ m.tree.leaves[i] = Unavailable => m.bodies[i] = NoBody
    <3>1. CASE i - 1 < k
      <4>1. m.bodies[i] = NoBody
        BY <2>3, <3>1
      <4>2. i <= k
        BY <3>1
      <4> QED BY <1>2, <4>1, <4>2
    <3>2. CASE ~(i - 1 < k)
      <4>1. i - 1 >= k /\ ~(i <= l.minimum)
        BY <2>4, <3>2
      <4>2. m.bodies[i] = l.bodies[i] /\ pruned.leaves[i] = l.tree.leaves[i]
        BY <2>2, <2>3, <3>2, <4>1 DEF OnlyBelow
      <4>3. /\ l.bodies[i] = l.history[i] \/ (l.bodies[i] = NoBody /\ i <= l.minimum)
            /\ l.tree.leaves[i] = Unavailable => l.bodies[i] = NoBody
        BY <1>3 DEF BodiesFit
      <4> QED BY <2>4, <4>1, <4>2, <4>3
    <3> QED BY <3>1, <3>2
  <2>6. BodiesFit(m)
    BY <1>3, <2>4, <2>5 DEF BodiesFit
  <2> QED BY <2>2, <2>4, <2>6 DEF EdgeFits, TreeFits, m
<1> QED BY <1>4, <1>5

\* Saving leaves the stored nodes as they are.
LEMMA StoredFits ==
  ASSUME NEW l, LogShape(l), TreeFits(l)
  PROVE  TreeFits(Stored(l))
<1> DEFINE m == Stored(l)
<1>1. /\ m.history = l.history /\ m.bodies = l.bodies /\ m.minimum = l.minimum
      /\ DOMAIN m.tree = DOMAIN l.tree
      /\ m.tree.leaves = l.tree.leaves /\ m.tree.levels = l.tree.levels
  BY DEF Stored, LogShape
<1> HIDE DEF m
<1> QED BY <1>1 DEF TreeFits, IsTreeOf, BodiesFit, m

\* _rebuild_pending finds a node for every one bit of the size.
LEMMA RebuiltFits ==
  ASSUME NEW D, Len(D) \in Nat, NEW tree, IsTreeOf(tree, D),
         NEW new, new = RebuildPending(tree)
  PROVE  IsTreeOf(new, D) /\ HoldsEdge(new, D)
<1> DEFINE n == Len(D)
           h == Len(tree.levels)
           refs == NodesForTreeSize(n)
           At(l, r) == refs[r].level = l - 1
           Edge(l) == IF \E r \in DOMAIN refs : At(l, r)
                      THEN LET r == CHOOSE r \in DOMAIN refs : At(l, r)
                           IN  Node(tree, refs[r].level, refs[r].index)
                      ELSE Unavailable
<1>1. Size(tree) = n /\ DOMAIN tree = {"leaves", "levels", "pending"} /\ h \in Nat /\ n < Pow2[h + 1]
  BY ListIsSeq DEF IsTreeOf, HoldsLeaves, HoldsLevels, Size
<1>2. /\ DOMAIN new = DOMAIN tree /\ new.leaves = tree.leaves /\ new.levels = tree.levels
      /\ new.pending = [l \in 1 .. h + 2 |-> Edge(l)]
  BY <1>1 DEF RebuildPending
<1>3. CutInto(refs, 0, n)
  BY NodesCutTree
<1> HIDE DEF refs, h
<1>4. IsTreeOf(new, D)
  BY <1>2 DEF IsTreeOf
<1>5. Len(new.pending) = h + 2 /\ \A l \in 1 .. h + 2 : new.pending[l] = Edge(l)
  <2> HIDE DEF Edge
  <2>1. ListOf(new.pending, h + 2) /\ h + 2 \in Nat
    BY <1>1, <1>2 DEF ListOf
  <2>2. \A l \in 1 .. h + 2 : new.pending[l] = Edge(l)
    BY <1>2
  <2> QED BY <2>1, <2>2, ListIsSeq
<1>6. ASSUME NEW l \in Nat, (n \div Pow2[l]) % 2 = 1
      PROVE  Pending(new, l) = FullNode(D, l, n \div Pow2[l] - 1)
  <2> DEFINE P == Pow2[l]
             q == n \div P
  <2>1. P \in Nat \ {0} /\ q % 2 = 1
    BY <1>6, Pow2Positive
  <2> HIDE DEF P
  <2>2. q \in Nat /\ P * q <= n
    BY <2>1, DivBounds
  <2> HIDE DEF q
  <2>3. q >= 1 /\ P * q = q * P /\ P * q >= P /\ P * q \in Nat
    BY <2>1, <2>2
  <2> DEFINE y == P * q
  <2>4. y \in Nat /\ P <= y /\ y <= n /\ 0 < q * P
    BY <2>1, <2>2, <2>3
  <2> HIDE DEF y
  <2>5. P <= n
    BY <2>1, <2>4
  <2>6. l <= h
    <3>1. CASE h + 1 <= l
      <4>0. h + 1 \in Nat
        BY <1>1
      <4>1. Pow2[h + 1] \in Nat /\ Pow2[h + 1] <= P
        BY <3>1, <4>0, Pow2Positive, Pow2Monotone DEF P
      <4>2. FALSE
        BY <1>1, <2>1, <2>5, <4>1
      <4> QED BY <4>2
    <3> QED BY <1>1, <3>1
  <2>7. \E r \in 1 .. Len(refs) : refs[r].level = l
    BY <1>3, <1>6, <2>4 DEF CutInto, P, q
  <2>8. DOMAIN refs = 1 .. Len(refs) /\ (l + 1) - 1 = l
    BY <1>3 DEF CutInto
  <2> DEFINE r == CHOOSE r \in DOMAIN refs : At(l + 1, r)
             ref == refs[r]
  <2>9. r \in DOMAIN refs /\ At(l + 1, r)
    BY <2>7, <2>8
  <2>10. Edge(l + 1) = Node(tree, refs[r].level, refs[r].index)
    BY <2>9
  <2> HIDE DEF r, Edge
  <2>11. IsPart(ref, n) /\ ref.level = l
    BY <1>3, <2>8, <2>9 DEF CutInto
  <2> HIDE DEF ref
  <2>12. Node(tree, ref.level, ref.index) = FullNode(D, l, ref.index)
    BY <2>11, CurrentNodes
  <2>13. ref.index = q - 1
    BY <2>11 DEF IsPart, P, q
  <2>14. l < h + 2 /\ l + 1 \in 1 .. h + 2
    BY <1>1, <2>6
  <2>15. Pending(new, l) = new.pending[l + 1]
    BY <1>5, <2>14 DEF Pending
  <2>16. Pending(new, l) = Node(tree, ref.level, ref.index)
    BY <1>5, <2>10, <2>14, <2>15 DEF ref
  <2> QED BY <2>12, <2>13, <2>16 DEF P, q
<1>7. HoldsEdge(new, D)
  <2>1. Len(new.pending) \in Nat
    BY <1>1, <1>5
  <2> QED BY <1>6, <2>1 DEF HoldsEdge
<1> QED BY <1>4, <1>7

\* Loading rebuilds the right edge.
LEMMA LoadedFits ==
  ASSUME NEW l, LogShape(l), TreeFits(l)
  PROVE  EdgeFits(Loaded(l))
<1> DEFINE m == Loaded(l)
           new == RebuildPending(l.tree)
<1>1. m.history = l.history /\ m.bodies = l.bodies /\ m.tree = new /\ m.minimum = l.minimum
  BY DEF Loaded, LogShape
<1>2. new.leaves = l.tree.leaves
  BY DEF RebuildPending, LogShape
<1>3. Len(l.history) \in Nat
  BY DEF LogShape
<1> HIDE DEF m, new
<1>4. IsTreeOf(new, l.history) /\ HoldsEdge(new, l.history)
  BY <1>3, RebuiltFits DEF TreeFits, new
<1>5. BodiesFit(m)
  BY <1>1, <1>2 DEF TreeFits, BodiesFit
<1> QED BY <1>1, <1>4, <1>5 DEF EdgeFits, TreeFits, m

\* A stored log that is no torn file can be loaded.
LEMMA FitsCanLoad ==
  ASSUME NEW l, LogShape(l), TreeFits(l), Readable(l)
  PROVE  CanLoad(l)
<1> DEFINE n == Len(l.history)
           refs == NodesForTreeSize(n)
<1>1. Size(l.tree) = n /\ Len(l.bodies) = n /\ n \in Nat
  BY DEF LogShape, Size
<1>2. CutInto(refs, 0, n)
  BY <1>1, NodesCutTree
<1> HIDE DEF refs
<1>3. ASSUME NEW r \in DOMAIN refs PROVE HasNode(l.tree, refs[r].level, refs[r].index)
  <2> DEFINE ref == refs[r]
  <2>1. IsPart(ref, n)
    BY <1>2 DEF CutInto
  <2>2. IsTreeOf(l.tree, l.history)
    BY DEF TreeFits
  <2> HIDE DEF ref
  <2>3. HasNode(l.tree, ref.level, ref.index)
    BY <1>1, <2>1, <2>2, CurrentNodes
  <2> QED BY <2>3 DEF ref
<1> QED BY <1>1, <1>3 DEF CanLoad, refs

-----------------------------------------------------------------------------
(* The trees of all logs fit *)

\* The logs in memory have a right edge; the stored one has none, and a torn
\* file no entries.
TreesFit == EdgeFits(log) /\ EdgeFits(view) /\ TreeFits(file)

\* The tree of a new log.
LEMMA NewLogTree == EdgeFits(NewLog)
<1>1. LogShape(Nothing) /\ EdgeFits(Nothing) /\ Null \in AnyEntry
  BY NothingIsEmpty, NothingFits DEF AnyEntry
<1> QED BY <1>1, AppendedFits DEF NewLog

\* In the first state.
LEMMA TreesInit == Init => TreesFit
BY NewLogTree, NothingFits DEF Init, TreesFit, EdgeFits

\* Every step keeps the trees fitting.
LEMMA TreesNext == LogInv /\ TreesFit /\ [Next]_vars => TreesFit'
<1> SUFFICES ASSUME LogInv, TreesFit, [Next]_vars PROVE TreesFit'
  OBVIOUS
<1>1. ASSUME NEW e \in Entry, AppendEntry(e) PROVE TreesFit'
  <2>1. log' = Appended(log, e) /\ UNCHANGED <<file, view>> /\ e \in AnyEntry
    BY <1>1 DEF AppendEntry, AnyEntry
  <2>2. LogShape(log) /\ log.history # <<>>
    BY <1>1 DEF AppendEntry, LogInv, LogsAreLogs
  <2>3. EdgeFits(log')
    BY <2>1, <2>2, AppendedFits DEF TreesFit
  <2> QED BY <2>1, <2>3 DEF TreesFit
<1>2. ASSUME NEW k \in 0 .. MaxSize, NEW physical \in BOOLEAN, Prune(k, physical)
      PROVE  TreesFit'
  <2>1. log' = PrunedLog(log, k, physical) /\ UNCHANGED <<file, view>> /\ k \in Nat /\ log.minimum <= k
    BY <1>2 DEF Prune, PrunedLog
  <2>2. LogShape(log)
    BY DEF LogInv, LogsAreLogs
  <2>3. EdgeFits(log')
    BY <2>1, <2>2, PrunedFits DEF TreesFit
  <2> QED BY <2>1, <2>3 DEF TreesFit
<1>3. CASE BeginSave
  BY <1>3, NothingFits DEF BeginSave, TreesFit
<1>4. CASE EndSave
  <2>1. file' = Stored(log) /\ UNCHANGED <<log, view>> /\ LogShape(log) /\ TreeFits(log)
    BY <1>4 DEF EndSave, LogInv, LogsAreLogs, TreesFit, EdgeFits
  <2>2. TreeFits(file')
    BY <2>1, StoredFits
  <2> QED BY <2>1, <2>2 DEF TreesFit
<1>5. CASE Crash
  BY <1>5, NothingFits DEF Crash, TreesFit
<1>6. ASSUME CanLoad(file) PROVE EdgeFits(Loaded(file))
  <2>1. LogShape(file) /\ TreeFits(file)
    BY <1>6 DEF CanLoad, Readable, LogInv, LogsAreLogs, TreesFit
  <2> QED BY <2>1, LoadedFits
<1>7. CASE Restart
  <2>1. EdgeFits(log') /\ UNCHANGED <<file, view>>
    BY <1>6, <1>7, NewLogTree DEF Restart
  <2> QED BY <2>1 DEF TreesFit
<1>8. CASE Refresh
  <2>1. EdgeFits(view') /\ UNCHANGED <<file, log>>
    BY <1>6, <1>8 DEF Refresh
  <2> QED BY <2>1 DEF TreesFit
<1>9. CASE UNCHANGED vars
  BY <1>9 DEF vars, TreesFit
<1> QED BY <1>1, <1>2, <1>3, <1>4, <1>5, <1>7, <1>8, <1>9 DEF Next

\* The trees in memory, in the file and in the publisher hold the nodes of
\* their entries, through all prunings and reloads.
THEOREM TreesCorrect == Spec => [](LogInv /\ TreesFit)
<1>1. Init => LogInv /\ TreesFit
  BY LogInitInv, TreesInit
<1>2. LogInv /\ TreesFit /\ [Next]_vars => LogInv' /\ TreesFit'
  BY LogNextInv, TreesNext
<1> QED BY <1>1, <1>2, PTL DEF Spec

\* append_leaf_hash never misses a node of the right edge.
THEOREM AppendsSucceed == Spec => []AppendNeverFails
<1>1. LogInv /\ TreesFit => AppendNeverFails
  <2> SUFFICES ASSUME LogInv, TreesFit PROVE CanAppend(log.tree)
    BY DEF AppendNeverFails
  <2>1. Len(log.history) \in Nat /\ Size(log.tree) = Len(log.history)
    BY DEF LogInv, LogsAreLogs, LogShape, Size
  <2>2. HoldsEdge(log.tree, log.history)
    BY DEF TreesFit, EdgeFits
  <2> QED BY <2>1, <2>2, CanAlwaysAppend
<1> QED BY <1>1, TreesCorrect, PTL

\* Every completely written state file can be loaded again.
THEOREM FilesLoad == Spec => []WrittenFileLoads
<1>1. LogInv /\ TreesFit => WrittenFileLoads
  BY FitsCanLoad DEF LogInv, LogsAreLogs, TreesFit, WrittenFileLoads, Readable
<1> QED BY <1>1, TreesCorrect, PTL

\* The root of the first n entries of a log.
LEMMA RootIs ==
  ASSUME NEW l, LogShape(l), TreeFits(l), NEW n \in 1 .. Size(l.tree)
  PROVE  /\ MTH(Segment(l, 0, n)) = MTHOf(l.history, 0, n)
         /\ MTHOf(l.history, 0, n) # Unavailable
         /\ RootAt(l.tree, n) = IF n % 2 = 1 /\ l.tree.leaves[n] = Unavailable
                                THEN Unavailable ELSE MTHOf(l.history, 0, n)
         /\ n = Size(l.tree) => RootAt(l.tree, n) = MTHOf(l.history, 0, n)
<1> DEFINE D == l.history
           A == Segment(l, 0, n)
           one == 0 + 1
<1>1. D \in Seq(AnyEntry) /\ Len(D) \in Nat /\ Size(l.tree) = Len(D) /\ n \in 1 .. Len(D) /\ n \in 0 .. Len(D)
  BY DEF LogShape, Size
<1>2. A = SubSeq(D, 1, n)
  BY DEF Segment
<1>3. IsTreeOf(l.tree, D)
  BY DEF TreeFits
<1> HIDE DEF D, A
<1>4. A \in Seq(AnyEntry) /\ Len(A) = n /\ IsPrefix(A, D)
  <2>1. D \in Seq(AnyEntry) /\ n \in 0 .. Len(D)
    BY <1>1
  <2> QED BY <1>2, <2>1, InitialSegment
<1>5. Len(A) <= Len(D) /\ \A i \in 1 .. Len(A) : D[i] = A[i]
  BY <1>1, <1>4, PrefixChar
<1>6. MTHOf(D, 0, n) = MTHOf(A, 0, n) /\ MTHOf(A, 0, n) # Unavailable
  <2> DEFINE zero == 0
  <2>1. zero \in Nat /\ n \in Nat /\ zero < n /\ n <= Len(A) /\ Len(A) \in Nat
    BY <1>1, <1>4
  <2> HIDE DEF zero
  <2>2. MTHOf(D, zero, n) = MTHOf(A, zero, n) /\ MTHOf(A, zero, n) # Unavailable
    BY <1>1, <1>5, <2>1, HashOfPrefix
  <2> QED BY <2>2 DEF zero
<1>7. MTH(A) = MTHOf(D, 0, n)
  BY <1>4, <1>6 DEF MTH
<1>8. RootAt(l.tree, n) = IF n % 2 = 1 /\ l.tree.leaves[n] = Unavailable
                          THEN Unavailable ELSE MTHOf(D, 0, n)
  BY <1>1, <1>3, RootAtValue
<1>9. n = Size(l.tree) => RootAt(l.tree, n) = MTHOf(D, 0, n)
  <2> SUFFICES ASSUME n = Len(D), n % 2 = 1 PROVE l.tree.leaves[n] # Unavailable
    BY <1>1, <1>8
  <2>1. l.tree.leaves[n] = HashLeaf(D[n])
    BY <1>3 DEF IsTreeOf, HoldsLeaves
  <2> QED BY <2>1, HashesDiffer
<1> QED BY <1>6, <1>7, <1>8, <1>9 DEF D, A

\* A root that can be computed is the one the entries always had, and only
\* physical pruning makes one unavailable.
THEOREM RootsStay == Spec => []NoRootChanges
<1>1. LogInv /\ TreesFit => NoRootChanges
  <2> SUFFICES ASSUME LogInv, TreesFit, NEW l \in {log, view}, NEW n \in 1 .. Size(l.tree)
               PROVE  /\ RootAt(l.tree, n) \in {MTH(Segment(l, 0, n)), Unavailable}
                      /\ RootAt(l.tree, n) = Unavailable => NoBody \in Range(l.bodies)
    BY DEF NoRootChanges, Serving
  <2>1. LogShape(l) /\ TreeFits(l)
    BY DEF LogInv, LogsAreLogs, TreesFit, EdgeFits
  <2>2. RootAt(l.tree, n) \in {MTH(Segment(l, 0, n)), Unavailable}
    BY <2>1, RootIs
  <2>3. ASSUME RootAt(l.tree, n) = Unavailable PROVE NoBody \in Range(l.bodies)
    <3>1. l.tree.leaves[n] = Unavailable
      BY <2>1, <2>3, RootIs
    <3>2. n \in 1 .. Len(l.history) /\ n \in DOMAIN l.bodies
      BY <2>1 DEF LogShape, Size
    <3>3. l.bodies[n] = NoBody
      BY <2>1, <3>1, <3>2 DEF TreeFits, BodiesFit
    <3> QED BY <3>2, <3>3 DEF Range
  <2> QED BY <2>2, <2>3
<1> QED BY <1>1, TreesCorrect, PTL

-----------------------------------------------------------------------------
(* What the logs serve *)

\* The body of an available entry, and its leaf hash, are there.
LEMMA EntryIsThere ==
  ASSUME NEW l, LogShape(l), TreeFits(l), NEW i \in Nat, EntryAvailable(l, i)
  PROVE  /\ i + 1 \in 1 .. Len(l.history)
         /\ l.bodies[i + 1] = l.history[i + 1]
         /\ l.bodies[i + 1] # NoBody
         /\ l.tree.leaves[i + 1] = HashLeaf(l.history[i + 1])
<1> DEFINE n == Len(l.history)
           j == i + 1
<1>1. l.minimum <= i /\ i < n /\ n \in Nat /\ l.minimum \in Nat
  BY DEF EntryAvailable, LogShape, Size
<1>2. j \in 1 .. n /\ ~(j <= l.minimum)
  BY <1>1
<1> HIDE DEF j
<1>3. /\ l.bodies[j] = l.history[j] \/ (l.bodies[j] = NoBody /\ j <= l.minimum)
      /\ l.tree.leaves[j] = Unavailable => l.bodies[j] = NoBody
  BY <1>2 DEF TreeFits, BodiesFit
<1>4. l.history[j] \in AnyEntry
  BY <1>2 DEF LogShape
<1>5. l.bodies[j] = l.history[j] /\ l.bodies[j] # NoBody
  BY <1>2, <1>3, <1>4, NullIsNoCertificate DEF AnyEntry
<1>6. l.tree.leaves[j] \in {HashLeaf(l.history[j]), Unavailable}
  BY <1>2 DEF TreeFits, IsTreeOf, HoldsLeaves
<1> QED BY <1>2, <1>3, <1>5, <1>6 DEF j

\* get_entry and iter_available_entries find every available entry.
LEMMA EntriesAreServed ==
  ASSUME NEW l, LogShape(l), TreeFits(l)
  PROVE  EntriesServed(l)
<1> SUFFICES ASSUME NEW i \in 0 .. Size(l.tree) - 1, EntryAvailable(l, i)
             PROVE  /\ GetEntry(l, i) = {l.history[i + 1]}
                    /\ <<i, l.history[i + 1]>> \in AvailableEntries(l)
  BY DEF EntriesServed
<1>1. Size(l.tree) \in Nat /\ i \in Nat
  BY DEF LogShape, Size
<1>2. l.bodies[i + 1] = l.history[i + 1] /\ l.bodies[i + 1] # NoBody
  BY <1>1, EntryIsThere
<1>3. GetEntry(l, i) = {l.history[i + 1]}
  BY <1>2 DEF GetEntry, Answer
<1>4. i \in l.minimum .. Size(l.tree) - 1
  BY <1>1 DEF EntryAvailable, LogShape
<1>5. <<i, l.history[i + 1]>> \in AvailableEntries(l)
  BY <1>2, <1>4 DEF AvailableEntries
<1> QED BY <1>3, <1>5

\* The hash of an available checkpoint, and the current root, are there.
LEMMA RootsAreServed ==
  ASSUME NEW l, LogShape(l), TreeFits(l)
  PROVE  RootsServed(l)
<1> SUFFICES ASSUME NEW n \in 1 .. Size(l.tree)
             PROVE  /\ n = Size(l.tree) => RootAt(l.tree, n) = MTH(Segment(l, 0, n))
                    /\ n \in ListCheckpoints(l) => GetCheckpointHash(l, n) = {MTH(Segment(l, 0, n))}
  BY DEF RootsServed
<1>1. n = Size(l.tree) => RootAt(l.tree, n) = MTH(Segment(l, 0, n))
  BY RootIs
<1>2. ASSUME n \in ListCheckpoints(l)
      PROVE  GetCheckpointHash(l, n) = {MTH(Segment(l, 0, n))}
  <2> DEFINE i == n - 1
  <2>1. CheckpointAvailable(l, n) /\ n \in 1 .. Len(l.history) /\ Len(l.history) \in Nat
    BY <1>2 DEF ListCheckpoints, LogShape, Size
  <2>2. i \in Nat /\ EntryAvailable(l, i) /\ i + 1 = n
    BY <2>1 DEF CheckpointAvailable, EntryAvailable, LogShape, Size
  <2> HIDE DEF i
  <2>3. l.tree.leaves[n] # Unavailable
    <3>1. l.tree.leaves[i + 1] = HashLeaf(l.history[i + 1])
      BY <2>2, EntryIsThere
    <3> QED BY <2>2, <3>1, HashesDiffer
  <2>4. RootAt(l.tree, n) = MTH(Segment(l, 0, n)) /\ RootAt(l.tree, n) # Unavailable
    BY <2>3, RootIs
  <2> QED BY <2>1, <2>4 DEF GetCheckpointHash, HashAnswer, Answer
<1> QED BY <1>1, <1>2

\* self_check(deep=True) succeeds.
LEMMA SelfCheckSucceeds ==
  ASSUME NEW l, LogShape(l), TreeFits(l), l.history # <<>>
  PROVE  SelfCheck(l)
<1> DEFINE D == l.history
           N == Len(D)
           leaves == l.tree.leaves
           pruned == { i \in DOMAIN leaves : leaves[i] = Unavailable }
<1>1. /\ N \in Nat \ {0} /\ Size(l.tree) = N /\ Len(l.bodies) = N /\ DOMAIN leaves = 1 .. N
      /\ l.minimum \in 0 .. N /\ D \in Seq(AnyEntry) /\ leaves \in Seq(LeafHashes)
  BY DEF LogShape, Size
<1>2. D[1] = Null /\ 1 \in 1 .. N
  BY <1>1 DEF TreeFits, BodiesFit
<1>3. IF l.bodies[1] = NoBody THEN l.minimum # 0 ELSE l.bodies[1] = Null
  <2>1. l.bodies[1] = D[1] \/ (l.bodies[1] = NoBody /\ 1 <= l.minimum)
    BY <1>2 DEF TreeFits, BodiesFit
  <2>2. Null # NoBody
    BY NullIsNoCertificate
  <2> QED BY <1>1, <1>2, <2>1, <2>2
<1>4. \A i \in l.minimum .. Size(l.tree) - 1 : l.bodies[i + 1] # NoBody
  <2> TAKE i \in l.minimum .. Size(l.tree) - 1
  <2>1. i \in Nat /\ EntryAvailable(l, i)
    BY <1>1 DEF EntryAvailable
  <2> QED BY <2>1, EntryIsThere
<1>5. ASSUME NEW n \in DOMAIN leaves, pruned \cap (1 .. n) = {}
      PROVE  RootAt(l.tree, n) = MTH([i \in 1 .. n |-> leaves[i][1]])
  <2>1. n \in 1 .. Size(l.tree) /\ n \in 1 .. N
    BY <1>1
  <2> DEFINE A == [i \in 1 .. n |-> leaves[i][1]]
             B == Segment(l, 0, n)
  <2>2. B = SubSeq(D, 1, n)
    BY DEF Segment
  <2>3. \A i \in 1 .. n : leaves[i] = HashLeaf(D[i])
    <3> TAKE i \in 1 .. n
    <3>1. i \in DOMAIN leaves /\ i \in 1 .. N
      BY <1>1, <2>1
    <3>2. leaves[i] # Unavailable
      BY <1>5, <3>1
    <3>3. leaves[i] \in {HashLeaf(D[i]), Unavailable}
      BY <3>1 DEF TreeFits, IsTreeOf, HoldsLeaves
    <3> QED BY <3>2, <3>3
  <2>4. \A i \in 1 .. n : leaves[i][1] = D[i]
    BY <2>3 DEF HashLeaf
  <2> HIDE DEF leaves, D, N, B
  <2>5. B \in Seq(AnyEntry) /\ Len(B) = n /\ \A i \in 1 .. n : B[i] = D[i]
    <3>1. n \in 0 .. Len(D)
      BY <1>1, <2>1 DEF N
    <3>2. B \in Seq(AnyEntry) /\ Len(B) = n /\ IsPrefix(B, D)
      <4>1. D \in Seq(AnyEntry)
        BY <1>1
      <4> QED BY <2>2, <3>1, <4>1, InitialSegment
    <3>3. \A i \in 1 .. Len(B) : B[i] = D[i]
      BY <1>1, <3>2, PrefixChar
    <3> QED BY <3>2, <3>3
  <2>6. A = B
    <3>1. \A i \in 1 .. n : D[i] \in AnyEntry
      BY <1>1, <2>1 DEF N
    <3>2. A \in [1 .. n -> AnyEntry] /\ n \in Nat
      BY <2>1, <2>4, <3>1
    <3>3. A \in Seq(AnyEntry) /\ Len(A) = n /\ \A i \in 1 .. n : A[i] = B[i]
      BY <2>4, <2>5, <3>2
    <3> HIDE DEF A
    <3> QED BY <2>5, <3>2, <3>3, SeqEqual
  <2>7. leaves[n] # Unavailable
    <3>1. n \in 1 .. n
      BY <2>1
    <3> QED BY <2>3, <3>1, HashesDiffer
  <2>8. RootAt(l.tree, n) = MTH(B)
    BY <2>1, <2>7, RootIs DEF B, leaves
  <2> QED BY <2>6, <2>8
<1> QED BY <1>1, <1>3, <1>4, <1>5 DEF SelfCheck

-----------------------------------------------------------------------------
(* What the logs serve of their trees *)

\* What the facts about trees need of a log.
LEMMA LogFacts ==
  ASSUME NEW l, LogShape(l), TreeFits(l)
  PROVE  /\ l.history \in Seq(AnyEntry)
         /\ Len(l.history) \in Nat
         /\ Size(l.tree) = Len(l.history)
         /\ l.minimum \in Nat
         /\ IsTreeOf(l.tree, l.history)
BY DEF LogShape, TreeFits, Size

\* The hash of a segment of the log's entries.
LEMMA SegmentOfLog ==
  ASSUME NEW l, LogShape(l), TreeFits(l), NEW s \in Nat, NEW e \in Nat, s < e, e <= Size(l.tree)
  PROVE  MTH(Segment(l, s, e)) = MTHOf(l.history, s, e) /\ MTHOf(l.history, s, e) # Unavailable
<1>1. l.history \in Seq(AnyEntry) /\ e <= Len(l.history)
  BY LogFacts
<1> QED BY <1>1, HashOfSubSeq DEF Segment

\* The leaf hashes of available entries are there.
LEMMA LeafIsThere ==
  ASSUME NEW l, LogShape(l), TreeFits(l), NEW b \in 1 .. Size(l.tree), l.minimum < b
  PROVE  l.tree.leaves[b] # Unavailable
<1> DEFINE i == b - 1
<1>1. i \in Nat /\ i + 1 = b /\ EntryAvailable(l, i)
  BY LogFacts DEF EntryAvailable
<1> HIDE DEF i
<1>2. l.tree.leaves[i + 1] = HashLeaf(l.history[i + 1])
  BY <1>1, EntryIsThere
<1> QED BY <1>1, <1>2, HashesDiffer

\* The hash of a subtree with an available entry.
LEMMA SubtreeIsThere ==
  ASSUME NEW l, LogShape(l), TreeFits(l), NEW s, NEW e, IsValidSubtree(s, e), e <= Size(l.tree),
         l.tree.leaves[e] # Unavailable
  PROVE  /\ SubtreeHash(l.tree, s, e) = MTH(Segment(l, s, e))
         /\ SubtreeHash(l.tree, s, e) = MTHOf(l.history, s, e)
         /\ SubtreeHash(l.tree, s, e) # Unavailable
<1>1. s \in Nat /\ e \in Nat /\ s < e
  BY DEF IsValidSubtree
<1>2. SubtreeHash(l.tree, s, e) = MTHOf(l.history, s, e)
  BY LogFacts, SubtreeHashValue DEF IsStored
<1> QED BY <1>1, <1>2, SegmentOfLog

\* covering_subtrees finds every hash as long as its interval's start is not
\* below the minimum index.
LEMMA CoversAreServed ==
  ASSUME NEW l, LogShape(l), TreeFits(l), NEW m \in Nat, NEW n \in Nat, m < n, n <= Size(l.tree),
         l.minimum <= m
  PROVE  CoveringSubtrees(l, m, n) # {}
<1> DEFINE cover == Cover(m, n)
           hashes == [k \in DOMAIN cover |-> SubtreeHash(l.tree, cover[k].start, cover[k].end)]
<1>1. ASSUME NEW s \in Nat, NEW e \in Nat, IsValidSubtree(s, e), m < e, e <= n
      PROVE  SubtreeHash(l.tree, s, e) # Unavailable
  <2>1. e \in 1 .. Size(l.tree) /\ l.minimum < e /\ e <= Size(l.tree)
    BY <1>1, LogFacts
  <2>2. l.tree.leaves[e] # Unavailable
    BY <2>1, LeafIsThere
  <2> QED BY <1>1, <2>1, <2>2, SubtreeIsThere
<1>2. \A k \in DOMAIN cover : SubtreeHash(l.tree, cover[k].start, cover[k].end) # Unavailable
  <2>1. \/ n = m + 1 /\ cover = << Interval(m, n) >> /\ IsValidSubtree(m, n)
        \/ \E left, mid \in Nat, h \in Nat :
             /\ cover = << Interval(left, mid), Interval(mid, n) >>
             /\ left <= m /\ m < mid /\ mid < n
             /\ IsValidSubtree(left, mid) /\ IsValidSubtree(mid, n)
             /\ mid - left = Pow2[h] /\ mid - left < 2 * (n - m)
    BY CoverIs
  <2> HIDE DEF cover
  <2>2. CASE n = m + 1 /\ cover = << Interval(m, n) >> /\ IsValidSubtree(m, n)
    <3>1. DOMAIN cover = {1} /\ cover[1].start = m /\ cover[1].end = n
      BY <2>2 DEF Interval
    <3> QED BY <1>1, <2>2, <3>1
  <2>3. ASSUME NEW left \in Nat, NEW mid \in Nat,
               cover = << Interval(left, mid), Interval(mid, n) >>,
               m < mid, mid < n, IsValidSubtree(left, mid), IsValidSubtree(mid, n)
        PROVE  \A k \in DOMAIN cover : SubtreeHash(l.tree, cover[k].start, cover[k].end) # Unavailable
    <3>1. /\ DOMAIN cover = {1, 2} /\ cover[1].start = left /\ cover[1].end = mid
          /\ cover[2].start = mid /\ cover[2].end = n
      BY <2>3 DEF Interval
    <3> QED BY <1>1, <2>3, <3>1
  <2> QED BY <2>1, <2>2, <2>3
<1>3. Unavailable \notin Range(hashes)
  <2> HIDE DEF cover
  <2> QED BY <1>2 DEF Range
<1>4. hashes \in CoveringSubtrees(l, m, n)
  <2> HIDE DEF cover
  <2>1. hashes \in Answer(n <= Size(l.tree) /\ m < n, hashes)
    BY DEF Answer
  <2> QED BY <1>3, <2>1 DEF CoveringSubtrees, cover
<1> QED BY <1>4

\* The consistency proof from an available checkpoint is there and verifies.
LEMMA CheckpointsLink ==
  ASSUME NEW l, LogShape(l), TreeFits(l), NEW n \in 1 .. Size(l.tree), NEW m \in 1 .. n,
         \A b \in m .. n : l.tree.leaves[b] # Unavailable,
         NEW proof, proof = ConsistencyProof(l.tree, 0, m, n)
  PROVE  /\ Served(proof)
         /\ VerifyTreeConsistency(m, n, MTH(Segment(l, 0, m)), MTH(Segment(l, 0, n)), proof)
<1>1. n \in 1 .. Len(l.history)
  BY LogFacts
<1>2. MTH(Segment(l, 0, m)) = MTHOf(l.history, 0, m) /\ MTH(Segment(l, 0, n)) = MTHOf(l.history, 0, n)
  <2>1. m \in Nat /\ n \in Nat /\ 0 < m /\ 0 < n /\ m <= Size(l.tree) /\ n <= Size(l.tree)
    BY <1>1, LogFacts
  <2> QED BY <2>1, SegmentOfLog
<1> QED BY <1>1, <1>2, LogFacts, CheckpointsConsistent

\* Checkpoints, subtrees and the proofs from available checkpoints are served.
THEOREM CheckpointsAreServed == Spec => []CheckpointsServed
<1>1. LogInv /\ TreesFit => CheckpointsServed
  <2> SUFFICES ASSUME LogInv, TreesFit, NEW l \in {log, view}, Readable(l)
               PROVE  /\ RootsServed(l)
                      /\ \A n \in 1 .. Size(l.tree) : \A m \in 0 .. n - 1 :
                           /\ SubtreeAvailable(l, m, n) => GetSubtreeHash(l, m, n) = {MTH(Segment(l, m, n))}
                           /\ m \in ListCheckpoints(l) =>
                                /\ CoveringSubtrees(l, m, n) # {}
                                /\ \E proof \in GetConsistencyProof(l, m, n) :
                                     VerifyTreeConsistency(m, n, MTH(Segment(l, 0, m)),
                                                           MTH(Segment(l, 0, n)), proof)
    BY DEF CheckpointsServed, Serving
  <2>1. LogShape(l) /\ TreeFits(l)
    BY DEF LogInv, LogsAreLogs, TreesFit, EdgeFits
  <2>2. ASSUME NEW n \in 1 .. Size(l.tree), NEW m \in 0 .. n - 1, SubtreeAvailable(l, m, n)
        PROVE  GetSubtreeHash(l, m, n) = {MTH(Segment(l, m, n))}
    <3>1. IsValidSubtree(m, n) /\ n <= Size(l.tree) /\ l.minimum < n
      BY <2>2 DEF SubtreeAvailable
    <3>2. l.tree.leaves[n] # Unavailable
      BY <2>1, <3>1, LeafIsThere
    <3>3. SubtreeHash(l.tree, m, n) = MTH(Segment(l, m, n)) /\ SubtreeHash(l.tree, m, n) # Unavailable
      BY <2>1, <3>1, <3>2, SubtreeIsThere
    <3> QED BY <2>2, <3>3 DEF GetSubtreeHash, HashAnswer, Answer
  <2>3. ASSUME NEW n \in 1 .. Size(l.tree), NEW m \in 0 .. n - 1, m \in ListCheckpoints(l)
        PROVE  /\ CoveringSubtrees(l, m, n) # {}
               /\ \E proof \in GetConsistencyProof(l, m, n) :
                    VerifyTreeConsistency(m, n, MTH(Segment(l, 0, m)), MTH(Segment(l, 0, n)), proof)
    <3>1. CheckpointAvailable(l, m)
      BY <2>3 DEF ListCheckpoints
    <3>2. /\ m \in Nat /\ n \in Nat /\ 0 < m /\ m < n /\ m <= n /\ m \in 1 .. n
          /\ n <= Size(l.tree) /\ l.minimum < m /\ l.minimum <= m /\ l.minimum < n /\ l.minimum \in Nat
          /\ 0 < n /\ Size(l.tree) \in Nat
      BY <2>1, <3>1, LogFacts DEF CheckpointAvailable
    <3>3. CoveringSubtrees(l, m, n) # {}
      BY <2>1, <3>2, CoversAreServed
    <3> DEFINE proof == ConsistencyProof(l.tree, 0, m, n)
    <3>4. \A b \in m .. n : l.tree.leaves[b] # Unavailable
      <4> TAKE b \in m .. n
      <4>1. b \in 1 .. Size(l.tree) /\ l.minimum < b
        BY <3>2
      <4> QED BY <2>1, <4>1, LeafIsThere
    <3>5. /\ Served(proof)
          /\ VerifyTreeConsistency(m, n, MTH(Segment(l, 0, m)), MTH(Segment(l, 0, n)), proof)
      BY <2>1, <3>2, <3>4, CheckpointsLink
    <3>6. proof \in GetConsistencyProof(l, m, n)
      <4>1. CheckpointAvailable(l, n)
        BY <3>2 DEF CheckpointAvailable
      <4> QED BY <3>1, <3>2, <3>5, <4>1 DEF GetConsistencyProof, ProofAnswer, Answer
    <3> QED BY <3>3, <3>5, <3>6
  <2> QED BY <2>1, <2>2, <2>3, RootsAreServed
<1> QED BY <1>1, TreesCorrect, PTL

\* All leaf hashes of the log are there.
HoldsAllLeaves(l) == \A b \in 1 .. Size(l.tree) : l.tree.leaves[b] # Unavailable

\* While no body is pruned, no leaf hash is.
LEMMA NothingPruned ==
  ASSUME NEW l, LogShape(l), TreeFits(l), NoBody \notin Range(l.bodies)
  PROVE  HoldsAllLeaves(l)
<1> SUFFICES ASSUME NEW b \in 1 .. Size(l.tree), l.tree.leaves[b] = Unavailable PROVE FALSE
  BY DEF HoldsAllLeaves
<1>1. b \in 1 .. Len(l.history) /\ b \in DOMAIN l.bodies
  BY DEF LogShape, Size
<1>2. l.bodies[b] = NoBody
  BY <1>1 DEF TreeFits, BodiesFit
<1> QED BY <1>1, <1>2 DEF Range

\* Then every root can be computed.
LEMMA AllRootsThere ==
  ASSUME NEW l, LogShape(l), TreeFits(l), HoldsAllLeaves(l), NEW n \in 1 .. Size(l.tree)
  PROVE  RootAt(l.tree, n) = MTHOf(l.history, 0, n)
BY RootIs DEF HoldsAllLeaves

\* Every inclusion proof is there and verifies.
LEMMA AllIncluded ==
  ASSUME NEW l, LogShape(l), TreeFits(l), HoldsAllLeaves(l),
         NEW s, NEW e, IsValidSubtree(s, e), e <= Size(l.tree), NEW i \in s .. e - 1,
         NEW proof, proof = InclusionProof(l.tree, i, s, e)
  PROVE  /\ Served(proof)
         /\ VerifyInclusion(i, s, e, LeafHash(l, i), proof, MTHOf(l.history, s, e))
<1>1. /\ s \in Nat /\ e \in Nat /\ s < e /\ Len(l.history) \in Nat
      /\ Size(l.tree) = Len(l.history) /\ IsTreeOf(l.tree, l.history)
      /\ e <= Len(l.history)
  BY LogFacts DEF IsValidSubtree
<1>2. \A b \in s + 1 .. e : l.tree.leaves[b] # Unavailable
  BY <1>1 DEF HoldsAllLeaves
<1>3. LeafHash(l, i) = HashLeaf(l.history[i + 1])
  <2> DEFINE b == i + 1
  <2>1. b \in 1 .. Size(l.tree) /\ b \in 1 .. Len(l.history)
    BY <1>1
  <2> HIDE DEF b
  <2>2. l.tree.leaves[b] \in {HashLeaf(l.history[b]), Unavailable}
    BY <2>1 DEF TreeFits, IsTreeOf, HoldsLeaves
  <2>3. l.tree.leaves[b] # Unavailable
    BY <2>1 DEF HoldsAllLeaves
  <2> QED BY <2>2, <2>3 DEF LeafHash, b
<1> QED BY <1>1, <1>2, <1>3, IncludedComplete

\* Every consistency proof is there and verifies.
LEMMA AllConsistent ==
  ASSUME NEW l, LogShape(l), TreeFits(l), HoldsAllLeaves(l), NEW n \in 1 .. Size(l.tree),
         NEW s, NEW e, IsValidSubtree(s, e), e <= n,
         NEW proof, proof = ConsistencyProof(l.tree, s, e, n)
  PROVE  /\ Served(proof)
         /\ VerifySubtreeConsistency(s, e, n, SubtreeHash(l.tree, s, e), proof, RootAt(l.tree, n))
<1>1. /\ s \in Nat /\ e \in Nat /\ s < e /\ Len(l.history) \in Nat
      /\ Size(l.tree) = Len(l.history) /\ IsTreeOf(l.tree, l.history)
      /\ n \in 1 .. Len(l.history) /\ e \in 1 .. Size(l.tree) /\ e <= Size(l.tree)
  BY LogFacts DEF IsValidSubtree
<1>2. \A b \in 1 .. n : l.tree.leaves[b] # Unavailable
  BY <1>1 DEF HoldsAllLeaves
<1>3. l.tree.leaves[e] # Unavailable
  BY <1>1 DEF HoldsAllLeaves
<1>4. SubtreeHash(l.tree, s, e) = MTHOf(l.history, s, e)
  BY <1>1, <1>3, SubtreeIsThere
<1>5. RootAt(l.tree, n) = MTHOf(l.history, 0, n)
  BY AllRootsThere
<1> QED BY <1>1, <1>2, <1>4, <1>5, ConsistentComplete

\* The tree's own leaf hashes are served.
LEMMA LeafIsServed ==
  ASSUME NEW l, LogShape(l), TreeFits(l), NEW m \in Nat, EntryAvailable(l, m)
  PROVE  GetNode(l, 0, m) = {HashLeaf(l.history[m + 1])}
<1> DEFINE zero == 0
           b == m + 1
<1>0. l.tree.leaves[b] = HashLeaf(l.history[b]) /\ b \in 1 .. Size(l.tree) /\ l.minimum < b
  BY EntryIsThere, LogFacts DEF EntryAvailable
<1>1. l.tree.leaves[b] = HashLeaf(l.history[b]) /\ l.tree.leaves[b] # Unavailable /\ m < Size(l.tree)
  <2> HIDE DEF b
  <2>1. l.tree.leaves[b] # Unavailable
    BY <1>0, LeafIsThere
  <2> QED BY <1>0, <2>1 DEF EntryAvailable
<1>2. zero = 0
  OBVIOUS
<1> HIDE DEF zero
<1>3. HasNode(l.tree, zero, m) /\ Node(l.tree, zero, m) = HashLeaf(l.history[b])
  BY <1>1, <1>2 DEF HasNode, Node
<1> HIDE DEF b
<1>4. HashLeaf(l.history[b]) # Unavailable
  BY <1>1
<1>5. GetNode(l, zero, m) = {HashLeaf(l.history[b])}
  BY <1>3, <1>4 DEF GetNode, HashAnswer, Answer
<1> QED BY <1>5 DEF zero, b

\* What the requests about a prefix of a log answer.
LEMMA PrefixIsServed ==
  ASSUME NEW l, LogShape(l), TreeFits(l), HoldsAllLeaves(l),
         NEW n \in 1 .. Size(l.tree), NEW m \in 0 .. n - 1
  PROVE  /\ EntryAvailable(l, m) /\ CheckpointAvailable(l, n) => GetInclusionProof(l, m, n) # {}
         /\ VerifyInclusionProof(l, m, n)
         /\ m > 0 => VerifyConsistencyProof(l, m, n)
<1> DEFINE zero == 0
           included == InclusionProof(l.tree, m, zero, n)
           consistent == ConsistencyProof(l.tree, zero, m, n)
<1>1. n \in Nat \ {0} /\ m \in Nat /\ m < n /\ n <= Size(l.tree) /\ m \in zero .. n - 1 /\ zero = 0
  BY LogFacts
<1>2. IsValidSubtree(zero, n)
  BY <1>1, CheckpointIsSubtree
<1>3. RootAt(l.tree, n) = MTHOf(l.history, zero, n)
  BY <1>1, AllRootsThere
<1> HIDE DEF zero
<1>4. /\ Served(included)
      /\ VerifyInclusion(m, zero, n, LeafHash(l, m), included, MTHOf(l.history, zero, n))
  BY <1>1, <1>2, AllIncluded
<1>5. VerifyInclusionProof(l, m, n)
  BY <1>1, <1>3, <1>4 DEF VerifyInclusionProof
<1>6. ASSUME EntryAvailable(l, m), CheckpointAvailable(l, n) PROVE GetInclusionProof(l, m, n) # {}
  <2>1. included \in GetInclusionProof(l, m, n)
    <3> HIDE DEF included
    <3>1. included \in ProofAnswer(CheckpointAvailable(l, n) /\ EntryAvailable(l, m) /\ m < n, included)
      BY <1>1, <1>4, <1>6 DEF ProofAnswer, Answer
    <3> QED BY <1>1, <3>1 DEF GetInclusionProof, included
  <2> QED BY <2>1
<1>7. ASSUME m > 0 PROVE VerifyConsistencyProof(l, m, n)
  <2>1. m \in 1 .. n /\ m \in 1 .. Size(l.tree) /\ n \in 1 .. Len(l.history) /\ Len(l.history) \in Nat
    BY <1>1, <1>7, LogFacts
  <2>2. \A b \in m .. n : l.tree.leaves[b] # Unavailable
    <3> TAKE b \in m .. n
    <3>1. b \in 1 .. Size(l.tree)
      BY <1>1, <2>1, LogFacts
    <3> QED BY <3>1 DEF HoldsAllLeaves
  <2>3. RootAt(l.tree, m) = MTHOf(l.history, 0, m)
    BY <2>1, AllRootsThere
  <2>4. VerifyTreeConsistency(m, n, MTHOf(l.history, 0, m), MTHOf(l.history, 0, n),
                              ConsistencyProof(l.tree, 0, m, n))
    BY <2>1, <2>2, LogFacts, CheckpointsConsistent
  <2> QED BY <1>1, <1>3, <2>3, <2>4 DEF VerifyConsistencyProof
<1> QED BY <1>5, <1>6, <1>7

\* What the requests about a subtree answer.
LEMMA SubtreesAreServed ==
  ASSUME NEW l, LogShape(l), TreeFits(l), HoldsAllLeaves(l),
         NEW s, NEW e, IsValidSubtree(s, e), e <= Size(l.tree)
  PROVE  /\ \A i \in s .. e - 1 :
              /\ EntryAvailable(l, i) /\ SubtreeAvailable(l, s, e) =>
                   GetSubtreeInclusionProof(l, i, s, e) # {}
              /\ VerifySubtreeInclusionProof(l, i, s, e)
         /\ \A n \in 1 .. Size(l.tree) : e <= n =>
              /\ SubtreeAvailable(l, s, e) /\ CheckpointAvailable(l, n) =>
                   GetSubtreeConsistencyProof(l, s, e, n) # {}
              /\ VerifySubtreeConsistencyProof(l, s, e, n)
<1>1. s \in Nat /\ e \in Nat /\ s < e
  BY DEF IsValidSubtree
<1>2. e \in 1 .. Size(l.tree)
  BY <1>1, LogFacts
<1>3. SubtreeHash(l.tree, s, e) = MTHOf(l.history, s, e)
  BY <1>2, SubtreeIsThere DEF HoldsAllLeaves
<1>4. ASSUME NEW i \in s .. e - 1
      PROVE  /\ EntryAvailable(l, i) /\ SubtreeAvailable(l, s, e) =>
                  GetSubtreeInclusionProof(l, i, s, e) # {}
             /\ VerifySubtreeInclusionProof(l, i, s, e)
  <2> DEFINE proof == InclusionProof(l.tree, i, s, e)
  <2>1. /\ Served(proof)
        /\ VerifyInclusion(i, s, e, LeafHash(l, i), proof, MTHOf(l.history, s, e))
    BY AllIncluded
  <2>2. ASSUME EntryAvailable(l, i), SubtreeAvailable(l, s, e)
        PROVE  proof \in GetSubtreeInclusionProof(l, i, s, e)
    <3>1. s <= i /\ i < e
      BY <1>1
    <3> QED BY <2>1, <2>2, <3>1 DEF GetSubtreeInclusionProof, ProofAnswer, Answer
  <2> QED BY <1>3, <2>1, <2>2 DEF VerifySubtreeInclusionProof
<1>5. ASSUME NEW n \in 1 .. Size(l.tree), e <= n
      PROVE  /\ SubtreeAvailable(l, s, e) /\ CheckpointAvailable(l, n) =>
                  GetSubtreeConsistencyProof(l, s, e, n) # {}
             /\ VerifySubtreeConsistencyProof(l, s, e, n)
  <2> DEFINE proof == ConsistencyProof(l.tree, s, e, n)
  <2>1. /\ Served(proof)
        /\ VerifySubtreeConsistency(s, e, n, SubtreeHash(l.tree, s, e), proof, RootAt(l.tree, n))
    BY <1>5, AllConsistent
  <2>2. ASSUME SubtreeAvailable(l, s, e), CheckpointAvailable(l, n)
        PROVE  proof \in GetSubtreeConsistencyProof(l, s, e, n)
    BY <1>5, <2>1, <2>2 DEF GetSubtreeConsistencyProof, ProofAnswer, Answer
  <2> QED BY <2>1, <2>2 DEF VerifySubtreeConsistencyProof
<1> QED BY <1>4, <1>5

\* Everything is served and verifies while no body is pruned.
LEMMA AllIsServed ==
  ASSUME NEW l, LogShape(l), TreeFits(l), NoBody \notin Range(l.bodies)
  PROVE  EverythingServed(l)
<1>1. HoldsAllLeaves(l)
  BY NothingPruned
<1> SUFFICES
      ASSUME NEW n \in 1 .. Size(l.tree), NEW m \in 0 .. n - 1
      PROVE  /\ EntryAvailable(l, m) => GetNode(l, 0, m) = {HashLeaf(l.history[m + 1])}
             /\ EntryAvailable(l, m) /\ CheckpointAvailable(l, n) => GetInclusionProof(l, m, n) # {}
             /\ VerifyInclusionProof(l, m, n)
             /\ m > 0 => VerifyConsistencyProof(l, m, n)
             /\ IsValidSubtree(m, n) => \A i \in m .. n - 1 :
                  /\ EntryAvailable(l, i) => GetSubtreeInclusionProof(l, i, m, n) # {}
                  /\ VerifySubtreeInclusionProof(l, i, m, n)
             /\ \A s \in 0 .. m - 1 : IsValidSubtree(s, m) =>
                  /\ SubtreeAvailable(l, s, m) => GetSubtreeConsistencyProof(l, s, m, n) # {}
                  /\ VerifySubtreeConsistencyProof(l, s, m, n)
  BY DEF EverythingServed
<1>2. /\ m \in Nat /\ n \in Nat /\ m < n /\ n <= Size(l.tree) /\ m <= Size(l.tree) /\ m <= n
      /\ l.minimum \in Nat
  BY LogFacts
<1>3. EntryAvailable(l, m) => GetNode(l, 0, m) = {HashLeaf(l.history[m + 1])}
  BY <1>2, LeafIsServed
<1>4. /\ EntryAvailable(l, m) /\ CheckpointAvailable(l, n) => GetInclusionProof(l, m, n) # {}
      /\ VerifyInclusionProof(l, m, n)
      /\ m > 0 => VerifyConsistencyProof(l, m, n)
  BY <1>1, PrefixIsServed
<1>5. ASSUME IsValidSubtree(m, n), NEW i \in m .. n - 1
      PROVE  /\ EntryAvailable(l, i) => GetSubtreeInclusionProof(l, i, m, n) # {}
             /\ VerifySubtreeInclusionProof(l, i, m, n)
  <2>1. EntryAvailable(l, i) => SubtreeAvailable(l, m, n)
    BY <1>2, <1>5 DEF EntryAvailable, SubtreeAvailable
  <2> QED BY <1>1, <1>2, <1>5, <2>1, SubtreesAreServed
<1>6. ASSUME NEW s \in 0 .. m - 1, IsValidSubtree(s, m)
      PROVE  /\ SubtreeAvailable(l, s, m) => GetSubtreeConsistencyProof(l, s, m, n) # {}
             /\ VerifySubtreeConsistencyProof(l, s, m, n)
  <2>1. SubtreeAvailable(l, s, m) => CheckpointAvailable(l, n)
    BY <1>2 DEF CheckpointAvailable, SubtreeAvailable
  <2> QED BY <1>1, <1>2, <1>6, <2>1, SubtreesAreServed
<1> QED BY <1>3, <1>4, <1>5, <1>6

\* Available entries are served after whatever was pruned, lost and reloaded.
THEOREM EntriesStayServed == Spec => []AvailableEntriesServed
<1>1. LogInv /\ TreesFit => AvailableEntriesServed
  <2> SUFFICES ASSUME LogInv, TreesFit, NEW l \in {log, view}, Readable(l)
               PROVE  /\ SelfCheck(l)
                      /\ NoBody \notin Range(l.bodies) => EverythingServed(l)
                      /\ EntriesServed(l)
    BY DEF AvailableEntriesServed, Serving
  <2>1. LogShape(l) /\ TreeFits(l)
    BY DEF LogInv, LogsAreLogs, TreesFit, EdgeFits
  <2>2. l.history # <<>>
    BY DEF LogInv, LogsAreLogs, Readable
  <2> QED BY <2>1, <2>2, SelfCheckSucceeds, EntriesAreServed, AllIsServed
<1> QED BY <1>1, TreesCorrect, PTL
===============================================================================

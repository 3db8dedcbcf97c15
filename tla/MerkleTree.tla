----------------------------- MODULE MerkleTree -----------------------------
(***************************************************************************)
(* The append-only Merkle tree of an issuance log (mtc/merkle/tree.py) and *)
(* the verification of its proofs (mtc/merkle/proof.py,                    *)
(* mtc/merkle/consistency.py).                                             *)
(*                                                                         *)
(* A tree keeps, as the class does, the leaf hashes, the hashes of the     *)
(* completed nodes of each level (levels[l][i + 1] is the node             *)
(* [i * 2^l, (i + 1) * 2^l) for l >= 1) and the right edge: pending[l + 1] *)
(* is the last completed node of level l that had no sibling.              *)
(*                                                                         *)
(* "Slip:" marks a plausible mistake in the definition after it, used only *)
(* to show that a property notices.                                        *)
(***************************************************************************)
EXTENDS MerkleHash, SequencesExt

EmptyTree == [leaves |-> <<>>, levels |-> <<>>, pending |-> <<>>]

Size(tree) == Len(tree.leaves)

-----------------------------------------------------------------------------
\* The number of one bits at the low end of n, and of zero bits (n > 0).
TrailingOnes(n) == CHOOSE k \in 0 .. n : n % Pow2[k + 1] = Pow2[k] - 1
TrailingZeros(n) == CHOOSE k \in 0 .. n : n % Pow2[k + 1] = Pow2[k]

\* The right edge node of a level, if there is one.
Pending(tree, level) ==
  IF level < Len(tree.pending) THEN tree.pending[level + 1] ELSE Unavailable

\* append_leaf_hash finds every right edge node it has to merge.
CanAppend(tree) ==
  \A l \in 0 .. TrailingOnes(Size(tree)) - 1 : Pending(tree, l) # Unavailable

\* append_leaf_hash: the new leaf closes one node on each level whose bit is
\* set in the old size; the highest of them becomes the right edge there.
AppendLeaf(tree, leaf) ==
  LET top == TrailingOnes(Size(tree))
      node[l \in 0 .. top] ==
        IF l = 0 THEN leaf ELSE HashInternal(Pending(tree, l - 1), node[l - 1])
      height == IF top > Len(tree.levels) THEN top ELSE Len(tree.levels)
      edge   == IF top < Len(tree.pending) THEN Len(tree.pending) ELSE top + 1
  IN  [leaves  |-> Append(tree.leaves, leaf),
       levels  |-> [l \in 1 .. height |->
                      IF l > Len(tree.levels) THEN << node[l] >>
                      ELSE IF l <= top THEN Append(tree.levels[l], node[l])
                      ELSE tree.levels[l]],
       pending |-> [l \in 1 .. edge |->
                      IF l = top + 1 THEN node[top] ELSE Pending(tree, l - 1)]]

\* from_entries: the tree of a log, by appending.
FromEntries(entries) ==
  LET tree[k \in 0 .. Len(entries)] ==
        IF k = 0 THEN EmptyTree ELSE AppendLeaf(tree[k - 1], HashLeaf(entries[k]))
  IN  tree[Len(entries)]

-----------------------------------------------------------------------------
\* node(level, index).
Node(tree, level, index) ==
  IF level = 0 THEN tree.leaves[index + 1] ELSE tree.levels[level][index + 1]

HasNode(tree, level, index) ==
  IF level = 0
  THEN index < Size(tree) /\ tree.leaves[index + 1] # Unavailable
  ELSE level <= Len(tree.levels) /\ index < Len(tree.levels[level])

\* Slip: the nodes are listed from the lowest bit up.
NodesFromTheRight(n) ==
  LET refs[start \in 0 .. n] ==
        LET level == BitWidth(n - start) - 1
        IN  IF start = n THEN <<>>
            ELSE refs[start + Pow2[level]]
                   \o << [level |-> level, index |-> start \div Pow2[level]] >>
  IN  refs[0]

\* nodes_for_tree_size: the complete nodes that the first n leaves consist
\* of, from the left: at every position the largest that fits.
NodesForTreeSize(n) ==
  LET refs[start \in 0 .. n] ==
        LET level == BitWidth(n - start) - 1
        IN  IF start = n THEN <<>>
            ELSE << [level |-> level, index |-> start \div Pow2[level]] >>
                   \o refs[start + Pow2[level]]
  IN  refs[0]

\* root_at(n) for 1 <= n <= size: the nodes folded from the right.
RootAt(tree, n) ==
  LET refs == NodesForTreeSize(n)
      hash == [i \in DOMAIN refs |-> Node(tree, refs[i].level, refs[i].index)]
      root[k \in 0 .. Len(refs) - 1] ==
        IF k = 0 THEN hash[Len(refs)] ELSE HashInternal(hash[Len(refs) - k], root[k - 1])
  IN  root[Len(refs) - 1]

\* _subtree_hash: a stored node if the subtree is full, else its two parts.
SubtreeHash(tree, start, end) ==
  LET hash[i \in (0 .. end) \X (0 .. end)] ==
        LET size == i[2] - i[1]
            mid  == i[1] + Split(size)
        IN  IF size <= 1 \/ size = Pow2[BitCeil(size)]
            THEN Node(tree, BitCeil(size), i[1] \div size)
            ELSE HashInternal(hash[<<i[1], mid>>], hash[<<mid, i[2]>>])
  IN  hash[<<start, end>>]

\* subtree_inclusion_proof / _path: the siblings on the way up from index.
InclusionProof(tree, index, start, end) ==
  LET path[i \in (0 .. end) \X (0 .. end)] ==
        LET mid == i[1] + Split(i[2] - i[1])
        IN  IF i[2] - i[1] <= 1 THEN <<>>
            ELSE IF index < mid
            THEN Append(path[<<i[1], mid>>], SubtreeHash(tree, mid, i[2]))
            ELSE Append(path[<<mid, i[2]>>], SubtreeHash(tree, i[1], mid))
  IN  path[<<start, end>>]

\* subtree_consistency_proof / _subproof: what links [start, end) to the
\* tree of the first n leaves.  The part of it inside [base, top) starts at s.
ConsistencyProof(tree, start, end, n) ==
  LET proof[at \in [s : 0 .. n, base : 0 .. n, top : 0 .. n, known : BOOLEAN]] ==
        LET mid == at.base + Split(at.top - at.base)
        IN  IF (at.s = at.base /\ end = at.top) \/ at.top - at.base <= 1
            THEN IF at.known THEN <<>> ELSE << SubtreeHash(tree, at.base, at.top) >>
            ELSE IF end <= mid
            THEN Append(proof[[at EXCEPT !.top = mid]], SubtreeHash(tree, mid, at.top))
            ELSE IF mid <= at.s
            THEN Append(proof[[at EXCEPT !.base = mid]], SubtreeHash(tree, at.base, mid))
            ELSE Append(proof[[at EXCEPT !.s = mid, !.base = mid, !.known = FALSE]],
                        SubtreeHash(tree, at.base, mid))
  IN  proof[[s |-> start, base |-> 0, top |-> n, known |-> TRUE]]

\* A proof was generated: no hash it needs is gone.
Served(proof) == \A i \in DOMAIN proof : proof[i] # Unavailable

-----------------------------------------------------------------------------
\* A proof that is used up too early or too late is rejected.
Rejected == Unavailable

\* Slip: the positions are not shifted up to the parent that has a sibling.
InclusionStepUnshifted(at, p) ==
  LET left == at.fn % 2 = 1 \/ at.fn = at.sn
  IN  [fn |-> at.fn \div 2, sn |-> at.sn \div 2,
       r  |-> IF at.sn = 0 THEN Rejected
              ELSE IF left THEN HashInternal(p, at.r) ELSE HashInternal(at.r, p)]

\* Slip: only the last node of a level is taken for a right child.
InclusionStepIgnoringParity(at, p) ==
  LET left  == at.fn = at.sn
      shift == IF left /\ at.fn > 0 THEN TrailingZeros(at.fn) + 1 ELSE 1
  IN  [fn |-> at.fn \div Pow2[shift], sn |-> at.sn \div Pow2[shift],
       r  |-> IF at.sn = 0 THEN Rejected
              ELSE IF left THEN HashInternal(p, at.r) ELSE HashInternal(at.r, p)]

\* One turn of the loop of evaluate_subtree_inclusion_proof.
InclusionStep(at, p) ==
  LET left  == at.fn % 2 = 1 \/ at.fn = at.sn
      shift == IF left /\ at.fn > 0 THEN TrailingZeros(at.fn) + 1 ELSE 1
  IN  [fn |-> at.fn \div Pow2[shift], sn |-> at.sn \div Pow2[shift],
       r  |-> IF at.sn = 0 THEN Rejected
              ELSE IF left THEN HashInternal(p, at.r) ELSE HashInternal(at.r, p)]

\* evaluate_subtree_inclusion_proof for start <= index < end: the subtree
\* hash that the leaf and the proof lead to.
EvaluateInclusion(index, start, end, leaf, proof) ==
  LET at[k \in 0 .. Len(proof)] ==
        IF k = 0 THEN [fn |-> index - start, sn |-> end - start - 1, r |-> leaf]
        ELSE InclusionStep(at[k - 1], proof[k])
      last == at[Len(proof)]
  IN  IF last.sn = 0 THEN last.r ELSE Rejected

VerifyInclusion(index, start, end, leaf, proof, hash) ==
  /\ IsValidSubtree(start, end)
  /\ hash # Rejected
  /\ EvaluateInclusion(index, start, end, leaf, proof) = hash

\* Slip: the positions are not shifted up to the parent that has a sibling.
ConsistencyStepUnshifted(at, c) ==
  LET left == at.sn % 2 = 1 \/ at.sn = at.tn
  IN  IF at.tn = 0
      THEN [at EXCEPT !.fr = Rejected, !.sr = Rejected]
      ELSE [fn |-> at.fn \div 2, sn |-> at.sn \div 2, tn |-> at.tn \div 2,
            fr |-> IF left /\ at.fn < at.sn THEN HashInternal(c, at.fr) ELSE at.fr,
            sr |-> IF left THEN HashInternal(c, at.sr) ELSE HashInternal(at.sr, c)]

\* One turn of the loop of _verify_subtree_consistency_proof: fr is rebuilt
\* to the subtree's hash, sr to the root.
ConsistencyStep(at, c) ==
  LET left  == at.sn % 2 = 1 \/ at.sn = at.tn
      shift == IF left /\ at.sn > 0 THEN TrailingZeros(at.sn) + 1 ELSE 1
  IN  IF at.tn = 0
      THEN [at EXCEPT !.fr = Rejected, !.sr = Rejected]
      ELSE [fn |-> at.fn \div Pow2[shift], sn |-> at.sn \div Pow2[shift], tn |-> at.tn \div Pow2[shift],
            fr |-> IF left /\ at.fn < at.sn THEN HashInternal(c, at.fr) ELSE at.fr,
            sr |-> IF left THEN HashInternal(c, at.sr) ELSE HashInternal(at.sr, c)]

\* Where the proof starts: the positions of the largest node that the
\* subtree's right edge and the tree have in common.
ConsistencyStart(start, end, n) ==
  LET apart == DifferingBits(start, end - 1)
      ones  == TrailingOnes(end - 1)
      shift == IF end = n \/ apart < ones THEN apart ELSE ones
  IN  [fn |-> start \div Pow2[shift], sn |-> (end - 1) \div Pow2[shift], tn |-> (n - 1) \div Pow2[shift]]

\* Slip: only the root is compared, not the subtree's own hash.
ConsistencyRootOnly(start, end, n, node, proof, root) ==
  LET from  == ConsistencyStart(start, end, n)
      whole == from.fn = from.sn
      first == IF whole THEN node ELSE Head(proof)
      rest  == IF whole THEN proof ELSE Tail(proof)
      at[k \in 0 .. Len(rest)] ==
        IF k = 0 THEN [fn |-> from.fn, sn |-> from.sn, tn |-> from.tn,
                       fr |-> first, sr |-> first]
        ELSE ConsistencyStep(at[k - 1], rest[k])
      last  == at[Len(rest)]
  IN  last.tn = 0 /\ last.sr = root

\* The hashes that the proof leads to are the given ones.
ConsistencyMatches(start, end, n, node, proof, root) ==
  LET from  == ConsistencyStart(start, end, n)
      whole == from.fn = from.sn
      first == IF whole THEN node ELSE Head(proof)
      rest  == IF whole THEN proof ELSE Tail(proof)
      at[k \in 0 .. Len(rest)] ==
        IF k = 0 THEN [fn |-> from.fn, sn |-> from.sn, tn |-> from.tn,
                       fr |-> first, sr |-> first]
        ELSE ConsistencyStep(at[k - 1], rest[k])
      last  == at[Len(rest)]
  IN  last.tn = 0 /\ last.fr = node /\ last.sr = root

\* verify_subtree_consistency_proof.
VerifySubtreeConsistency(start, end, n, node, proof, root) ==
  LET from == ConsistencyStart(start, end, n)
  IN  /\ IsValidSubtree(start, end)
      /\ end <= n
      /\ node # Rejected
      /\ root # Rejected
      /\ from.fn = from.sn \/ proof # <<>>
      /\ ConsistencyMatches(start, end, n, node, proof, root)

\* verify_tree_consistency_proof.
VerifyTreeConsistency(first, second, rootFirst, rootSecond, proof) ==
  /\ 0 < first
  /\ first <= second
  /\ IF first = second
     THEN proof = <<>> /\ rootFirst = rootSecond
     ELSE VerifySubtreeConsistency(0, first, second, rootFirst, proof, rootSecond)
=============================================================================

---------------------------- MODULE MCMerkleTree ----------------------------
(***************************************************************************)
(* Checks the Merkle tree and the cover procedure on a log of LogSize      *)
(* distinct entries: one state per interval [low, high).  The tree is      *)
(* built by appending, as the log builds it.                               *)
(***************************************************************************)
EXTENDS ProofReuse

CONSTANT LogSize

ASSUME LogSizeAssumption == LogSize \in Nat \ {0}

VARIABLES low, high

WalkInit == low = 0 /\ high = 1

\* Walk over every interval [low, high) with high <= LogSize.
MoveLow  == low + 1 < high /\ low' = low + 1 /\ high' = high
MoveHigh == high < LogSize /\ high' = high + 1 /\ low' = 0

WalkNext == MoveLow \/ MoveHigh

WalkSpec == WalkInit /\ [][WalkNext]_<<low, high>>

\* Entry i is the number i; the tree is the log's final state.
Entries == [i \in 1 .. LogSize |-> i - 1]
Tree == FromEntries(Entries)
EntriesIn(s, e) == SubSeq(Entries, s + 1, e)

-----------------------------------------------------------------------------
\* The nodes of the Merkle tree over n leaves that the definition of MTH
\* creates: the reference notion of a subtree.
MTHNodes ==
  LET nodes[n \in 1 .. LogSize] ==
        IF n = 1 THEN { <<0, 1>> }
        ELSE { <<0, n>> } \cup nodes[Split(n)]
               \cup { <<Split(n) + x[1], Split(n) + x[2]>> : x \in nodes[n - Split(n)] }
  IN  nodes

\* The cover consists of one or two genuine subtrees that are adjacent, end
\* where the interval ends, reach back at least to its start, and satisfy
\* every check _validate_subtrees makes before anything is signed.  Genuine
\* means: a node of the Merkle tree over the entries up to its end, which is
\* also exactly what is_valid_subtree accepts.
CoverIsSound ==
  LET cover == Cover(low, high)
  IN  /\ IsValidSubtree(low, high) <=> <<low, high>> \in MTHNodes[high]
      /\ CoverAccepted(cover, low, high)
      /\ \A i \in DOMAIN cover :
           <<cover[i].start, cover[i].end>> \in MTHNodes[cover[i].end]

\* interval.py promises an efficient cover: the left subtree is less than
\* twice as long as the interval, and it is full (a power of two).
CoverIsTight ==
  LET left == Cover(low, high)[1]
      size == left.end - left.start
  IN  Len(Cover(low, high)) = 2 =>
        /\ size < 2 * (high - low)
        /\ size = Pow2[BitCeil(size)]

\* Every historical root and every subtree hash that the incrementally built
\* tree computes from its stored nodes is the hash MTH defines.
RootsMatchMTH ==
  /\ RootAt(Tree, high) = MTH(EntriesIn(0, high))
  /\ IsValidSubtree(low, high) => SubtreeHash(Tree, low, high) = MTH(EntriesIn(low, high))

\* The inclusion proof of every entry of a subtree leads the bit-shifting
\* verifier back to the subtree's hash.
InclusionProofsVerify ==
  IsValidSubtree(low, high) =>
    \A i \in low .. high - 1 :
      VerifyInclusion(i, low, high, HashLeaf(Entries[i + 1]),
                      InclusionProof(Tree, i, low, high), MTH(EntriesIn(low, high)))

\* The proof of every subtree against every later checkpoint verifies, and so
\* does the proof between any two checkpoints.
ConsistencyProofsVerify ==
  IsValidSubtree(low, high) =>
    \A n \in high .. LogSize :
      LET proof == ConsistencyProof(Tree, low, high, n)
      IN  /\ VerifySubtreeConsistency(low, high, n, MTH(EntriesIn(low, high)), proof,
                                      MTH(EntriesIn(0, n)))
          /\ low = 0 => VerifyTreeConsistency(high, n, MTH(EntriesIn(0, high)),
                                              MTH(EntriesIn(0, n)), proof)

\* What a client may keep of a proof.  The proof in a full certificate's subtree
\* is the beginning of the proof in a landmark subtree around it exactly when
\* the former is complete or both end together: a certificate of a partial
\* subtree cannot be converted, and convert_full_to_landmark then refuses.  From
\* one checkpoint to a later one the part of the path inside every completed
\* node stays.
ProofsAreReused ==
  IsValidSubtree(low, high) =>
    \A i \in low .. high - 1 :
      /\ \A s \in 0 .. low : \A e \in high .. LogSize :
           IsValidSubtree(s, e) =>
             ( ConvertFullToLandmark(Tree, i, Interval(low, high), Interval(s, e)) # {}
                 <=> high = e \/ high - low = Pow2[BitCeil(high - low)] )
      /\ \A n \in high .. LogSize : \A level \in 0 .. BitWidth(high) :
           low = 0 /\ (i \div Pow2[level] + 1) * Pow2[level] <= high =>
             \E reuse \in MeasureReuse(Tree, i, high, n) : level <= reuse.reused
=============================================================================

-------------------------- MODULE MCProofSoundness --------------------------
(***************************************************************************)
(* Checks what the proof verifiers accept.  Two logs grow independently;   *)
(* every proof that either of them can generate, for whatever it was       *)
(* meant, is presented for every claim about them.  The entries of the     *)
(* first log are all alike, so that the other can agree with it anywhere   *)
(* and as many wrong proofs as possible have hashes in common with it.     *)
(***************************************************************************)
EXTENDS MerkleTree, FiniteSets

CONSTANTS Value, Same, MaxLength

VARIABLES mine, theirs

PairInit == mine = <<Same>> /\ theirs \in { <<e>> : e \in Value }

MineAppends ==
  Len(mine) < MaxLength /\ mine' = Append(mine, Same) /\ UNCHANGED theirs
TheirsAppends ==
  \E e \in Value : Len(theirs) < MaxLength /\ theirs' = Append(theirs, e) /\ UNCHANGED mine

PairNext == MineAppends \/ TheirsAppends

PairSpec == PairInit /\ [][PairNext]_<<mine, theirs>>

EntriesBetween(log, s, e) == SubSeq(log, s + 1, e)

Subtrees(n) == { i \in [start : 0 .. n - 1, end : 1 .. n] : IsValidSubtree(i.start, i.end) }

InclusionProofs(log) ==
  LET tree == FromEntries(log)
  IN  UNION { { InclusionProof(tree, i, s.start, s.end) : i \in s.start .. s.end - 1 }
              : s \in Subtrees(Len(log)) }

ConsistencyProofs(log) ==
  LET tree == FromEntries(log)
  IN  UNION { { ConsistencyProof(tree, s.start, s.end, n) : n \in s.end .. Len(log) }
              : s \in Subtrees(Len(log)) }

-----------------------------------------------------------------------------
\* verify_subtree_inclusion_proof accepts an entry at an index only if it is
\* the entry at that index, whatever proof of whatever tree is presented.
\* (Every smaller subtree and checkpoint ends some smaller log.)
InclusionIsSound ==
  LET proofs == InclusionProofs(mine) \cup InclusionProofs(theirs)
  IN  \A s \in { t \in Subtrees(Len(theirs)) : t.end = Len(theirs) } :
        LET hash == MTH(EntriesBetween(theirs, s.start, s.end))
        IN  \A i \in s.start .. s.end - 1 : \A e \in Value : \A p \in proofs :
              VerifyInclusion(i, s.start, s.end, HashLeaf(e), p, hash) => e = theirs[i + 1]

\* The consistency verifiers accept a subtree or a checkpoint of one log
\* against a checkpoint of another only if the two logs agree on every entry
\* of it: what a cosigner relies on when it signs.
ConsistencyIsSound ==
  LET proofs == ConsistencyProofs(mine) \cup ConsistencyProofs(theirs)
      n      == Len(theirs)
      root   == MTH(theirs)
  IN  \A s \in Subtrees(Len(mine)) :
        LET hash == MTH(EntriesBetween(mine, s.start, s.end))
        IN  \A p \in proofs :
              \/ VerifySubtreeConsistency(s.start, s.end, n, hash, p, root)
              \/ s.start = 0 /\ VerifyTreeConsistency(s.end, n, hash, root, p)
              => /\ s.end <= n
                 /\ EntriesBetween(mine, s.start, s.end) = EntriesBetween(theirs, s.start, s.end)
=============================================================================

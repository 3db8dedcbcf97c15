--------------------------- MODULE CosignerPolicy ---------------------------
(***************************************************************************)
(* What a cosigner is prepared to sign: the checks of                      *)
(* Cosigner.sign_checkpoint and Cosigner.sign_subtree and of the           *)
(* IssuanceLogVerifier behind them (mtc/cosigner/service.py), as           *)
(* predicates over the stored checkpoint and the request.                  *)
(*                                                                         *)
(* Hashing is collision free: a checkpoint (tree size, root hash) is the   *)
(* sequence of entries it commits to, and a subtree hash the sequence of   *)
(* entries below it.  A consistency proof is the pair of tree heads it     *)
(* links: no proof links two heads of which one does not extend the other, *)
(* which is what the proof verifiers guarantee for Merkle trees.           *)
(*                                                                         *)
(* "Slip:" marks a plausible mistake in the definition after it, used only *)
(* to show that a property notices.                                        *)
(***************************************************************************)
EXTENDS Naturals, SequencesExt, CoverInterval

\* CosignerStateStore.load() returned None.
NoCheckpoint == <<>>

\* The first n entries of a log, as its checkpoint of that size.
CheckpointAt(log, n) == SubSeq(log, 1, n)

\* IssuanceLog.consistency_proof(m, n) over the entries of log.
CheckpointProof(log, m, n) ==
  [old |-> CheckpointAt(log, m), new |-> CheckpointAt(log, n)]

\* The signed object Subtree(start, end, hash) of a log.
SubtreeOf(log, i) ==
  [start |-> i.start, end |-> i.end, hash |-> SubSeq(log, i.start + 1, i.end)]

\* IssuanceLog.subtree_consistency_proof(start, end, n) over the entries of log.
SubtreeProof(log, i, n) ==
  [subtree |-> SubtreeOf(log, i), root |-> CheckpointAt(log, n)]

\* verify_initial_checkpoint: nothing stored yet, so the candidate must be a
\* checkpoint of the log that this cosigner can see itself.
VerifyInitialCheckpoint(candidate, mirror) ==
  /\ Len(candidate) \in 1 .. Len(mirror)
  /\ candidate = CheckpointAt(mirror, Len(candidate))

VerifyCheckpointConsistency(previous, candidate, proof) ==
  /\ proof.old = previous
  /\ proof.new = candidate

\* sign_checkpoint: the branch that returns the stored signature unchanged.
ReturnsStored(current, candidate) ==
  /\ current # NoCheckpoint
  /\ Len(candidate) = Len(current)
  /\ candidate = current

\* sign_checkpoint: the branches that produce a new signature.
SignsNew(current, candidate, proof, mirror) ==
  \/ /\ current = NoCheckpoint
     /\ VerifyInitialCheckpoint(candidate, mirror)
  \/ /\ current # NoCheckpoint
     /\ Len(candidate) > Len(current)
     /\ VerifyCheckpointConsistency(current, candidate, proof)

\* Slip: the checkpoint already stored is refused when it is asked for again.
AcceptsOnlyGrowth(current, candidate, proof, mirror) ==
  SignsNew(current, candidate, proof, mirror)

\* sign_checkpoint returns a signature rather than raising.
AcceptsCheckpoint(current, candidate, proof, mirror) ==
  \/ ReturnsStored(current, candidate)
  \/ SignsNew(current, candidate, proof, mirror)

\* Slip: the proof may be against any tree.
SignsSubtreeOfAnyTree(current, subtree, proof) ==
  /\ current # NoCheckpoint
  /\ subtree.end <= Len(current)
  /\ IsValidSubtree(subtree.start, subtree.end)
  /\ proof.subtree = subtree

\* sign_subtree: the subtree lies inside the stored checkpoint and either is
\* that checkpoint or is proved to be part of it.
SignsSubtree(current, subtree, proof) ==
  /\ current # NoCheckpoint
  /\ subtree.end <= Len(current)
  /\ IF subtree.start = 0 /\ subtree.end = Len(current)
     THEN subtree.hash = current
     ELSE /\ IsValidSubtree(subtree.start, subtree.end)
          /\ proof.subtree = subtree
          /\ proof.root = current
=============================================================================

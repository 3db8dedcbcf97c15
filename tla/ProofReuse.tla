----------------------------- MODULE ProofReuse -----------------------------
(***************************************************************************)
(* Reuse of inclusion proofs when a client moves to a later checkpoint or  *)
(* from the subtree of a full certificate to a landmark's:                 *)
(* mtc_opt/sync/proof_reuse.py.                                            *)
(*                                                                         *)
(* Results are sets of at most one value, empty where the code raises.     *)
(*                                                                         *)
(* "Slip:" marks a plausible mistake in the definition after it, used only *)
(* to show that a property notices.                                        *)
(***************************************************************************)
EXTENDS MerkleTree

Occurrences(node, proof) == Cardinality({ k \in DOMAIN proof : proof[k] = node })

\* compare_proof_nodes: how many nodes of the second proof the first supplies,
\* each as often as it has it.
ReusedNodes(first, second) ==
  MapThenSumSet(LAMBDA node : Min({Occurrences(node, first), Occurrences(node, second)}),
                ToSet(second))

\* The proof leads from the stored leaf hash to the stored subtree hash.
Evaluates(tree, index, start, end, proof) ==
  EvaluateInclusion(index, start, end, tree.leaves[index + 1], proof) = SubtreeHash(tree, start, end)

\* measure_inclusion_proof_reuse between the checkpoints of two sizes.
MeasureReuse(tree, index, m, n) ==
  LET first  == InclusionProof(tree, index, 0, m)
      second == InclusionProof(tree, index, 0, n)
  IN  IF /\ m <= n
         /\ Evaluates(tree, index, 0, m, first)
         /\ Evaluates(tree, index, 0, n, second)
      THEN {[reused |-> ReusedNodes(first, second),
             fresh  |-> Len(second) - ReusedNodes(first, second)]}
      ELSE {}

\* Slip: the nodes of the full proof may be anywhere in the landmark proof.
StartsWithAnywhere(landmarkNodes, fullNodes) == ToSet(fullNodes) \subseteq ToSet(landmarkNodes)

StartsWith(landmarkNodes, fullNodes) == IsPrefix(fullNodes, landmarkNodes)

\* convert_full_to_landmark: the inclusion proof in the landmark subtree.
ConvertFullToLandmark(tree, index, full, landmark) ==
  LET fullNodes     == InclusionProof(tree, index, full.start, full.end)
      landmarkNodes == InclusionProof(tree, index, landmark.start, landmark.end)
  IN  IF /\ IsValidSubtree(full.start, full.end) /\ full.end <= Size(tree)
         /\ IsValidSubtree(landmark.start, landmark.end) /\ landmark.end <= Size(tree)
         /\ full.start <= index /\ index < full.end
         /\ landmark.start <= full.start /\ full.end <= landmark.end
         /\ StartsWith(landmarkNodes, fullNodes)
         /\ Evaluates(tree, index, full.start, full.end, fullNodes)
         /\ Evaluates(tree, index, landmark.start, landmark.end, landmarkNodes)
      THEN {landmarkNodes} ELSE {}
=============================================================================

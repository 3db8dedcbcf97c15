SPECIFICATION Spec
CONSTANTS
  Null = null
  Entry = {null, a, b}
  Caller = {p1, p2}
  MaxSize = 3
  Candidates <- MCCandidates
  Proofs <- MCProofs
  Subtrees <- MCSubtrees
  SubtreeProofs <- MCSubtreeProofs
INVARIANTS
  TypeOK
  NoSplitView
  SignedSubtreesInHistory
PROPERTY
  KeepsPromise

SPECIFICATION WalkSpec
CONSTANT LogSize = 22
INVARIANTS
  CoverIsSound
  CoverIsTight
  RootsMatchMTH
  InclusionProofsVerify
  ConsistencyProofsVerify
  ProofsAreReused
CHECK_DEADLOCK FALSE

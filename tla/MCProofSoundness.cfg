SPECIFICATION PairSpec
CONSTANTS
  Value = {a, b}
  Same = a
  MaxLength = 7
INVARIANTS
  InclusionIsSound
  ConsistencyIsSound
CHECK_DEADLOCK FALSE

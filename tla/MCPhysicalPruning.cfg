SPECIFICATION Spec
CONSTANTS
  Entry = {a, b}
  Null = null
  NoBody = none
  MaxSize = 4
INVARIANT
  InclusionServed
CHECK_DEADLOCK FALSE

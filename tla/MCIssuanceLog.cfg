SPECIFICATION Spec
CONSTANTS
  Entry = {a, b}
  Null = null
  NoBody = none
  MaxSize = 5
INVARIANTS
  TypeOK
  AvailableEntriesServed
  AppendNeverFails
  WrittenFileLoads
  NoRootChanges
  CheckpointsServed
SYMMETRY EntrySymmetry
PROPERTY
  PublisherNeverRollsBack
CHECK_DEADLOCK FALSE

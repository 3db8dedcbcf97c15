SPECIFICATION Spec
CONSTANTS
  Null = null
  CertEntries = {a, b}
  MaxSize = 3
  Required = {1, 2}
  Entry <- MCEntry
  Heads <- MCHeads
INVARIANT
  CleanRunsSeeOneHistory
PROPERTY
  MemoryOnlyGrows

SPECIFICATION Spec
CONSTANTS
  Capacity = 0
  KeyCount = 4
  KeyHash <- MCKeyHash
  AlternateHash <- MCAlternateHash
  BucketSize = 1
  LoadPercent = 95
  MaxKicks = 3
  BuildAttempts = 2
  MaxLandmark = 5
  MaxActive = 3
  ActiveLandmarks = 2
  LandmarksPerFilter = 2
  Stride = 1
  ItemSets <- MCItemSets
  MaxExtras = 2
INVARIANTS
  NoFalseNegatives
  PersistedStateLoads
PROPERTY
  FailedInsertionChangesNothing

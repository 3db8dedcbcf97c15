SPECIFICATION Spec
CONSTANTS
  w1 = w1
  w2 = w2
  w3 = w3
  Null = null
  Entry = {a, b}
  Clients <- MCClients
  Required = 2
  DurableLog = FALSE
  MaxSize = 4
  MaxFaults = 3
INVARIANTS
  TypeOK
  ExternalsFollowCA
  PublishedIsBacked
  BatchCoversItsEntries
  RestartIsAccepted
PROPERTY
  KeepsPromise
CHECK_DEADLOCK FALSE

SPECIFICATION FairSpec
CONSTANTS
  w1 = w1
  w2 = w2
  w3 = w3
  Null = null
  Entry = {a}
  Clients <- MCClients
  Required = 2
  DurableLog = TRUE
  MaxSize = 4
  MaxFaults = 3
PROPERTIES
  JobEnds
  EntriesGetPublished
CHECK_DEADLOCK FALSE

SPECIFICATION CertSpec
CONSTANTS
  UintOctets = 2
  HashSize = 2
  LogText <- MCLogText
  PadsYears = FALSE
  SpkiHash <- MCSpkiHash
  MaxVaried = 3
  MaxCorrupted = 1
  Octets = {0, 1, 128, 255}
INVARIANTS
  AcceptedIsCanonical
  SinglePassAgrees
CHECK_DEADLOCK FALSE

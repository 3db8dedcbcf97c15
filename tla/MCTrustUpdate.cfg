SPECIFICATION Spec
CONSTANTS
  Null = null
  CertEntries = {a, b}
  MaxSize = 4
  MaxLandmarks = 2
  Entry <- MCEntry
  Heads <- MCHeads
  SequencesGiven <- MCSequences
  SignerSets <- MCSignerSets
  Configurations <- MCConfigurations
  RevocableRanges <- MCRanges
INVARIANTS
  TrustedRootsOfOneHistory
  AcceptedCertificatesStand
PROPERTY
  TrustNeverForks

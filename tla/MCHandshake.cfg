SPECIFICATION HandshakeSpec
CONSTANTS
  Lifetime = 1
  TimeBetweenLandmarks = 2
  MaxLandmarksChoices = {1, 2}
  Checkpoints = {2, 3, 5}
  MaxTime = 4
  MaxCertificates = 2
INVARIANTS
  LandmarkOutlivesCertificates
  PublicationServesClients
  FreshCapabilityIsTrusted
CHECK_DEADLOCK FALSE

CONSTANTS
  SessionIds = {s1, s2}
  NoSession = NoSession
  Handlers = {h1, h2}
  MaxDevices = 1
  MaxTime = 1
  MaxSecrets = 2
SPECIFICATION Spec
SYMMETRY IdSymmetry
INVARIANTS
  TypeOK
  DeviceCap
  HonestClientStays
PROPERTIES
  RevocationIsFinal

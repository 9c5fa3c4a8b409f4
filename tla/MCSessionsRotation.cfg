CONSTANTS
  SessionIds = {s1}
  NoSession = NoSession
  Handlers = {h1, h2}
  MaxDevices = 1
  MaxTime = 1
  MaxSecrets = 3
SPECIFICATION Spec
PROPERTY RotatesWhatItChecked

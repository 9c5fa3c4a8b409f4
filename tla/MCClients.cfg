SPECIFICATION ClientsSpec
CONSTANTS
  Slots = {h1, h2}
  Boxes = {b1, b2, b3}
  Typed = {b1, b2}
  Filters = {f1, f2}
  NoAsk = NoAsk
  Chatters = {p1, p2}
  NoChatter = NoChatter
  Online = {p1}
  PageSize = 1
  MaxSent = 2
  MaxTurns = 1
  MaxActs = 2
  Accounts = {u1, u2}
  Nobody = Nobody
  MaxFiles = 2
  MaxMade = 1
  MaxStreams = 2
  MaxAired = 2
  MaxVisits = 4
  MaxStories = 2
  MaxPresses = 3
SYMMETRY Symmetry
CHECK_DEADLOCK FALSE
INVARIANTS
  ClientsTypeOK
  MapIsAsAsked
  MessagesArriveOnce
  CallsAreRightful
  PanelsSettle
  StagesFit
  PublishesItsFile
  BroadcastAgrees
  StagePlaysItsOwn
  ReviewIsComplete

SPECIFICATION PlatformSpec
CONSTANTS
  Slots = {h1, h2}
  MaxAttempts = 1
  MaxChallenges = 1
  MaxEpoch = 1
  Limit = 2
  MaxCount = 4
  CategoryIds = {c1, c2}
  NoCategory = NoCategory
  MaxChosen = 1
  MaxListings = 1
  MaxRows = 3
  Agents = {a1, a2}
  MaxAssignments = 2
  MaxRequests = 3
  MaxReports = 2
  Authors = {w1, w2}
  MaxStarts = 1
  MaxLives = 2
  MaxPosts = 1
  MaxPosition = 2
  Nowhere = Nowhere
  MaxCell = 3
  Unplaced = Unplaced
  MaxEdits = 1
  MaxPlace = 3
SYMMETRY Symmetry
CHECK_DEADLOCK FALSE
INVARIANTS
  PlatformTypeOK
  SurvivorsWereInFlight
  ProofsAreSpent
  WindowHolds
  CatalogueIsWhole
  ConfiguredIsInForce
  DeskBooksAgree
  VerdictsHold
  ModerationStands
  AggregateCatchesUp
  LivesAreShown
  PublicFollowsExact
  HearsItsNeighbours
  FindsInOrder
PROPERTY
  ReopenedOnPurpose

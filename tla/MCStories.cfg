CONSTANTS
  StoryIds = {s1, s2}
  Members = {m1}
  Videos = {v1}
  Tracks = {t1}
  None = None
  Publishers = {p1}
  Jobs = {j1, j2}
  MaxActive = 2
  MaxPerHour = 2
  TtlHours = 1
  MaxRestarts = 1
SPECIFICATION Spec
SYMMETRY SlotSymmetry
INVARIANTS
  TypeOK
  ReadyHasPlaylist
  PublishedOnce
PROPERTIES
  HiddenIsNotPublished

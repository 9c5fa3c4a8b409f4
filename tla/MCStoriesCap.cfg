CONSTANTS
  StoryIds = {s1, s2, s3}
  Members = {m1, m2}
  Videos = {}
  Tracks = {}
  None = None
  Publishers = {p1, p2}
  Jobs = {}
  MaxActive = 1
  MaxPerHour = 2
  TtlHours = 2
  MaxRestarts = 1
SPECIFICATION Spec
SYMMETRY SlotSymmetry
INVARIANTS
  CapIsNearlyKept

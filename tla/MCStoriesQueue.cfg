CONSTANTS
  StoryIds = {s1, s2}
  Members = {m1}
  Videos = {v1, v2}
  Tracks = {}
  None = None
  Publishers = {p1}
  Jobs = {j1}
  MaxActive = 2
  MaxPerHour = 2
  TtlHours = 1
  MaxRestarts = 1
SPECIFICATION FairSpec
PROPERTIES
  DueIsServed

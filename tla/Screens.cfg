SPECIFICATION ScreensSpec
CONSTANTS
  Missions = {"m", "n"}
  Items = {"x", "y"}
  Stones = {"s"}
  Bodies <- MCBodies
  MaxWrites = 2
  MaxRuns = 3
INVARIANTS
  ScreensTyped
  TeamsAreSound
  ScreenIsTrue
PROPERTIES
  OnlyWithConsent
CHECK_DEADLOCK FALSE

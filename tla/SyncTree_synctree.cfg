SPECIFICATION Spec
CONSTANTS
  Paths <- MCPaths
  ViewPaths <- MCViewPaths
  WritePaths <- MCWritePaths
  Nil = Nil
  Initial = Initial
  Theirs = Theirs
  LastPut = 2
  MaxListens = 2
  MaxObserves = 2
  MaxTroubles = 1
INVARIANTS TypeOK VisibleIsLayered EventIsOverlay OneListenCovers  NeverOlder Converged AnswerOnItsWay
CHECK_DEADLOCK FALSE

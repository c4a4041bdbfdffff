CONSTANTS
  Accounts = {a1, a2}
  Nobody = Nobody
  Screens = {c1}
  NoScreen = NoScreen
  MaxTouches = 5
  MaxLost = 1
  LostCost = 1
SPECIFICATION FairSpec

PROPERTIES
  VerifiedEnters
  PollingEnds
CHECK_DEADLOCK FALSE

CONSTANTS
  p1 = p1
  p2 = p2
  r1 = r1
  r2 = r2
  Products = {p1}
  Restaurants = {r1}
  RestaurantOf <- OneMenu
  MaxAmount = 1
  Phones = {d1}
  Slots = {s1, s2}
  Numbers = {7}
  MaxOrders = 2
  MaxGestures = 4
  MaxFaults = 2
  FaultCost = 0
  MaxQueued = 1
  NoRestaurant = NoRestaurant
  StartBaskets <- LeftOver
  NoInfo = NoInfo
SPECIFICATION FairSpec
PROPERTIES
  SubmittedOrderArrives
  PressResolved
CHECK_DEADLOCK FALSE

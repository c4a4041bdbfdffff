CONSTANTS
  p1 = p1
  p2 = p2
  r1 = r1
  r2 = r2
  Products = {p1, p2}
  Restaurants = {r1, r2}
  RestaurantOf <- TwoMenus
  MaxAmount = 1
  Phones = {d1}
  Slots = {s1, s2}
  Numbers = {7}
  MaxOrders = 2
  MaxGestures = 7
  MaxFaults = 2
  FaultCost = 0
  MaxQueued = 2
  NoRestaurant = NoRestaurant
  StartBaskets <- NewAccount
  NoInfo = NoInfo
SPECIFICATION Spec
SYMMETRY Interchangeable
INVARIANTS
  TypeOK
  OneRestaurantPerBasket
  InfoImpliesProducts
  AtMostOneOrderPerTap
CHECK_DEADLOCK FALSE

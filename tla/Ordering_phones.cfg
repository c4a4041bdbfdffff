CONSTANTS
  p1 = p1
  p2 = p2
  r1 = r1
  r2 = r2
  Products = {p1}
  Restaurants = {r1}
  RestaurantOf <- OneMenu
  MaxAmount = 1
  Phones = {d1, d2}
  Slots = {s1, s2}
  Numbers = {7, 8}
  MaxOrders = 2
  MaxGestures = 4
  MaxFaults = 1
  FaultCost = 1
  MaxQueued = 1
  NoRestaurant = NoRestaurant
  StartBaskets <- LeftOver
  NoInfo = NoInfo
SPECIFICATION Spec
SYMMETRY Interchangeable
INVARIANTS
  ShownOrdersBacked
PROPERTIES
  BasketRemovedLast
  CompleteOrdersFinal
  OrdersAreAtomic
CHECK_DEADLOCK FALSE

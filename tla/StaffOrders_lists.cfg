CONSTANTS
  Names = {o1, o2}
  Restaurants = {r1, r2}
  Baskets = {b1}
  Nothing = Nothing
  Tablets = {t1, t2}
  MaxTouches = 5
SPECIFICATION FairSpec
INVARIANTS
  ListedAsComposed
PROPERTY PlacedIsListed
CHECK_DEADLOCK FALSE

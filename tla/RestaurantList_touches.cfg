CONSTANTS
  cafe = cafe
  oven = oven
  both = both
  coffee = coffee
  pizza = pizza
  Restaurants = {cafe, oven, both}
  NoRestaurant = NoRestaurant
  Categories = {coffee, pizza}
  CategoriesOf <- Menus
  Catalogues <- Lists
  MaxTouches = 5
SPECIFICATION Spec
INVARIANTS
  MenuOfRow

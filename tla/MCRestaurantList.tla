--------------------------- MODULE MCRestaurantList ---------------------------
(***************************************************************************)
(* Instances of RestaurantList for TLC: lists of up to four restaurants,   *)
(* one of them empty and one with the same restaurant twice.               *)
(***************************************************************************)
EXTENDS RestaurantList, TLC

CONSTANTS cafe, oven, both, coffee, pizza

Menus == (cafe :> {coffee}) @@ (oven :> {pizza}) @@ (both :> {coffee, pizza})

Lists == {<<>>, <<oven, cafe>>, <<oven, both, cafe>>, <<both, oven, both, cafe>>}
=============================================================================

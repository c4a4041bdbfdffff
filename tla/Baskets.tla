------------------------------ MODULE Baskets ------------------------------
(***************************************************************************)
(* The dictionary [ProductInfo : Int] that every screen of the customer    *)
(* application and the node Users/<user>/basket of the database hold, and  *)
(* the operations the menu screen performs on it.  A product whose amount  *)
(* came down to 0 stays a key of the dictionary: the code never removes    *)
(* one.                                                                    *)
(***************************************************************************)
EXTENDS Integers

CONSTANTS
  Products,      \* the catalogue, node "Products": the application only reads it
  Restaurants,   \* the identifiers that restaurantID refers to
  RestaurantOf,  \* field restaurantID of a product
  MaxAmount      \* bound on the amount of one product (the code has none)

ASSUME CatalogueAssumption == RestaurantOf \in [Products -> Restaurants]
ASSUME AmountAssumption == MaxAmount \in Nat \ {0}

Amounts == 0 .. MaxAmount

(* A dictionary is a function whose domain is its set of keys. *)
BasketOver(keys) == [keys -> Amounts]
AllBaskets == UNION {BasketOver(keys) : keys \in SUBSET Products}

(* Also what a read of an absent node decodes to, and what writing an      *)
(* empty array leaves: an absent node.                                     *)
EmptyBasket == [p \in {} |-> 0]

(* The rows of the menu of a restaurant: the products that                 *)
(* getProductsByIDRestaurant keeps.                                        *)
MenuOf(r) == {p \in Products : RestaurantOf[p] = r}

(* Mutant: any product may join any basket. *)
checkRestaurantIdSkipped(b, r) == {TRUE}

(* checkRestaurantId returns inside the first iteration over the keys, so  *)
(* it looks at one key in the dictionary's arbitrary order: the set of its *)
(* possible answers.                                                       *)
checkRestaurantId(b, r) ==
  IF DOMAIN b = {} THEN {TRUE} ELSE {RestaurantOf[p] = r : p \in DOMAIN b}

(* The add button of a row: a missing key starts at 0, then one more. *)
AddOne(b, p) ==
  [q \in DOMAIN b \cup {p} |-> IF q \notin DOMAIN b THEN 1
                               ELSE IF q = p THEN b[q] + 1 ELSE b[q]]

(* Mutant: the comparison with 0 is forgotten. *)
MinusOneUnguarded(b, p) == [q \in DOMAIN b |-> IF q = p THEN b[q] - 1 ELSE b[q]]

(* The minus button of a row whose product is a key: 0 stays 0. *)
MinusOne(b, p) ==
  [q \in DOMAIN b |-> IF q = p /\ b[q] # 0 THEN b[q] - 1 ELSE b[q]]

(* Every key belongs to restaurant r. *)
OnlyFrom(b, r) == \A p \in DOMAIN b : RestaurantOf[p] = r

(* All keys belong to the same restaurant. *)
SingleRestaurant(b) ==
  \A p, q \in DOMAIN b : RestaurantOf[p] = RestaurantOf[q]
=============================================================================

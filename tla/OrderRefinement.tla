--------------------------- MODULE OrderRefinement ---------------------------
(***************************************************************************)
(* Ordering implements OrderLifecycle: what is composed is what makeOrder  *)
(* puts in its array and dictionary, storing begins with the products      *)
(* node, and an order is placed when the info node, by which the staff     *)
(* application selects orders, appears.                                    *)
(***************************************************************************)
EXTENDS Ordering

(* Products of one restaurant, and an info that names it. *)
Composable ==
  {c \in Contents : /\ c.basket # EmptyBasket /\ c.info # NoInfo
                    /\ OnlyFrom(c.basket, c.info.restaurant)}

begun == {o \in Orders : dbProducts[o] # EmptyBasket}

(* What loadAllOrders finds of an order. *)
placed == [o \in Orders |-> IF dbInfo[o] = NoInfo THEN NotMade
                            ELSE [basket |-> dbProducts[o], info |-> dbInfo[o]]]

Lifecycle == INSTANCE OrderLifecycle
  WITH Names <- Orders, Contents <- Composable, Nothing <- NotMade,
       composed <- made

(* Every step of phones and server is, for one order, composing it,        *)
(* beginning to store it or placing it as composed, or changes no order at *)
(* all: so do the resends of makeOrder's writes, and the taps, kills and   *)
(* lost connections between them.                                          *)
OrdersAreAtomic == Lifecycle!Spec
=============================================================================

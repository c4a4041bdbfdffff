----------------------------- MODULE StaffOrders -----------------------------
(***************************************************************************)
(* The application of the staff, QFreeStuff, next to the orders it shows.  *)
(* What customers' phones and the server do to orders is OrderLifecycle,   *)
(* which Ordering implements (module OrderRefinement): an order may be     *)
(* composed, begun or placed at any moment, also while a tablet reads.     *)
(*                                                                         *)
(* A tablet opens the orders of a restaurant, reads them once, shows the   *)
(* one that is touched beside the list, and lets the staff complete it.    *)
(***************************************************************************)
EXTENDS Integers

CONSTANTS
  Names,       \* the orders, by the name of their node
  Restaurants,
  Baskets,     \* products and amounts of an order
  Nothing,     \* an order, a restaurant or a selection that does not exist
  Tablets,
  MaxTouches   \* bound: touches of all tablets

Contents == [restaurant : Restaurants, basket : Baskets]

ASSUME StaffAssumption ==
  Nothing \notin Contents \cup Restaurants \cup Names /\ MaxTouches \in Nat

VARIABLES
  composed, begun, placed, \* see OrderLifecycle
  restaurant, \* per tablet: whose orders are open, or Nothing
  reading,    \* per tablet: the read of loadAllOrders
  answer,     \* per tablet: what it returned
  orders,     \* per tablet: the listed orders and their contents
  panel,      \* per tablet: the order shown beside the list, and its status
  touches

customers == <<composed, begun, placed>>
tablets == <<restaurant, reading, answer, orders, panel, touches>>
vars == <<composed, begun, placed, restaurant, reading, answer, orders, panel,
          touches>>

Lifecycle == INSTANCE OrderLifecycle

(* A list of orders: some names, each with its contents. *)
Lists == UNION {[found -> Contents] : found \in SUBSET Names}
NoOrders == [o \in {} |-> Nothing]
Selection(o, s) == [order |-> o, status |-> s]

TypeOK ==
  /\ composed \in [Names -> Contents \cup {Nothing}]
  /\ placed \in [Names -> Contents \cup {Nothing}]
  /\ begun \subseteq Names
  /\ restaurant \in [Tablets -> Restaurants \cup {Nothing}]
  /\ reading \in [Tablets -> {"none", "sent", "answered"}]
  /\ answer \in [Tablets -> Lists]
  /\ orders \in [Tablets -> Lists]
  /\ panel \in [Tablets -> [order : Names \cup {Nothing}, status : {0, 1}]]
  /\ touches \in 0 .. MaxTouches

Init ==
  /\ Lifecycle!Init
  /\ restaurant = [t \in Tablets |-> Nothing]
  /\ reading = [t \in Tablets |-> "none"]
  /\ answer = [t \in Tablets |-> NoOrders]
  /\ orders = [t \in Tablets |-> NoOrders]
  /\ panel = [t \in Tablets |-> Selection(Nothing, 0)]
  /\ touches = 0

-----------------------------------------------------------------------------
(* Mutants: the restaurant is not compared; the loop returns at the first  *)
(* order.                                                                  *)
FoundAnywhere(r) == {o \in Names : placed[o] # Nothing}
FoundFirst(r) ==
  {o \in Names : /\ placed[o] # Nothing /\ placed[o].restaurant = r
                 /\ \A p \in Names \ {o} : placed[p] = Nothing}

(* loadAllOrders: the orders of all users that have an info node naming    *)
(* the restaurant.  Orders without one are skipped.                        *)
Found(r) == {o \in Names : placed[o] # Nothing /\ placed[o].restaurant = r}

(* A touch of a restaurant: the two screens beside each other are built,   *)
(* and the list loads its orders; no connection guard, no retry, no later  *)
(* read.                                                                   *)
OpenOrders(t, r) ==
  /\ restaurant[t] = Nothing
  /\ restaurant' = [restaurant EXCEPT ![t] = r]
  /\ reading' = [reading EXCEPT ![t] = "sent"]
  /\ UNCHANGED <<customers, answer, orders, panel>>

(* The button "leave": the screens are dismissed; an answer still to come  *)
(* finds no view controller.                                               *)
closeOrders(t) ==
  /\ restaurant[t] # Nothing
  /\ restaurant' = [restaurant EXCEPT ![t] = Nothing]
  /\ reading' = [reading EXCEPT ![t] = "none"]
  /\ answer' = [answer EXCEPT ![t] = NoOrders]
  /\ orders' = [orders EXCEPT ![t] = NoOrders]
  /\ panel' = [panel EXCEPT ![t] = Selection(Nothing, 0)]
  /\ UNCHANGED customers

Answer(t) ==
  /\ reading[t] = "sent"
  /\ reading' = [reading EXCEPT ![t] = "answered"]
  /\ answer' = [answer EXCEPT ![t] = [o \in Found(restaurant[t]) |-> placed[o]]]
  /\ UNCHANGED <<customers, restaurant, orders, panel, touches>>

GotOrders(t) ==
  /\ reading[t] = "answered"
  /\ reading' = [reading EXCEPT ![t] = "none"]
  /\ orders' = [orders EXCEPT ![t] = answer[t]]
  /\ UNCHANGED <<customers, restaurant, answer, panel, touches>>

(* didSelectRowAt: the panel gets the list's copy of the order, with the   *)
(* status that was read, which makeOrder has written as 0.                 *)
updateOrderInfo(t, o) ==
  /\ o \in DOMAIN orders[t]
  /\ panel' = [panel EXCEPT ![t] = Selection(o, 0)]
  /\ UNCHANGED <<customers, restaurant, reading, answer, orders>>

(* The button of the panel changes the panel's copy, not the list's and    *)
(* not the database's.                                                     *)
completeOrder(t) ==
  /\ panel[t].order # Nothing
  /\ panel' = [panel EXCEPT ![t] = Selection(panel[t].order, 1)]
  /\ UNCHANGED <<customers, restaurant, reading, answer, orders>>

Staff(t) ==
  /\ touches < MaxTouches /\ touches' = touches + 1
  /\ \/ \E r \in Restaurants : OpenOrders(t, r)
     \/ closeOrders(t)
     \/ \E o \in Names : updateOrderInfo(t, o)
     \/ completeOrder(t)

Customers == Lifecycle!Next /\ UNCHANGED tablets

Next == Customers \/ \E t \in Tablets : Staff(t) \/ Answer(t) \/ GotOrders(t)

Spec == Init /\ [][Next]_vars

(* The database answers and the main queue runs the callback. *)
FairSpec ==
  Spec /\ \A t \in Tablets : WF_vars(Answer(t)) /\ WF_vars(GotOrders(t))

-----------------------------------------------------------------------------
(* Properties *)

(* What a tablet lists are placed orders of its restaurant, with all of    *)
(* the contents the customer's phone composed, although phones write each  *)
(* order in parts while tablets read.                                      *)
ListedAsComposed ==
  \A t \in Tablets : \A o \in DOMAIN orders[t] :
    orders[t][o] = composed[o] /\ composed[o].restaurant = restaurant[t]

(* An order placed before a tablet reads is listed, unless the screen is   *)
(* closed.                                                                 *)
PlacedIsListed ==
  \A t \in Tablets, o \in Names, r \in Restaurants :
    (reading[t] = "sent" /\ restaurant[t] = r /\ o \in Found(r))
      ~> (o \in DOMAIN orders[t] \/ restaurant[t] = Nothing)
=============================================================================

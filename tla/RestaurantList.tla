---------------------------- MODULE RestaurantList ----------------------------
(***************************************************************************)
(* The first tab of the customer application: the list of restaurants, the *)
(* row of categories above it that filters the list, and the menu a touch  *)
(* opens.  The list is read once per process, when the screen loads;       *)
(* categories may be touched before it arrives.                            *)
(*                                                                         *)
(* A menu is identified by the position of its restaurant in the list of   *)
(* all restaurants (restaurantID), not by its row.                         *)
(***************************************************************************)
EXTENDS Integers, SequencesExt

CONSTANTS
  Restaurants,  \* values of the struct Restaurant, equal in all fields or not
  NoRestaurant,
  Categories,
  CategoriesOf, \* field category of a restaurant
  Catalogues,   \* what the node Restaurants may hold: sequences of restaurants
  MaxTouches    \* bound: touches of categories and restaurants

ASSUME ListAssumption ==
  /\ NoRestaurant \notin Restaurants
  /\ CategoriesOf \in [Restaurants -> SUBSET Categories]
  /\ Catalogues \subseteq Seq(Restaurants)
  /\ MaxTouches \in Nat

VARIABLES
  online,      \* whether FirebaseHandler finds a network
  request,     \* the read of the list
  answer,      \* what it returned
  alert,       \* the no-internet alert is on the screen
  list,        \* restaurants
  rows,        \* selectedRestaurants
  highlighted, \* categories
  menu,        \* the pushed menu: position of its restaurant in the list, or 0
  touched,     \* history: the restaurant whose row opened the menu
  touches

reading == <<request, answer, alert>>
screen == <<list, rows, highlighted>>
pushed == <<menu, touched>>
vars == <<online, request, answer, alert, list, rows, highlighted, menu, touched, touches>>

Init ==
  /\ online \in BOOLEAN
  /\ request = "unloaded" /\ answer = <<>> /\ alert = FALSE
  /\ list = <<>> /\ rows = <<>> /\ highlighted = {}
  /\ menu = 0 /\ touched = NoRestaurant /\ touches = 0

-----------------------------------------------------------------------------
(* Reading the list *)

(* fetchResultsInfo: the read starts, or the no-internet alert is          *)
(* presented, which shows up if the set shown contains TRUE.               *)
fetchResultsInfo(shown) ==
  \/ online /\ request' = "sent" /\ alert' = FALSE
  \/ ~online /\ request' = "none" /\ alert' \in shown

(* The screen is not in a window yet, so its alert may be dropped. *)
viewDidLoad ==
  /\ request = "unloaded"
  /\ fetchResultsInfo(BOOLEAN)
  /\ UNCHANGED <<online, answer, screen, pushed, touches>>

(* OK of the alert. *)
Retry ==
  /\ alert
  /\ fetchResultsInfo({TRUE})
  /\ UNCHANGED <<online, answer, screen, pushed, touches>>

Answer ==
  /\ online /\ request = "sent"
  /\ request' = "answered" /\ answer' \in Catalogues
  /\ UNCHANGED <<online, alert, screen, pushed, touches>>

(* invalidResponse: nobody is told. *)
Refuse ==
  /\ online /\ request = "sent" /\ request' = "none"
  /\ UNCHANGED <<online, answer, alert, screen, pushed, touches>>

(* The list arrives; the highlighted category is not looked at. *)
update ==
  /\ request = "answered" /\ request' = "none"
  /\ list' = answer /\ rows' = answer
  /\ UNCHANGED <<online, answer, alert, highlighted, pushed, touches>>

ChangeNetwork ==
  /\ online' = ~online
  /\ UNCHANGED <<reading, screen, pushed, touches>>

-----------------------------------------------------------------------------
(* Touches: didSelectItemAt *)

(* The loop over restaurants: those of category k, equal ones once. *)
Filtered(k) ==
  FoldLeft(LAMBDA found, r :
             IF k \in CategoriesOf[r] /\ ~Contains(found, r)
             THEN Append(found, r) ELSE found, <<>>, list)

(* What is shown after a touch of category k that leaves these highlighted. *)
SelectedRows(k, marks) == IF marks = {} THEN list ELSE Filtered(k)

TouchCategory(k) ==
  /\ ~alert /\ menu = 0
  /\ touches < MaxTouches /\ touches' = touches + 1
  /\ highlighted' = IF k \in highlighted THEN highlighted \ {k} ELSE {k}
  /\ rows' = SelectedRows(k, highlighted')
  /\ UNCHANGED <<online, reading, list, pushed>>

(* Mutant: the menu is named by the row of its restaurant. *)
restaurantIDOfRow(i) == i

(* firstIndex(of:) in the list of all restaurants. *)
restaurantID(i) == SelectInSeq(list, LAMBDA r : r = rows[i])

TouchRestaurant(i) ==
  /\ ~alert /\ menu = 0 /\ i \in DOMAIN rows
  /\ touches < MaxTouches /\ touches' = touches + 1
  /\ menu' = restaurantID(i) /\ touched' = rows[i]
  /\ UNCHANGED <<online, reading, screen>>

Back ==
  /\ menu # 0
  /\ menu' = 0 /\ touched' = NoRestaurant
  /\ UNCHANGED <<online, reading, screen, touches>>

Next ==
  \/ viewDidLoad \/ Retry \/ Answer \/ Refuse \/ update \/ ChangeNetwork \/ Back
  \/ \E k \in Categories : TouchCategory(k)
  \/ \E i \in 1 .. Len(rows) : TouchRestaurant(i)

Spec == Init /\ [][Next]_vars

-----------------------------------------------------------------------------
(* Properties *)

(* The menu that opens is the one of the restaurant that was touched,      *)
(* under every filter and when the list holds a restaurant twice; the      *)
(* force-unwrapped position exists.                                        *)
MenuOfRow == touched # NoRestaurant => menu \in DOMAIN list /\ list[menu] = touched
=============================================================================

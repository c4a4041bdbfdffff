------------------------------ MODULE Ordering ------------------------------
(***************************************************************************)
(* One customer account, used from several phones: the menu screen edits a *)
(* local copy of the basket and writes it back when it disappears, the     *)
(* basket screen turns the basket into an order by three separate writes,  *)
(* the orders screen lists the orders.  All of them go through             *)
(* FirebaseHandler, whose requests to the Realtime Database are            *)
(* asynchronous.                                                           *)
(*                                                                         *)
(* The database and its client library are external.  They are modelled by *)
(* what the calls in FirebaseHandler rely on: a write is queued in memory, *)
(* visible at once to the phone's own reads, applied by the server in      *)
(* order, and sent again after a reconnection until it is acknowledged; a  *)
(* read is answered some time later and its callback runs later still.     *)
(***************************************************************************)
EXTENDS Baskets, Sequences, FiniteSets

CONSTANTS
  Phones,        \* devices signed in to the account
  Slots,         \* bound: reads a phone may have outstanding
  Numbers,       \* the pickup numbers that Int.random(in: 1..<100) draws from
  MaxOrders,     \* bound: orders ever created; an order is named by its time
  MaxGestures,   \* bound: how often users touch a screen, over all phones
  MaxFaults,     \* bound: kills, disconnections, resends and refusals
  FaultCost,     \* 1 to count faults against MaxFaults, 0 to allow any number
  MaxQueued,     \* bound: writes a phone has queued when a screen adds more
  StartBaskets,  \* what earlier sessions may have left on the server
  NoRestaurant,  \* no menu is open
  NoInfo         \* node "info" of an order is absent

ASSUME OrderingAssumption ==
  /\ IsFiniteSet(Phones) /\ IsFiniteSet(Slots)
  /\ Numbers \subseteq Nat \ {0}
  /\ MaxOrders \in Nat
  /\ MaxGestures \in Nat
  /\ MaxFaults \in Nat
  /\ FaultCost \in {0, 1}
  /\ MaxQueued \in Nat \ {0}
  /\ StartBaskets \subseteq {b \in AllBaskets : SingleRestaurant(b)}
  /\ NoRestaurant \notin Restaurants
  /\ NoInfo \notin [restaurant : Restaurants, number : Numbers]

VARIABLES
  dbBasket,      \* server: Users/<user>/basket
  dbProducts,    \* server: Users/<user>/orders/<o>/products, empty if absent
  dbInfo,        \* server: Users/<user>/orders/<o>/info
  online,        \* per phone: the network is reachable
  outbox,        \* per phone: writes not yet acknowledged, oldest first
  sent,          \* per phone: how many of them the server has applied
  reads,         \* per phone: the outstanding reads, by slot
  up,            \* per phone: the process runs
  tab,           \* per phone: the selected tab
  menu,          \* per phone: the restaurant of the menu on the first tab
  menuBasket,    \* per phone: the menu's copy of the basket
  menuRows,      \* per phone: the menu's rows
  cart,          \* per phone: the basket screen's copy of the basket
  sheet,         \* per phone: the alert or modal screen presented on top
  shown,         \* per phone: the orders listed by the orders screen
  clock,         \* the number of orders created so far
  made,          \* history: what makeOrder composed for each order
  taps,          \* taps on the order button so far
  gestures,      \* touches of any screen so far
  faults,        \* faults so far
  traps          \* the force-unwraps that have failed so far

server == <<dbBasket, dbProducts, dbInfo>>
link == <<online, outbox, sent>>
menuVars == <<menu, menuBasket, menuRows>>
screens == <<up, tab, menu, menuBasket, menuRows, cart, sheet, shown>>
tallies == <<clock, made, taps, traps>>
budgets == <<gestures, faults>>
counters == <<clock, made, taps, traps, gestures, faults>>
vars == <<dbBasket, dbProducts, dbInfo, online, outbox, sent, reads, up, tab,
          menu, menuBasket, menuRows, cart, sheet, shown, clock, made,
          taps, traps, gestures, faults>>

-----------------------------------------------------------------------------
(* Values *)

Orders == 1 .. MaxOrders
Infos == [restaurant : Restaurants, number : Numbers]
Tabs == {"restaurants", "orders", "basket"}

BasketReads == {"menuBasket", "basketView", "orderBasket"}
ReadKinds == BasketReads \cup
             {"menuProducts", "press", "ordersRestaurants", "orders"}

(* A read: what it asks for, whether its answer has reached the phone, the *)
(* answer (a basket, or the orders that have each of their two nodes), and *)
(* the number that makeOrder's closure captures.                           *)
Reads ==
  {r \in [kind : ReadKinds \cup {"idle"}, phase : {"sent", "answered"},
          basket : AllBaskets, products : SUBSET Orders,
          infos : SUBSET Orders, number : Numbers \cup {0}] :
     r.kind = "orderBasket" => r.number \in Numbers}

SentWith(k, n) == [kind |-> k, phase |-> "sent", basket |-> EmptyBasket,
                   products |-> {}, infos |-> {}, number |-> n]
Sent(k) == SentWith(k, 0)

Writes == [kind : {"basket", "products", "info", "remove"},
           order : Orders \cup {0}, basket : AllBaskets,
           info : Infos \cup {NoInfo}]

BasketWrite(b) ==
  [kind |-> "basket", order |-> 0, basket |-> b, info |-> NoInfo]
ProductsWrite(o, b) ==
  [kind |-> "products", order |-> o, basket |-> b, info |-> NoInfo]
InfoWrite(o, i) ==
  [kind |-> "info", order |-> o, basket |-> EmptyBasket, info |-> i]
RemoveWrite(o) ==
  [kind |-> "remove", order |-> o, basket |-> EmptyBasket, info |-> NoInfo]

(* What makeOrder composes for an order: the array products and the        *)
(* dictionary info.                                                        *)
Contents == [basket : AllBaskets, info : Infos \cup {NoInfo}]
NotMade == [basket |-> EmptyBasket, info |-> NoInfo]

Sheets == [kind : {"none", "clear", "retryBasket", "retryOrder", "confirm"},
           order : Orders \cup {0}]
Sheet(k) == [kind |-> k, order |-> 0]
Confirm(o) == [kind |-> "confirm", order |-> o]

(* Types of the variables. *)
TypeOK ==
  /\ dbBasket \in AllBaskets
  /\ dbProducts \in [Orders -> AllBaskets]
  /\ dbInfo \in [Orders -> Infos \cup {NoInfo}]
  /\ online \in [Phones -> BOOLEAN]
  /\ outbox \in [Phones -> Seq(Writes)]
  /\ sent \in [Phones -> Nat]
  /\ \A d \in Phones : sent[d] <= Len(outbox[d])
  /\ reads \in [Phones -> [Slots -> Reads]]
  /\ up \in [Phones -> BOOLEAN]
  /\ tab \in [Phones -> Tabs]
  /\ menu \in [Phones -> Restaurants \cup {NoRestaurant}]
  /\ menuBasket \in [Phones -> AllBaskets]
  /\ menuRows \in [Phones -> SUBSET Products]
  /\ cart \in [Phones -> AllBaskets]
  /\ sheet \in [Phones -> Sheets]
  /\ shown \in [Phones -> SUBSET Orders]
  /\ clock \in 0 .. MaxOrders
  /\ made \in [Orders -> Contents]
  /\ taps \in Nat
  /\ gestures \in 0 .. MaxGestures
  /\ faults \in 0 .. MaxFaults
  /\ traps \in SUBSET {"minus", "makeOrder", "getOrders"}

NoReads == [s \in Slots |-> Sent("idle")]

Init ==
  /\ dbBasket \in StartBaskets
  /\ dbProducts = [o \in Orders |-> EmptyBasket]
  /\ dbInfo = [o \in Orders |-> NoInfo]
  /\ online = [d \in Phones |-> TRUE]
  /\ outbox = [d \in Phones |-> <<>>]
  /\ sent = [d \in Phones |-> 0]
  /\ reads = [d \in Phones |-> NoReads]
  /\ up = [d \in Phones |-> TRUE]
  /\ tab = [d \in Phones |-> "restaurants"]
  /\ menu = [d \in Phones |-> NoRestaurant]
  /\ menuBasket = [d \in Phones |-> EmptyBasket]
  /\ menuRows = [d \in Phones |-> {}]
  /\ cart = [d \in Phones |-> EmptyBasket]
  /\ sheet = [d \in Phones |-> Sheet("none")]
  /\ shown = [d \in Phones |-> {}]
  /\ clock = 0
  /\ made = [o \in Orders |-> NotMade]
  /\ taps = 0
  /\ gestures = 0
  /\ faults = 0
  /\ traps = {}

-----------------------------------------------------------------------------
(* The client library *)

IdleIn(rs) == {s \in Slots : rs[s].kind = "idle"}

(* Calls that pass the isConnected guard of FirebaseHandler and start the  *)
(* reads of kinds K on top of the outstanding ones rs, each in a slot of   *)
(* its own.  Without a network the guard calls the completion with         *)
(* noInternetConnection and no read starts.                                *)
Request(d, rs, K) ==
  LET free == IdleIn(rs)
      wanted == IF online[d] THEN K ELSE {}
  IN \E g \in [free -> wanted \cup {"idle"}] :
       /\ \A k \in wanted : \E s \in free : \A t \in free : (g[t] = k) <=> (t = s)
       /\ reads' = [reads EXCEPT ![d] =
                      [s \in Slots |-> IF s \in free THEN Sent(g[s]) ELSE rs[s]]]

IsBasketWrite(w) == w.kind \in {"basket", "remove"}

(* The youngest unacknowledged write of the basket node, if there is one. *)
PendingBasket(d) ==
  {outbox[d][i].basket : i \in {i \in 1 .. Len(outbox[d]) :
      /\ IsBasketWrite(outbox[d][i])
      /\ \A j \in 1 .. Len(outbox[d]) : IsBasketWrite(outbox[d][j]) => j <= i}}

(* The basket a read of the phone returns: its own writes hide the         *)
(* server's value.                                                         *)
VisibleBasket(d) ==
  IF PendingBasket(d) = {} THEN {dbBasket} ELSE PendingBasket(d)

Queued(d, kind, o) ==
  \E i \in 1 .. Len(outbox[d]) : outbox[d][i].kind = kind /\ outbox[d][i].order = o

VisibleProducts(d) ==
  {o \in Orders : dbProducts[o] # EmptyBasket \/ Queued(d, "products", o)}
VisibleInfos(d) ==
  {o \in Orders : dbInfo[o] # NoInfo \/ Queued(d, "info", o)}

(* A read gets its answer: from the server, or at once when a write of the *)
(* phone already determines the whole node.                                *)
Answer(d, s) ==
  /\ up[d]
  /\ reads[d][s].kind # "idle" /\ reads[d][s].phase = "sent"
  /\ \/ online[d]
     \/ reads[d][s].kind \in BasketReads /\ PendingBasket(d) # {}
  /\ LET r == reads[d][s]
         listing == r.kind = "orders"
     IN \E b \in IF r.kind \in BasketReads THEN VisibleBasket(d) ELSE {EmptyBasket} :
          reads' = [reads EXCEPT ![d][s] =
            [kind |-> r.kind, phase |-> "answered", basket |-> b,
             products |-> IF listing THEN VisibleProducts(d) ELSE {},
             infos |-> IF listing THEN VisibleInfos(d) ELSE {},
             number |-> r.number]]
  /\ UNCHANGED <<server, link, screens, counters>>

(* observeSingleEvent: the callback runs once. *)
Settle(d, s) == reads' = [reads EXCEPT ![d][s] = Sent("idle")]

(* The server refuses a read: the completion gets invalidResponse, which   *)
(* every caller ignores (getOrders has no cancel block at all).            *)
Refuse(d, s) ==
  /\ up[d] /\ online[d]
  /\ reads[d][s].kind # "idle" /\ reads[d][s].phase = "sent"
  /\ Settle(d, s)
  /\ UNCHANGED <<server, link, screens, tallies>>

(* The server applies the next write of the phone's queue. *)
ServerApply(d) ==
  /\ online[d] /\ sent[d] < Len(outbox[d])
  /\ LET w == outbox[d][sent[d] + 1] IN
     /\ dbBasket' = IF IsBasketWrite(w) THEN w.basket ELSE dbBasket
     /\ dbProducts' = IF w.kind = "products"
                      THEN [dbProducts EXCEPT ![w.order] = w.basket]
                      ELSE dbProducts
     /\ dbInfo' = IF w.kind = "info"
                  THEN [dbInfo EXCEPT ![w.order] = w.info] ELSE dbInfo
  /\ sent' = [sent EXCEPT ![d] = @ + 1]
  /\ UNCHANGED <<online, outbox, reads, screens, counters>>

(* The acknowledgement of the oldest applied write arrives. *)
Acknowledge(d) ==
  /\ online[d] /\ sent[d] > 0
  /\ outbox' = [outbox EXCEPT ![d] = Tail(@)]
  /\ sent' = [sent EXCEPT ![d] = @ - 1]
  /\ UNCHANGED <<server, online, reads, screens, counters>>

(* The connection is replaced: every unacknowledged write is sent again. *)
Reconnect(d) ==
  /\ online[d] /\ sent[d] > 0
  /\ sent' = [sent EXCEPT ![d] = 0]
  /\ UNCHANGED <<server, online, outbox, reads, screens, tallies>>

GoOffline(d) ==
  /\ online[d]
  /\ online' = [online EXCEPT ![d] = FALSE]
  /\ sent' = [sent EXCEPT ![d] = 0]
  /\ UNCHANGED <<server, outbox, reads, screens, tallies>>

GoOnline(d) ==
  /\ ~online[d]
  /\ online' = [online EXCEPT ![d] = TRUE]
  /\ UNCHANGED <<server, outbox, sent, reads, screens, counters>>

-----------------------------------------------------------------------------
(* The process *)

(* The process ends, killed by the system or by a failed force-unwrap.     *)
(* Persistence is not enabled, so the queue of writes dies with it.        *)
EndProcess(d, sites) ==
  /\ up' = [up EXCEPT ![d] = FALSE]
  /\ outbox' = [outbox EXCEPT ![d] = <<>>]
  /\ sent' = [sent EXCEPT ![d] = 0]
  /\ reads' = [reads EXCEPT ![d] = NoReads]
  /\ tab' = [tab EXCEPT ![d] = "restaurants"]
  /\ menu' = [menu EXCEPT ![d] = NoRestaurant]
  /\ menuBasket' = [menuBasket EXCEPT ![d] = EmptyBasket]
  /\ menuRows' = [menuRows EXCEPT ![d] = {}]
  /\ cart' = [cart EXCEPT ![d] = EmptyBasket]
  /\ sheet' = [sheet EXCEPT ![d] = Sheet("none")]
  /\ shown' = [shown EXCEPT ![d] = {}]
  /\ traps' = traps \cup sites
  /\ UNCHANGED <<server, online, clock, made, taps>>

Kill(d) == up[d] /\ EndProcess(d, {})

(* The user is still signed in: SceneDelegate builds the tab bar. *)
Launch(d) ==
  /\ ~up[d]
  /\ up' = [up EXCEPT ![d] = TRUE]
  /\ UNCHANGED <<server, link, reads, tab, menuVars, cart, sheet, shown, counters>>

-----------------------------------------------------------------------------
(* Screens: what the user may touch, and what appearing and disappearing do *)

Touchable(d) == up[d] /\ sheet[d].kind = "none"

MenuVisible(d) == tab[d] = "restaurants" /\ menu[d] # NoRestaurant

(* A screen of the basket tab presents an alert or a modal screen.  UIKit  *)
(* drops it when the tab is not visible or something is presented already. *)
Present(d, sh) ==
  sheet' = IF tab[d] = "basket" /\ sheet[d].kind = "none"
           THEN [sheet EXCEPT ![d] = sh] ELSE sheet

(* viewWillDisappear of the menu: postBasket queues a write of the whole   *)
(* local basket.  Without a network it presents its alert on a view        *)
(* controller outside the window, so nothing happens and nobody retries.   *)
postBasket(d) ==
  /\ Len(outbox[d]) < MaxQueued
  /\ outbox' = IF online[d]
               THEN [outbox EXCEPT ![d] = Append(@, BasketWrite(menuBasket[d]))]
               ELSE outbox

LeaveTab(d) == IF MenuVisible(d) THEN postBasket(d) ELSE UNCHANGED outbox

(* viewWillAppear of the screen on top of tab t. *)
ReadsOnAppear(d, t) ==
  IF t = "basket" THEN {"basketView"}
  ELSE IF t = "orders" THEN {"ordersRestaurants"}
  ELSE IF menu[d] = NoRestaurant THEN {}
  ELSE {"menuBasket", "menuProducts"}

(* Without a network the basket screen asks to retry; an alert presented   *)
(* from viewWillAppear may or may not make it to the screen.               *)
SheetOnAppear(d, t) ==
  IF t = "basket" /\ ~online[d]
  THEN \E k \in {"none", "retryBasket"} : sheet' = [sheet EXCEPT ![d] = Sheet(k)]
  ELSE UNCHANGED sheet

SelectTab(d, t) ==
  /\ Touchable(d) /\ t # tab[d]
  /\ LeaveTab(d)
  /\ Request(d, reads[d], ReadsOnAppear(d, t))
  /\ SheetOnAppear(d, t)
  /\ tab' = [tab EXCEPT ![d] = t]
  /\ UNCHANGED <<server, online, sent, up, menuVars, cart, shown, tallies>>

(* pushMenuVC: a new menu, with an empty local basket until the read ends. *)
OpenMenu(d, r) ==
  /\ Touchable(d) /\ tab[d] = "restaurants" /\ menu[d] = NoRestaurant
  /\ menu' = [menu EXCEPT ![d] = r]
  /\ menuBasket' = [menuBasket EXCEPT ![d] = EmptyBasket]
  /\ menuRows' = [menuRows EXCEPT ![d] = {}]
  /\ Request(d, reads[d], {"menuBasket", "menuProducts"})
  /\ UNCHANGED <<server, link, up, tab, cart, sheet, shown, tallies>>

(* Back: the menu posts its basket and is gone; callbacks still to come    *)
(* change a screen nobody will see again.                                  *)
CloseMenu(d) ==
  /\ Touchable(d) /\ MenuVisible(d)
  /\ postBasket(d)
  /\ menu' = [menu EXCEPT ![d] = NoRestaurant]
  /\ menuBasket' = [menuBasket EXCEPT ![d] = EmptyBasket]
  /\ menuRows' = [menuRows EXCEPT ![d] = {}]
  /\ reads' = [reads EXCEPT ![d] = [s \in Slots |->
                 IF @[s].kind \in {"menuBasket", "menuProducts"}
                 THEN Sent("idle") ELSE @[s]]]
  /\ UNCHANGED <<server, online, sent, up, tab, cart, sheet, shown, tallies>>

(* buttonAddCallback of the row of product p. *)
TapAdd(d, p) ==
  /\ Touchable(d) /\ MenuVisible(d) /\ p \in menuRows[d]
  /\ \E same \in checkRestaurantId(menuBasket[d], menu[d]) :
       \/ /\ same
          /\ p \in DOMAIN menuBasket[d] => menuBasket[d][p] < MaxAmount
          /\ menuBasket' = [menuBasket EXCEPT ![d] = AddOne(@, p)]
          /\ UNCHANGED sheet
       \/ /\ ~same
          /\ sheet' = [sheet EXCEPT ![d] = Sheet("clear")]
          /\ UNCHANGED menuBasket
  /\ UNCHANGED <<server, link, reads, up, tab, menu, menuRows, cart, shown, tallies>>

(* The alert of showAlertDifferentId: OK empties the local basket. *)
AnswerClear(d, ok) ==
  /\ up[d] /\ sheet[d].kind = "clear"
  /\ sheet' = [sheet EXCEPT ![d] = Sheet("none")]
  /\ menuBasket' = IF ok THEN [menuBasket EXCEPT ![d] = EmptyBasket]
                   ELSE menuBasket
  /\ UNCHANGED <<server, link, reads, up, tab, menu, menuRows, cart, shown, tallies>>

(* buttonMinusCallback of the row of product p: the label is set from a    *)
(* force-unwrapped amount even when the product is not in the basket.      *)
TapMinus(d, p) ==
  /\ Touchable(d) /\ MenuVisible(d) /\ p \in menuRows[d]
  /\ \/ /\ p \in DOMAIN menuBasket[d]
        /\ menuBasket' = [menuBasket EXCEPT ![d] = MinusOne(@, p)]
        /\ UNCHANGED <<server, link, reads, up, tab, menu, menuRows, cart, sheet,
                       shown, tallies>>
     \/ /\ p \notin DOMAIN menuBasket[d]
        /\ EndProcess(d, {"minus"})

(* orderButtonPressed; the button is visible when the screen's basket is   *)
(* not empty, and stays enabled while an order is on its way.              *)
TapOrder(d) ==
  /\ Touchable(d) /\ tab[d] = "basket" /\ cart[d] # EmptyBasket
  /\ taps' = taps + 1
  /\ Request(d, reads[d], {"press"})
  /\ UNCHANGED <<server, link, screens, clock, made, traps>>

(* OK of the no-internet alert that getBasket presented; without a network *)
(* it only presents the alert again.                                       *)
RetryBasket(d) ==
  /\ up[d] /\ online[d] /\ sheet[d].kind = "retryBasket"
  /\ sheet' = [sheet EXCEPT ![d] = Sheet("none")]
  /\ Request(d, reads[d], {"basketView"})
  /\ UNCHANGED <<server, link, up, tab, menuVars, cart, shown, tallies>>

(* OK of the no-internet alert that makeOrder's completion presented.      *)
RetryOrder(d) ==
  /\ up[d] /\ sheet[d].kind = "retryOrder"
  /\ sheet' = [sheet EXCEPT ![d] = Sheet("none")]
  /\ Request(d, reads[d], {"press"})
  /\ UNCHANGED <<server, link, up, tab, menuVars, cart, shown, tallies>>

(* OK of the confirmation: the screen is dismissed, the local basket       *)
(* emptied and the orders tab selected.  The dismissal may make the basket *)
(* screen appear once more on the way.                                     *)
TapConfirmed(d) ==
  /\ up[d] /\ sheet[d].kind = "confirm"
  /\ sheet' = [sheet EXCEPT ![d] = Sheet("none")]
  /\ cart' = [cart EXCEPT ![d] = EmptyBasket]
  /\ tab' = [tab EXCEPT ![d] = "orders"]
  /\ \E K \in {{"ordersRestaurants"}, {"ordersRestaurants", "basketView"}} :
       Request(d, reads[d], K)
  /\ UNCHANGED <<server, link, up, menuVars, shown, tallies>>

-----------------------------------------------------------------------------
(* Callbacks of answered reads, run by the main queue *)

Answered(d, s, k) ==
  up[d] /\ reads[d][s].kind = k /\ reads[d][s].phase = "answered"

GotMenuBasket(d, s) ==
  /\ Answered(d, s, "menuBasket")
  /\ menuBasket' = [menuBasket EXCEPT ![d] = reads[d][s].basket]
  /\ Settle(d, s)
  /\ UNCHANGED <<server, link, up, tab, menu, menuRows, cart, sheet, shown, counters>>

GotMenuProducts(d, s) ==
  /\ Answered(d, s, "menuProducts")
  /\ menuRows' = [menuRows EXCEPT ![d] = MenuOf(menu[d])]
  /\ Settle(d, s)
  /\ UNCHANGED <<server, link, up, tab, menu, menuBasket, cart, sheet, shown, counters>>

GotBasket(d, s) ==
  /\ Answered(d, s, "basketView")
  /\ cart' = [cart EXCEPT ![d] = reads[d][s].basket]
  /\ Settle(d, s)
  /\ UNCHANGED <<server, link, up, tab, menuVars, sheet, shown, counters>>

(* Mutant: without a network makeOrder reports it and goes on. *)
GotPressRestaurantsGoesOn(d, s) ==
  /\ Answered(d, s, "press")
  /\ \E n \in Numbers :
       reads' = [reads EXCEPT ![d][s] = SentWith("orderBasket", n)]
  /\ IF online[d] THEN UNCHANGED sheet ELSE Present(d, Sheet("retryOrder"))
  /\ UNCHANGED <<server, link, up, tab, menuVars, cart, shown, counters>>

(* Mutant: without a network the press starts again without asking. *)
GotPressRestaurantsStartsAgain(d, s) ==
  /\ Answered(d, s, "press")
  /\ \E n \in Numbers :
       reads' = [reads EXCEPT ![d][s] = IF online[d] THEN SentWith("orderBasket", n)
                                        ELSE Sent("press")]
  /\ UNCHANGED <<server, link, screens, counters>>

(* The restaurants of orderButtonPressed: a number is drawn and makeOrder  *)
(* reads the basket again, or finds no network and asks to retry.          *)
GotPressRestaurants(d, s) ==
  /\ Answered(d, s, "press")
  /\ \/ /\ online[d]
        /\ \E n \in Numbers :
             reads' = [reads EXCEPT ![d][s] = SentWith("orderBasket", n)]
        /\ UNCHANGED sheet
     \/ /\ ~online[d]
        /\ Settle(d, s)
        /\ Present(d, Sheet("retryOrder"))
  /\ UNCHANGED <<server, link, up, tab, menuVars, cart, shown, counters>>

(* Mutant: two orders get the same name. *)
NewOrderCoarse == 1

(* Orders are named by the time they are made. *)
NewOrder == clock + 1

(* Mutants: info first, the basket removed first, info forgotten. *)
OrderWritesInfoFirst(o, b, i) ==
  <<InfoWrite(o, i), ProductsWrite(o, b), RemoveWrite(o)>>
OrderWritesRemoveFirst(o, b, i) ==
  <<RemoveWrite(o), ProductsWrite(o, b), InfoWrite(o, i)>>
OrderWritesNoInfo(o, b, i) == <<ProductsWrite(o, b), RemoveWrite(o)>>

(* The writes of makeOrder for order o, in program order. *)
OrderWrites(o, b, i) == <<ProductsWrite(o, b), InfoWrite(o, i), RemoveWrite(o)>>

(* The rest of makeOrder: the first key of the basket just read names the  *)
(* restaurant, an empty basket has none and traps; three writes are queued *)
(* and the confirmation is shown without waiting for any of them.          *)
makeOrder(d, s) ==
  /\ Answered(d, s, "orderBasket")
  /\ LET b == reads[d][s].basket
         o == NewOrder
     IN \/ /\ DOMAIN b = {}
           /\ EndProcess(d, {"makeOrder"}) /\ UNCHANGED budgets
        \/ /\ clock < MaxOrders
           /\ \E p \in DOMAIN b :
                LET i == [restaurant |-> RestaurantOf[p],
                          number |-> reads[d][s].number]
                IN /\ outbox' = [outbox EXCEPT ![d] = @ \o OrderWrites(o, b, i)]
                   /\ made' = [made EXCEPT ![o] = [basket |-> b, info |-> i]]
           /\ clock' = clock + 1
           /\ Settle(d, s)
           /\ Present(d, Confirm(o))
           /\ UNCHANGED <<server, online, sent, up, tab, menuVars, cart, shown,
                          taps, traps, budgets>>

GotOrdersRestaurants(d, s) ==
  /\ Answered(d, s, "ordersRestaurants")
  /\ reads' = [reads EXCEPT ![d][s] = Sent(IF online[d] THEN "orders" ELSE "idle")]
  /\ UNCHANGED <<server, link, screens, counters>>

(* The callback of getOrders force-casts both nodes of every order. *)
GotOrders(d, s) ==
  /\ Answered(d, s, "orders")
  /\ \/ /\ reads[d][s].products = reads[d][s].infos
        /\ shown' = [shown EXCEPT ![d] = reads[d][s].infos]
        /\ Settle(d, s)
        /\ UNCHANGED <<server, link, up, tab, menuVars, cart, sheet, counters>>
     \/ /\ reads[d][s].products # reads[d][s].infos
        /\ EndProcess(d, {"getOrders"}) /\ UNCHANGED budgets

Callback(d, s) ==
  \/ GotMenuBasket(d, s) \/ GotMenuProducts(d, s) \/ GotBasket(d, s)
  \/ GotPressRestaurants(d, s) \/ makeOrder(d, s)
  \/ GotOrdersRestaurants(d, s) \/ GotOrders(d, s)

-----------------------------------------------------------------------------
(* Specification *)

User(d) ==
  /\ gestures < MaxGestures
  /\ gestures' = gestures + 1
  /\ UNCHANGED faults
  /\ \/ \E t \in Tabs : SelectTab(d, t)
     \/ \E r \in Restaurants : OpenMenu(d, r)
     \/ CloseMenu(d)
     \/ \E p \in Products : TapAdd(d, p) \/ TapMinus(d, p)
     \/ \E ok \in BOOLEAN : AnswerClear(d, ok)
     \/ TapOrder(d) \/ RetryBasket(d) \/ RetryOrder(d) \/ TapConfirmed(d)

System(d) ==
  \/ ServerApply(d) \/ Acknowledge(d) \/ GoOnline(d) \/ Launch(d)
  \/ \E s \in Slots : Answer(d, s) \/ Callback(d, s)

Fault(d) ==
  /\ faults < MaxFaults
  /\ faults' = faults + FaultCost
  /\ UNCHANGED gestures
  /\ \/ Kill(d) \/ GoOffline(d) \/ Reconnect(d)
     \/ \E s \in Slots : Refuse(d, s)

Next == \E d \in Phones : User(d) \/ System(d) \/ Fault(d)

Spec == Init /\ [][Next]_vars

(* The network comes back, a network that keeps coming back carries writes *)
(* and their acknowledgements and answers reads, and the main queue runs   *)
(* its callbacks.  Nothing is assumed of the user.                         *)
Fairness ==
  \A d \in Phones :
    /\ WF_vars(GoOnline(d))
    /\ SF_vars(ServerApply(d))
    /\ SF_vars(Acknowledge(d))
    /\ \A s \in Slots : SF_vars(Answer(d, s)) /\ WF_vars(Callback(d, s))

FairSpec == Spec /\ Fairness

-----------------------------------------------------------------------------
(* Properties *)

StoredSingle ==
  SingleRestaurant(dbBasket) /\ \A o \in Orders : SingleRestaurant(dbProducts[o])
ScreensSingle ==
  \A d \in Phones : SingleRestaurant(menuBasket[d]) /\ SingleRestaurant(cart[d])
ReadsSingle ==
  \A d \in Phones, s \in Slots : SingleRestaurant(reads[d][s].basket)
QueueSingle ==
  \A d \in Phones : \A i \in 1 .. Len(outbox[d]) :
    SingleRestaurant(outbox[d][i].basket)

(* Every copy of the basket, on the server, on a screen, in an answer or   *)
(* in a queued write, holds products of one restaurant, although           *)
(* checkRestaurantId looks at one arbitrary key and screens overwrite each *)
(* other's copies in any order.                                            *)
OneRestaurantPerBasket ==
  StoredSingle /\ ScreensSingle /\ ReadsSingle /\ QueueSingle

(* An order whose info node is on the server has its products there too,   *)
(* all of the restaurant the info names: the staff application selects     *)
(* orders by info and force-casts their products.                          *)
InfoImpliesProducts ==
  \A o \in Orders : dbInfo[o] # NoInfo =>
    /\ dbProducts[o] # EmptyBasket
    /\ OnlyFrom(dbProducts[o], dbInfo[o].restaurant)

Complete(o) == dbProducts[o] # EmptyBasket /\ dbInfo[o] # NoInfo

(* The server executes the removeValue of makeOrder only when both nodes   *)
(* of the order are stored: wherever the process dies, the customer is     *)
(* left with the basket or with the order.                                 *)
RemovesBasketOfCompleteOrder ==
  \A d \in Phones :
    /\ sent'[d] = sent[d] + 1
    /\ outbox[d][sent[d] + 1].kind = "remove"
    => Complete(outbox[d][sent[d] + 1].order)
BasketRemovedLast == [][RemovesBasketOfCompleteOrder]_vars

(* A complete order never changes again, although unacknowledged writes    *)
(* are sent again after every reconnection.                                *)
KeepsCompleteOrders ==
  \A o \in Orders : Complete(o) => /\ dbProducts'[o] = dbProducts[o]
                                   /\ dbInfo'[o] = dbInfo[o]
CompleteOrdersFinal == [][KeepsCompleteOrders]_vars

(* Why InfoImpliesProducts and CompleteOrdersFinal hold: the order of the  *)
(* writes of makeOrder survives acknowledgements and resends.              *)

(* What was composed is an order of the restaurant it names. *)
MadeSound ==
  \A o \in Orders :
    IF o <= clock
    THEN /\ made[o].basket # EmptyBasket
         /\ made[o].info # NoInfo
         /\ OnlyFrom(made[o].basket, made[o].info.restaurant)
    ELSE made[o] = NotMade

(* A queued write carries what was composed for its order. *)
QueuedAsMade ==
  \A d \in Phones : \A i \in 1 .. Len(outbox[d]) :
    LET w == outbox[d][i] IN
    /\ w.kind # "basket" => w.order \in 1 .. clock
    /\ w.kind = "products" => w.basket = made[w.order].basket
    /\ w.kind = "info" => w.info = made[w.order].info

(* So does a node the server stores. *)
StoredAsMade ==
  \A o \in Orders :
    /\ dbProducts[o] # EmptyBasket => dbProducts[o] = made[o].basket
    /\ dbInfo[o] # NoInfo => dbInfo[o] = made[o].info

(* An unacknowledged write that was applied has left its node behind. *)
AppliedIsStored ==
  \A d \in Phones : \A i \in 1 .. sent[d] :
    LET w == outbox[d][i] IN
    /\ w.kind = "products" => dbProducts[w.order] # EmptyBasket
    /\ w.kind = "info" => dbInfo[w.order] # NoInfo

QueuedBefore(q, i, kind, o) ==
  \E j \in 1 .. i - 1 : q[j].kind = kind /\ q[j].order = o

(* Ahead of a queued info there is, or was, the products node; ahead of a  *)
(* queued removal there is, or was, the info node.                         *)
QueueInOrder ==
  \A d \in Phones : \A i \in 1 .. Len(outbox[d]) :
    LET w == outbox[d][i] IN
    /\ w.kind = "info" =>
         \/ dbProducts[w.order] # EmptyBasket
         \/ QueuedBefore(outbox[d], i, "products", w.order)
    /\ w.kind = "remove" =>
         \/ dbInfo[w.order] # NoInfo
         \/ QueuedBefore(outbox[d], i, "info", w.order)

StoredInOrder ==
  \A o \in Orders : dbInfo[o] # NoInfo => dbProducts[o] # EmptyBasket

OrderInv == /\ MadeSound /\ QueuedAsMade /\ StoredAsMade
            /\ AppliedIsStored /\ QueueInOrder /\ StoredInOrder

(* The rows of a menu are products of its restaurant, without which the    *)
(* add button could mix restaurants.                                       *)
RowsOfMenu == \A d \in Phones : menuRows[d] \subseteq MenuOf(menu[d])

(* Both nodes of the order are on the server or on their way from d. *)
Backed(d, o) ==
  /\ dbProducts[o] # EmptyBasket \/ Queued(d, "products", o)
  /\ dbInfo[o] # NoInfo \/ Queued(d, "info", o)

(* The order whose number the confirmation screen shows, and every order   *)
(* the orders screen lists, is on the server or still queued on the phone. *)
ShownOrdersBacked ==
  \A d \in Phones :
    /\ sheet[d].kind = "confirm" => Backed(d, sheet[d].order)
    /\ \A o \in shown[d] : Backed(d, o)

(* Orders on their way from a tap: reads of the press, and the alert that  *)
(* will press again.                                                       *)
Presses ==
  {w \in Phones \X Slots : reads[w[1]][w[2]].kind \in {"press", "orderBasket"}}
Retries == {d \in Phones : sheet[d].kind = "retryOrder"}

(* A tap on the order button makes at most one order, retries included. *)
AtMostOneOrderPerTap ==
  clock + Cardinality(Presses) + Cardinality(Retries) <= taps

(* getOrders: every order it reads has both of its nodes. *)
GetOrdersNeverTraps == "getOrders" \notin traps

(* An order that makeOrder queued reaches the server, unless the process   *)
(* ends first.                                                             *)
SubmittedOrderArrives ==
  \A d \in Phones, o \in Orders :
    (Queued(d, "products", o) \/ Queued(d, "info", o)) ~> (Complete(o) \/ ~up[d])

(* A tap on the order button is always resolved: an order, an alert or a   *)
(* refusal, never a press that hangs.                                      *)
PressResolved ==
  \A d \in Phones, s \in Slots :
    (reads[d][s].kind \in {"press", "orderBasket"})
      ~> (reads[d][s].kind \notin {"press", "orderBasket"})
=============================================================================

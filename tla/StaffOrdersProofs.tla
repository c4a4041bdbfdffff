-------------------------- MODULE StaffOrdersProofs --------------------------
(***************************************************************************)
(* Machine-checked proofs about StaffOrders, for any number of orders,     *)
(* restaurants and tablets.                                                *)
(***************************************************************************)
EXTENDS StaffOrders, TLAPS

(* A placed order is the one that was composed. *)
PlacedAsComposed == \A o \in Names : placed[o] \in {Nothing, composed[o]}

(* A list of orders of restaurant r, each as it was composed. *)
Right(list, r) ==
  \A o \in DOMAIN list :
    /\ o \in Names
    /\ list[o] = composed[o] /\ composed[o] # Nothing
    /\ composed[o].restaurant = r

(* What is listed, and what is on its way to a list that is open. *)
ListsRight ==
  \A t \in Tablets :
    /\ Right(orders[t], restaurant[t])
    /\ reading[t] = "answered" => Right(answer[t], restaurant[t])

(* A tablet with no restaurant open lists nothing and waits for nothing. *)
ClosedEmpty ==
  \A t \in Tablets : restaurant[t] = Nothing =>
    orders[t] = NoOrders /\ reading[t] = "none"

Shapes ==
  /\ composed \in [Names -> Contents \cup {Nothing}]
  /\ placed \in [Names -> Contents \cup {Nothing}]
  /\ restaurant \in [Tablets -> Restaurants \cup {Nothing}]
  /\ reading \in [Tablets -> {"none", "sent", "answered"}]
  /\ DOMAIN answer = Tablets /\ answer = [t \in Tablets |-> answer[t]]
  /\ DOMAIN orders = Tablets /\ orders = [t \in Tablets |-> orders[t]]

StaffInv == Shapes /\ PlacedAsComposed /\ ListsRight /\ ClosedEmpty

LEMMA StaffInit == Init => StaffInv
BY DEF Init, Lifecycle!Init, StaffInv, Shapes, PlacedAsComposed, ListsRight,
       Right, NoOrders, ClosedEmpty

(* Orders are composed once, so that a list stays right while the          *)
(* customers go on.                                                        *)
LEMMA CustomersStep ==
  ASSUME StaffInv, Customers
  PROVE  StaffInv'
<1> USE DEF StaffInv, Shapes
<1>1. PICK o \in Names : Lifecycle!Compose(o) \/ Lifecycle!Begin(o) \/ Lifecycle!Place(o)
  BY DEF Customers, Lifecycle!Next
<1>2. UNCHANGED <<restaurant, reading, answer, orders>>
  BY DEF Customers, tablets
<1>e. ClosedEmpty'
  BY <1>2 DEF ClosedEmpty
<1>3. CASE Lifecycle!Compose(o)
  <2>1. PICK c \in Contents : composed' = [composed EXCEPT ![o] = c]
    BY <1>3 DEF Lifecycle!Compose
  <2>2. composed[o] = Nothing /\ placed' = placed
    BY <1>3 DEF Lifecycle!Compose
  <2>3. \A q \in Names : composed[q] # Nothing => composed'[q] = composed[q]
    BY <2>1, <2>2
  <2>4. ListsRight'
    BY <1>2, <2>3 DEF ListsRight, Right
  <2>5. PlacedAsComposed'
    BY <2>2, <2>3 DEF PlacedAsComposed
  <2> QED
    BY <1>2, <1>e, <2>1, <2>2, <2>4, <2>5
<1>4. CASE Lifecycle!Begin(o)
  BY <1>2, <1>e, <1>4 DEF Lifecycle!Begin, ListsRight, Right, PlacedAsComposed
<1>5. CASE Lifecycle!Place(o)
  <2>1. composed' = composed /\ placed' = [placed EXCEPT ![o] = composed[o]]
    BY <1>5 DEF Lifecycle!Place
  <2>2. PlacedAsComposed'
    BY <2>1 DEF PlacedAsComposed
  <2>3. ListsRight'
    BY <1>2, <2>1 DEF ListsRight, Right
  <2> QED
    BY <1>2, <1>e, <2>1, <2>2, <2>3
<1> QED
  BY <1>1, <1>3, <1>4, <1>5

LEMMA StaffStep ==
  ASSUME StaffInv, NEW t \in Tablets, Staff(t)
  PROVE  StaffInv'
<1> USE DEF StaffInv, Shapes, customers
<1>1. ASSUME NEW r \in Restaurants, OpenOrders(t, r)
      PROVE  StaffInv'
  <2>1. \A u \in Tablets : u # t => restaurant'[u] = restaurant[u]
                                    /\ reading'[u] = reading[u]
    BY <1>1 DEF OpenOrders
  <2>2. UNCHANGED <<composed, placed, answer, orders>>
    BY <1>1 DEF OpenOrders
  <2>3. orders[t] = NoOrders /\ reading'[t] = "sent"
    BY <1>1 DEF OpenOrders, ClosedEmpty
  <2>4. ListsRight'
    BY <2>1, <2>2, <2>3 DEF ListsRight, Right, NoOrders
  <2>5. Shapes'
    BY <1>1, <2>2 DEF OpenOrders
  <2>6. ClosedEmpty'
    BY <1>1, <2>1, <2>2, StaffAssumption DEF OpenOrders, ClosedEmpty
  <2> QED
    BY <2>2, <2>4, <2>5, <2>6 DEF PlacedAsComposed
<1>2. CASE closeOrders(t)
  <2>1. \A u \in Tablets : u # t =>
           /\ restaurant'[u] = restaurant[u] /\ reading'[u] = reading[u]
           /\ answer'[u] = answer[u] /\ orders'[u] = orders[u]
    BY <1>2 DEF closeOrders
  <2>2. UNCHANGED <<composed, placed>>
    BY <1>2 DEF closeOrders
  <2>3. orders'[t] = NoOrders /\ reading'[t] = "none"
    BY <1>2 DEF closeOrders
  <2>4. ListsRight'
    BY <2>1, <2>2, <2>3 DEF ListsRight, Right, NoOrders
  <2>5. Shapes'
    BY <1>2, <2>2 DEF closeOrders
  <2>6. ClosedEmpty'
    BY <2>1, <2>3 DEF ClosedEmpty
  <2> QED
    BY <2>2, <2>4, <2>5, <2>6 DEF PlacedAsComposed
<1>3. ASSUME NEW o \in Names, updateOrderInfo(t, o)
      PROVE  StaffInv'
  BY <1>3 DEF updateOrderInfo, ListsRight, Right, PlacedAsComposed, ClosedEmpty
<1>4. CASE completeOrder(t)
  BY <1>4 DEF completeOrder, ListsRight, Right, PlacedAsComposed, ClosedEmpty
<1> QED
  BY <1>1, <1>2, <1>3, <1>4 DEF Staff

(* The read finds placed orders of the restaurant that is open.            *)
LEMMA AnswerStep ==
  ASSUME StaffInv, NEW t \in Tablets, Answer(t)
  PROVE  StaffInv'
<1> USE DEF StaffInv, Shapes, customers
<1> DEFINE found == [o \in Found(restaurant[t]) |-> placed[o]]
<1>1. UNCHANGED <<composed, placed, restaurant, orders>>
  BY DEF Answer
<1>2. answer' = [answer EXCEPT ![t] = found] /\ reading' = [reading EXCEPT ![t] = "answered"]
  BY DEF Answer
<1>3. Right(found, restaurant[t])
  BY DEF Right, Found, PlacedAsComposed
<1>4. answer'[t] = found /\ \A u \in Tablets : u # t => answer'[u] = answer[u]
                                                       /\ reading'[u] = reading[u]
  BY <1>2
<1> HIDE DEF found
<1>5. ListsRight'
  BY <1>1, <1>3, <1>4 DEF ListsRight, Right
<1>6. Shapes'
  BY <1>1, <1>2
<1>7. ClosedEmpty'
  BY <1>1, <1>2, <1>4 DEF ClosedEmpty, Answer
<1> QED
  BY <1>1, <1>5, <1>6, <1>7 DEF PlacedAsComposed

LEMMA GotOrdersStep ==
  ASSUME StaffInv, NEW t \in Tablets, GotOrders(t)
  PROVE  StaffInv'
<1> USE DEF StaffInv, Shapes, customers
<1>1. UNCHANGED <<composed, placed, restaurant, answer>> /\ reading[t] = "answered"
  BY DEF GotOrders
<1>2. orders'[t] = answer[t] /\ \A u \in Tablets : u # t => orders'[u] = orders[u]
                                                           /\ reading'[u] = reading[u]
  BY DEF GotOrders
<1>3. ListsRight'
  BY <1>1, <1>2 DEF ListsRight, Right, GotOrders
<1>4. Shapes'
  BY <1>1 DEF GotOrders
<1>5. ClosedEmpty'
  BY <1>1, <1>2 DEF ClosedEmpty, GotOrders
<1> QED
  BY <1>1, <1>3, <1>4, <1>5 DEF PlacedAsComposed

LEMMA StaffInvStep == StaffInv /\ [Next]_vars => StaffInv'
<1> SUFFICES ASSUME StaffInv, [Next]_vars
             PROVE  StaffInv'
  OBVIOUS
<1>1. CASE UNCHANGED vars
  BY <1>1 DEF vars, StaffInv, Shapes, ListsRight, Right, PlacedAsComposed, ClosedEmpty
<1> QED
  BY <1>1, CustomersStep, StaffStep, AnswerStep, GotOrdersStep DEF Next

(* A tablet never lists a part of an order, an order of another restaurant *)
(* or contents that nobody composed: loadAllOrders selects by the info     *)
(* node, which is written last.                                            *)
THEOREM TabletsListComposedOrders == Spec => []ListedAsComposed
<1>1. StaffInv => ListedAsComposed
  BY DEF StaffInv, ListsRight, Right, ListedAsComposed
<1> QED
  BY StaffInit, StaffInvStep, <1>1, PTL DEF Spec

-----------------------------------------------------------------------------
(* Lists are made of placed orders or of nothing. *)
LEMMA ListTypes ==
  ASSUME TypeOK
  PROVE  NoOrders \in Lists
         /\ \A r \in Restaurants \cup {Nothing} : [o \in Found(r) |-> placed[o]] \in Lists
<1>1. \A r \in Restaurants \cup {Nothing} :
        Found(r) \in SUBSET Names /\ \A o \in Found(r) : placed[o] \in Contents
  BY DEF TypeOK, Found
<1>2. \A found \in SUBSET Names : [found -> Contents] \subseteq Lists
  BY DEF Lists
<1>3. NoOrders \in [{} -> Contents]
  BY DEF NoOrders
<1> QED
  BY <1>1, <1>2, <1>3

(* Every variable keeps its type, whatever the customers do meanwhile.     *)
THEOREM StaffTypes == Spec => []TypeOK
<1>1. Init => TypeOK
  <2>1. NoOrders \in Lists
    <3>1. NoOrders \in [{} -> Contents] /\ [{} -> Contents] \subseteq Lists
      BY DEF NoOrders, Lists
    <3> QED
      BY <3>1
  <2> QED
    BY <2>1, StaffAssumption DEF Init, Lifecycle!Init, TypeOK, Selection
<1>2. TypeOK /\ [Next]_vars => TypeOK'
  <2> SUFFICES ASSUME TypeOK, [Next]_vars PROVE TypeOK'
    OBVIOUS
  <2>1. CASE Customers
    <3>1. PICK o \in Names : Lifecycle!Compose(o) \/ Lifecycle!Begin(o) \/ Lifecycle!Place(o)
      BY <2>1 DEF Customers, Lifecycle!Next
    <3>2. /\ composed' \in [Names -> Contents \cup {Nothing}]
          /\ placed' \in [Names -> Contents \cup {Nothing}] /\ begun' \subseteq Names
      BY <3>1 DEF TypeOK, Lifecycle!Compose, Lifecycle!Begin, Lifecycle!Place
    <3> QED
      BY <2>1, <3>2 DEF Customers, tablets, TypeOK
  <2>2. ASSUME NEW t \in Tablets, Staff(t) PROVE TypeOK'
    <3>1. touches' \in 0 .. MaxTouches
      BY <2>2, StaffAssumption DEF Staff, TypeOK
    <3>2. ASSUME NEW r \in Restaurants, OpenOrders(t, r) PROVE TypeOK'
      BY <3>1, <3>2 DEF OpenOrders, customers, TypeOK
    <3>3. CASE closeOrders(t)
      BY <3>1, <3>3, ListTypes DEF closeOrders, customers, TypeOK, Selection
    <3>4. ASSUME NEW o \in Names, updateOrderInfo(t, o) PROVE TypeOK'
      BY <3>1, <3>4 DEF updateOrderInfo, customers, TypeOK, Selection
    <3>5. CASE completeOrder(t)
      <4>1. Selection(panel[t].order, 1) \in [order : Names \cup {Nothing}, status : {0, 1}]
        BY DEF Selection, TypeOK
      <4> QED
        BY <3>1, <3>5, <4>1 DEF completeOrder, customers, TypeOK
    <3> QED
      BY <2>2, <3>2, <3>3, <3>4, <3>5 DEF Staff
  <2>3. ASSUME NEW t \in Tablets, Answer(t) PROVE TypeOK'
    <3>1. [o \in Found(restaurant[t]) |-> placed[o]] \in Lists
      BY ListTypes DEF TypeOK
    <3> QED
      BY <2>3, <3>1 DEF Answer, customers, TypeOK
  <2>4. ASSUME NEW t \in Tablets, GotOrders(t) PROVE TypeOK'
    <3>1. answer[t] \in Lists
      BY DEF TypeOK
    <3> QED
      BY <2>4, <3>1 DEF GotOrders, customers, TypeOK
  <2>5. CASE UNCHANGED vars
    BY <2>5 DEF vars, TypeOK
  <2> QED
    BY <2>1, <2>2, <2>3, <2>4, <2>5 DEF Next
<1> QED
  BY <1>1, <1>2, PTL DEF Spec
=============================================================================

--------------------------- MODULE OrderingProofs ---------------------------
(***************************************************************************)
(* Machine-checked proofs about Ordering, for any finite number of phones, *)
(* any catalogue and any bounds: types, the restaurant of a basket, the    *)
(* orders a tap makes; why an order arrives whole, and what a screen shows *)
(* is backed by its writes; and that Ordering implements OrderLifecycle.   *)
(***************************************************************************)
EXTENDS OrderRefinement, SequenceTheorems, FiniteSetTheorems, TLAPS

-----------------------------------------------------------------------------
(* Baskets *)

(* A function from some of the products to amounts is a basket. *)
LEMMA BasketIntro ==
  ASSUME NEW keys \in SUBSET Products, NEW b \in [keys -> Amounts]
  PROVE  b \in AllBaskets
BY DEF AllBaskets, BasketOver

(* The keys of a basket are products and its values are amounts. *)
LEMMA BasketElim ==
  ASSUME NEW b \in AllBaskets
  PROVE  DOMAIN b \subseteq Products /\ b \in [DOMAIN b -> Amounts]
BY DEF AllBaskets, BasketOver

(* The empty basket is one, and has no keys. *)
LEMMA EmptyBasketType ==
  EmptyBasket \in AllBaskets /\ DOMAIN EmptyBasket = {}
<1>1. EmptyBasket \in [{} -> Amounts]
  BY DEF EmptyBasket
<1>2. EmptyBasket \in AllBaskets
  BY <1>1, BasketIntro
<1> QED
  BY <1>2 DEF EmptyBasket

(* A basket without keys is the empty one. *)
LEMMA EmptyBasketUnique ==
  ASSUME NEW b \in AllBaskets, DOMAIN b = {}
  PROVE  b = EmptyBasket
<1>1. b \in [{} -> Amounts]
  BY BasketElim
<1> QED
  BY <1>1 DEF EmptyBasket

(* The add button keeps a basket a basket, below the bound on amounts. *)
LEMMA AddOneType ==
  ASSUME NEW b \in AllBaskets, NEW p \in Products,
         p \in DOMAIN b => b[p] < MaxAmount
  PROVE  AddOne(b, p) \in AllBaskets /\ DOMAIN AddOne(b, p) = DOMAIN b \cup {p}
<1> DEFINE keys == DOMAIN b \cup {p}
<1>1. DOMAIN b \subseteq Products /\ b \in [DOMAIN b -> Amounts]
  BY BasketElim
<1>2. AddOne(b, p) \in [keys -> Amounts]
  BY <1>1, AmountAssumption DEF AddOne, Amounts
<1> QED
  BY <1>1, <1>2, BasketIntro DEF AddOne

(* So does the minus button, which keeps the keys too. *)
LEMMA MinusOneType ==
  ASSUME NEW b \in AllBaskets, NEW p \in Products
  PROVE  MinusOne(b, p) \in AllBaskets /\ DOMAIN MinusOne(b, p) = DOMAIN b
<1>1. DOMAIN b \subseteq Products /\ b \in [DOMAIN b -> Amounts]
  BY BasketElim
<1>2. MinusOne(b, p) \in [DOMAIN b -> Amounts]
  BY <1>1, AmountAssumption DEF MinusOne, Amounts
<1> QED
  BY <1>1, <1>2, BasketIntro DEF MinusOne

-----------------------------------------------------------------------------
(* Requests, writes and sheets have their types *)

LEMMA SentType ==
  /\ \A k \in (ReadKinds \cup {"idle"}) \ {"orderBasket"} : Sent(k) \in Reads
  /\ \A n \in Numbers : SentWith("orderBasket", n) \in Reads
<1>1. EmptyBasket \in AllBaskets
  BY EmptyBasketType
<1>2. "orderBasket" \in ReadKinds
  BY DEF ReadKinds, BasketReads
<1> QED
  BY <1>1, <1>2 DEF Sent, SentWith, Reads

LEMMA NoReadsType == NoReads \in [Slots -> Reads]
BY SentType DEF NoReads

LEMMA RequestType ==
  ASSUME NEW d \in Phones, NEW rs \in [Slots -> Reads],
         NEW K \in SUBSET (ReadKinds \ {"orderBasket"}),
         reads \in [Phones -> [Slots -> Reads]],
         Request(d, rs, K)
  PROVE  reads' \in [Phones -> [Slots -> Reads]]
<1> DEFINE free == IdleIn(rs)
           wanted == IF online[d] THEN K ELSE {}
<1>1. PICK g \in [free -> wanted \cup {"idle"}] :
        reads' = [reads EXCEPT ![d] =
                    [s \in Slots |-> IF s \in free THEN Sent(g[s]) ELSE rs[s]]]
  BY DEF Request
<1>2. \A s \in free : Sent(g[s]) \in Reads
  BY SentType
<1>3. [s \in Slots |-> IF s \in free THEN Sent(g[s]) ELSE rs[s]] \in [Slots -> Reads]
  BY <1>2
<1> QED
  BY <1>1, <1>3

LEMMA SettleType ==
  ASSUME NEW d \in Phones, NEW s \in Slots,
         reads \in [Phones -> [Slots -> Reads]],
         Settle(d, s)
  PROVE  reads' \in [Phones -> [Slots -> Reads]]
BY SentType DEF Settle

LEMMA WriteTypes ==
  /\ \A b \in AllBaskets : BasketWrite(b) \in Writes
  /\ \A o \in Orders, b \in AllBaskets : ProductsWrite(o, b) \in Writes
  /\ \A o \in Orders, i \in Infos : InfoWrite(o, i) \in Writes
  /\ \A o \in Orders : RemoveWrite(o) \in Writes
BY EmptyBasketType
   DEF Writes, BasketWrite, ProductsWrite, InfoWrite, RemoveWrite

LEMMA SheetTypes ==
  /\ \A k \in {"none", "clear", "retryBasket", "retryOrder"} : Sheet(k) \in Sheets
  /\ \A o \in Orders : Confirm(o) \in Sheets
BY DEF Sheet, Confirm, Sheets

LEMMA PresentType ==
  ASSUME NEW d \in Phones, NEW sh \in Sheets,
         sheet \in [Phones -> Sheets], Present(d, sh)
  PROVE  sheet' \in [Phones -> Sheets]
BY DEF Present

-----------------------------------------------------------------------------
(* Type correctness *)

(* The end of a process resets its phone to well-typed values. *)
LEMMA EndProcessType ==
  ASSUME TypeOK, NEW d \in Phones,
         NEW sites \in SUBSET {"minus", "makeOrder", "getOrders"},
         EndProcess(d, sites), gestures' \in 0 .. MaxGestures,
         faults' \in 0 .. MaxFaults
  PROVE  TypeOK'
<1>1. outbox' \in [Phones -> Seq(Writes)]
  <2>1. <<>> \in Seq(Writes)
    OBVIOUS
  <2> QED BY <2>1 DEF TypeOK, EndProcess
<1>2. sent' \in [Phones -> Nat] /\ \A e \in Phones : sent'[e] <= Len(outbox'[e])
  <2>1. Len(<<>>) = 0
    OBVIOUS
  <2> QED BY <2>1 DEF TypeOK, EndProcess
<1>3. reads' \in [Phones -> [Slots -> Reads]]
  BY NoReadsType DEF TypeOK, EndProcess
<1>4. menuBasket' \in [Phones -> AllBaskets] /\ cart' \in [Phones -> AllBaskets]
  BY EmptyBasketType DEF TypeOK, EndProcess
<1>5. sheet' \in [Phones -> Sheets]
  BY SheetTypes DEF TypeOK, EndProcess
<1>6. /\ dbBasket' \in AllBaskets
      /\ dbProducts' \in [Orders -> AllBaskets]
      /\ dbInfo' \in [Orders -> Infos \cup {NoInfo}]
      /\ online' \in [Phones -> BOOLEAN]
      /\ clock' \in 0 .. MaxOrders
      /\ made' \in [Orders -> Contents]
      /\ taps' \in Nat
  BY DEF TypeOK, EndProcess, server
<1>7. /\ up' \in [Phones -> BOOLEAN]
      /\ tab' \in [Phones -> Tabs]
      /\ menu' \in [Phones -> Restaurants \cup {NoRestaurant}]
      /\ menuRows' \in [Phones -> SUBSET Products]
      /\ shown' \in [Phones -> SUBSET Orders]
      /\ traps' \in SUBSET {"minus", "makeOrder", "getOrders"}
  BY DEF TypeOK, EndProcess, Tabs
<1> QED
  BY <1>1, <1>2, <1>3, <1>4, <1>5, <1>6, <1>7 DEF TypeOK

(* The baskets a read may return are baskets. *)
LEMMA VisibleBasketType ==
  ASSUME TypeOK, NEW d \in Phones, NEW b \in VisibleBasket(d)
  PROVE  b \in AllBaskets
<1>1. CASE b = dbBasket
  BY <1>1 DEF TypeOK
<1>2. CASE b \in PendingBasket(d)
  <2>1. PICK i \in 1 .. Len(outbox[d]) : b = outbox[d][i].basket
    BY <1>2 DEF PendingBasket
  <2>2. outbox[d] \in Seq(Writes)
    BY DEF TypeOK
  <2>3. outbox[d][i] \in Writes
    BY <2>1, <2>2
  <2> QED BY <2>1, <2>3 DEF Writes
<1> QED
  BY <1>1, <1>2 DEF VisibleBasket

(* What the server does with a write keeps the database well-typed. *)
LEMMA ServerApplyType ==
  ASSUME TypeOK, NEW d \in Phones, ServerApply(d)
  PROVE  TypeOK'
<1> DEFINE w == outbox[d][sent[d] + 1]
<1>1. w \in Writes
  <2>1. outbox[d] \in Seq(Writes) /\ sent[d] \in Nat /\ sent[d] < Len(outbox[d])
    BY DEF TypeOK, ServerApply
  <2>2. sent[d] + 1 \in 1 .. Len(outbox[d])
    BY <2>1
  <2> QED BY <2>1, <2>2
<1>2. dbBasket' \in AllBaskets
  BY <1>1 DEF TypeOK, ServerApply, Writes
<1>3. dbProducts' \in [Orders -> AllBaskets]
  BY <1>1 DEF TypeOK, ServerApply, Writes
<1>4. dbInfo' \in [Orders -> Infos \cup {NoInfo}]
  BY <1>1 DEF TypeOK, ServerApply, Writes
<1>5. sent' \in [Phones -> Nat] /\ \A e \in Phones : sent'[e] <= Len(outbox'[e])
  <2>1. \A e \in Phones : outbox[e] \in Seq(Writes)
    BY DEF TypeOK
  <2>2. \A e \in Phones : Len(outbox[e]) \in Nat
    BY <2>1
  <2> QED BY <2>2 DEF TypeOK, ServerApply
<1> QED
  BY <1>2, <1>3, <1>4, <1>5 DEF TypeOK, ServerApply, screens, counters

LEMMA AcknowledgeType ==
  ASSUME TypeOK, NEW d \in Phones, Acknowledge(d)
  PROVE  TypeOK'
<1>1. \A e \in Phones : outbox[e] \in Seq(Writes) /\ sent[e] \in Nat
                        /\ sent[e] <= Len(outbox[e])
  BY DEF TypeOK
<1>2. outbox[d] # <<>>
  BY <1>1 DEF Acknowledge
<1>3. Tail(outbox[d]) \in Seq(Writes) /\ Len(Tail(outbox[d])) = Len(outbox[d]) - 1
  BY <1>1, <1>2, HeadTailProperties
<1>4. outbox' \in [Phones -> Seq(Writes)]
  BY <1>3 DEF TypeOK, Acknowledge
<1>5. sent' \in [Phones -> Nat]
  BY <1>1 DEF TypeOK, Acknowledge
<1>6. \A e \in Phones : sent'[e] <= Len(outbox'[e])
  BY <1>1, <1>3 DEF TypeOK, Acknowledge
<1> QED
  BY <1>4, <1>5, <1>6 DEF TypeOK, Acknowledge, server, screens, counters

(* Appending a write keeps the queue well-typed and does not shorten it. *)
LEMMA postBasketType ==
  ASSUME TypeOK, NEW d \in Phones, postBasket(d)
  PROVE  /\ outbox' \in [Phones -> Seq(Writes)]
         /\ \A e \in Phones : sent[e] <= Len(outbox'[e])
<1> DEFINE w == BasketWrite(menuBasket[d])
<1>1. w \in Writes
  BY WriteTypes DEF TypeOK
<1>2. \A e \in Phones : outbox[e] \in Seq(Writes) /\ sent[e] \in Nat
                        /\ sent[e] <= Len(outbox[e])
  BY DEF TypeOK
<1>3. /\ Append(outbox[d], w) \in Seq(Writes)
      /\ Len(Append(outbox[d], w)) = Len(outbox[d]) + 1
  BY <1>1, <1>2
<1>4. CASE online[d]
  <2>1. outbox' = [outbox EXCEPT ![d] = Append(@, w)]
    BY <1>4 DEF postBasket
  <2>2. outbox' \in [Phones -> Seq(Writes)]
    BY <2>1, <1>3 DEF TypeOK
  <2>3. \A e \in Phones : outbox'[e] = IF e = d THEN Append(outbox[d], w) ELSE outbox[e]
    BY <2>1 DEF TypeOK
  <2>4. ASSUME NEW e \in Phones PROVE sent[e] <= Len(outbox'[e])
    <3>1. sent[e] \in Nat /\ Len(outbox[e]) \in Nat /\ sent[e] <= Len(outbox[e])
      BY <1>2
    <3>2. Len(outbox'[e]) = Len(outbox[e]) + 1 \/ outbox'[e] = outbox[e]
      BY <2>3, <1>3
    <3> QED BY <3>1, <3>2
  <2> QED BY <2>2, <2>4
<1>5. CASE ~online[d]
  BY <1>5, <1>2 DEF postBasket, TypeOK
<1> QED
  BY <1>4, <1>5

(* The screens do not disturb the types. *)
LEMMA UserType ==
  ASSUME TypeOK, NEW d \in Phones, User(d)
  PROVE  TypeOK'
<1>g. gestures' \in 0 .. MaxGestures /\ faults' \in 0 .. MaxFaults
  BY OrderingAssumption DEF User, TypeOK
<1>1. ASSUME NEW t \in Tabs, SelectTab(d, t) PROVE TypeOK'
  <2>1. outbox' \in [Phones -> Seq(Writes)] /\ \A e \in Phones : sent[e] <= Len(outbox'[e])
    <3>1. CASE MenuVisible(d)
      BY <1>1, <3>1, postBasketType DEF SelectTab, LeaveTab
    <3>2. CASE ~MenuVisible(d)
      BY <1>1, <3>2 DEF SelectTab, LeaveTab, TypeOK
    <3> QED BY <3>1, <3>2
  <2>2. ReadsOnAppear(d, t) \in SUBSET (ReadKinds \ {"orderBasket"})
    BY DEF ReadsOnAppear, ReadKinds, BasketReads, Tabs
  <2>3. reads' \in [Phones -> [Slots -> Reads]]
    BY <1>1, <2>2, RequestType DEF SelectTab, TypeOK
  <2>4. sheet' \in [Phones -> Sheets]
    <3>1. Sheet("none") \in Sheets /\ Sheet("retryBasket") \in Sheets
      BY SheetTypes
    <3>2. CASE t = "basket" /\ ~online[d]
      <4>1. PICK k \in {"none", "retryBasket"} : sheet' = [sheet EXCEPT ![d] = Sheet(k)]
        BY <1>1, <3>2 DEF SelectTab, SheetOnAppear
      <4> QED BY <4>1, <3>1 DEF TypeOK
    <3>3. CASE ~(t = "basket" /\ ~online[d])
      BY <1>1, <3>3 DEF SelectTab, SheetOnAppear, TypeOK
    <3> QED BY <3>2, <3>3
  <2> QED
    BY <1>1, <1>g, <2>1, <2>3, <2>4 DEF SelectTab, TypeOK, server, menuVars, tallies
<1>2. ASSUME NEW r \in Restaurants, OpenMenu(d, r) PROVE TypeOK'
  <2>1. reads' \in [Phones -> [Slots -> Reads]]
    <3>1. {"menuBasket", "menuProducts"} \in SUBSET (ReadKinds \ {"orderBasket"})
      BY DEF ReadKinds, BasketReads
    <3> QED BY <1>2, <3>1, RequestType DEF OpenMenu, TypeOK
  <2>2. menuBasket' \in [Phones -> AllBaskets]
    BY <1>2, EmptyBasketType DEF OpenMenu, TypeOK
  <2> QED
    BY <1>2, <1>g, <2>1, <2>2 DEF OpenMenu, TypeOK, server, link, tallies
<1>3. ASSUME CloseMenu(d) PROVE TypeOK'
  <2>1. outbox' \in [Phones -> Seq(Writes)] /\ \A e \in Phones : sent[e] <= Len(outbox'[e])
    BY <1>3, postBasketType DEF CloseMenu
  <2>2. reads' \in [Phones -> [Slots -> Reads]]
    BY <1>3, SentType DEF CloseMenu, TypeOK
  <2>3. menuBasket' \in [Phones -> AllBaskets]
    BY <1>3, EmptyBasketType DEF CloseMenu, TypeOK
  <2> QED
    BY <1>3, <1>g, <2>1, <2>2, <2>3 DEF CloseMenu, TypeOK, server, tallies
<1>4. ASSUME NEW p \in Products, TapAdd(d, p) PROVE TypeOK'
  <2>1. menuBasket' \in [Phones -> AllBaskets]
    <3>1. menuBasket[d] \in AllBaskets
      BY DEF TypeOK
    <3>2. CASE UNCHANGED menuBasket
      BY <3>2 DEF TypeOK
    <3>3. CASE /\ p \in DOMAIN menuBasket[d] => menuBasket[d][p] < MaxAmount
               /\ menuBasket' = [menuBasket EXCEPT ![d] = AddOne(@, p)]
      BY <3>1, <3>3, AddOneType DEF TypeOK
    <3> QED BY <1>4, <3>2, <3>3 DEF TapAdd
  <2>2. sheet' \in [Phones -> Sheets]
    BY <1>4, SheetTypes DEF TapAdd, TypeOK
  <2> QED
    BY <1>4, <1>g, <2>1, <2>2 DEF TapAdd, TypeOK, server, link, tallies
<1>5. ASSUME NEW p \in Products, TapMinus(d, p) PROVE TypeOK'
  <2>1. CASE EndProcess(d, {"minus"})
    BY <1>g, <2>1, EndProcessType
  <2>2. CASE /\ menuBasket' = [menuBasket EXCEPT ![d] = MinusOne(@, p)]
             /\ UNCHANGED <<server, link, reads, up, tab, menu, menuRows, cart,
                            sheet, shown, tallies>>
    <3>1. menuBasket' \in [Phones -> AllBaskets]
      BY <2>2, MinusOneType DEF TypeOK
    <3> QED
      BY <1>g, <2>2, <3>1 DEF TypeOK, server, link, tallies
  <2> QED BY <1>5, <2>1, <2>2 DEF TapMinus
<1>6. ASSUME NEW ok \in BOOLEAN, AnswerClear(d, ok) PROVE TypeOK'
  <2>1. menuBasket' \in [Phones -> AllBaskets]
    BY <1>6, EmptyBasketType DEF AnswerClear, TypeOK
  <2>2. sheet' \in [Phones -> Sheets]
    BY <1>6, SheetTypes DEF AnswerClear, TypeOK
  <2> QED
    BY <1>6, <1>g, <2>1, <2>2 DEF AnswerClear, TypeOK, server, link, tallies
<1>7. ASSUME TapOrder(d) PROVE TypeOK'
  <2>1. reads' \in [Phones -> [Slots -> Reads]]
    <3>1. {"press"} \in SUBSET (ReadKinds \ {"orderBasket"})
      BY DEF ReadKinds
    <3> QED BY <1>7, <3>1, RequestType DEF TapOrder, TypeOK
  <2> QED
    BY <1>7, <1>g, <2>1 DEF TapOrder, TypeOK, server, link, screens
<1>8. ASSUME RetryBasket(d) PROVE TypeOK'
  <2>1. reads' \in [Phones -> [Slots -> Reads]]
    <3>1. {"basketView"} \in SUBSET (ReadKinds \ {"orderBasket"})
      BY DEF ReadKinds, BasketReads
    <3> QED BY <1>8, <3>1, RequestType DEF RetryBasket, TypeOK
  <2>2. sheet' \in [Phones -> Sheets]
    BY <1>8, SheetTypes DEF RetryBasket, TypeOK
  <2> QED
    BY <1>8, <1>g, <2>1, <2>2 DEF RetryBasket, TypeOK, server, link, menuVars, tallies
<1>9. ASSUME RetryOrder(d) PROVE TypeOK'
  <2>1. reads' \in [Phones -> [Slots -> Reads]]
    <3>1. {"press"} \in SUBSET (ReadKinds \ {"orderBasket"})
      BY DEF ReadKinds
    <3> QED BY <1>9, <3>1, RequestType DEF RetryOrder, TypeOK
  <2>2. sheet' \in [Phones -> Sheets]
    BY <1>9, SheetTypes DEF RetryOrder, TypeOK
  <2> QED
    BY <1>9, <1>g, <2>1, <2>2 DEF RetryOrder, TypeOK, server, link, menuVars, tallies
<1>10. ASSUME TapConfirmed(d) PROVE TypeOK'
  <2>1. reads' \in [Phones -> [Slots -> Reads]]
    <3>1. PICK K \in {{"ordersRestaurants"}, {"ordersRestaurants", "basketView"}} :
            Request(d, reads[d], K)
      BY <1>10 DEF TapConfirmed
    <3>2. K \in SUBSET (ReadKinds \ {"orderBasket"})
      BY DEF ReadKinds, BasketReads
    <3> QED BY <3>1, <3>2, RequestType DEF TypeOK
  <2>2. sheet' \in [Phones -> Sheets]
    BY <1>10, SheetTypes DEF TapConfirmed, TypeOK
  <2>3. cart' \in [Phones -> AllBaskets]
    BY <1>10, EmptyBasketType DEF TapConfirmed, TypeOK
  <2> QED
    BY <1>10, <1>g, <2>1, <2>2, <2>3
       DEF TapConfirmed, TypeOK, server, link, menuVars, tallies, Tabs
<1> QED
  BY <1>1, <1>2, <1>3, <1>4, <1>5, <1>6, <1>7, <1>8, <1>9, <1>10 DEF User

(* The three writes of an order extend the queue. *)
LEMMA OrderQueueType ==
  ASSUME TypeOK, NEW d \in Phones, NEW o \in Orders, NEW b \in AllBaskets,
         NEW i \in Infos,
         outbox' = [outbox EXCEPT ![d] = @ \o OrderWrites(o, b, i)]
  PROVE  /\ outbox' \in [Phones -> Seq(Writes)]
         /\ \A e \in Phones : sent[e] <= Len(outbox'[e])
<1> DEFINE ws == OrderWrites(o, b, i)
<1>1. ws \in Seq(Writes) /\ Len(ws) = 3
  <2>1. /\ ProductsWrite(o, b) \in Writes
        /\ InfoWrite(o, i) \in Writes
        /\ RemoveWrite(o) \in Writes
    BY WriteTypes
  <2> QED BY <2>1 DEF OrderWrites
<1>2. \A e \in Phones : outbox[e] \in Seq(Writes) /\ sent[e] \in Nat
                        /\ sent[e] <= Len(outbox[e])
  BY DEF TypeOK
<1> HIDE DEF ws
<1>3. outbox[d] \o ws \in Seq(Writes) /\ Len(outbox[d] \o ws) = Len(outbox[d]) + 3
  <2>1. outbox[d] \in Seq(Writes)
    BY <1>2
  <2>2. outbox[d] \o ws \in Seq(Writes)
    BY <1>1, <2>1
  <2>3. Len(outbox[d] \o ws) = Len(outbox[d]) + Len(ws)
    BY <1>1, <2>1, ConcatProperties, Zenon
  <2> QED BY <1>1, <2>2, <2>3
<1>4. outbox' \in [Phones -> Seq(Writes)]
  BY <1>3 DEF TypeOK, ws
<1>5. ASSUME NEW e \in Phones PROVE sent[e] <= Len(outbox'[e])
  <2>1. sent[e] \in Nat /\ Len(outbox[e]) \in Nat /\ sent[e] <= Len(outbox[e])
    BY <1>2
  <2>2. Len(outbox'[e]) = Len(outbox[e]) + 3 \/ outbox'[e] = outbox[e]
    BY <1>3 DEF TypeOK, ws
  <2> QED BY <2>1, <2>2
<1> QED
  BY <1>4, <1>5

(* Nor do the callbacks. *)
LEMMA CallbackType ==
  ASSUME TypeOK, NEW d \in Phones, NEW s \in Slots, Callback(d, s)
  PROVE  TypeOK'
<1>r. reads[d][s] \in Reads
  BY DEF TypeOK
<1>1. ASSUME GotMenuBasket(d, s) PROVE TypeOK'
  <2>1. reads' \in [Phones -> [Slots -> Reads]]
    BY <1>1, SettleType DEF GotMenuBasket, TypeOK
  <2>2. menuBasket' \in [Phones -> AllBaskets]
    BY <1>1, <1>r DEF GotMenuBasket, TypeOK, Reads
  <2> QED
    BY <1>1, <2>1, <2>2 DEF GotMenuBasket, TypeOK, server, link, counters
<1>2. ASSUME GotMenuProducts(d, s) PROVE TypeOK'
  <2>1. reads' \in [Phones -> [Slots -> Reads]]
    BY <1>2, SettleType DEF GotMenuProducts, TypeOK
  <2>2. menuRows' \in [Phones -> SUBSET Products]
    BY <1>2 DEF GotMenuProducts, TypeOK, MenuOf
  <2> QED
    BY <1>2, <2>1, <2>2 DEF GotMenuProducts, TypeOK, server, link, counters
<1>3. ASSUME GotBasket(d, s) PROVE TypeOK'
  <2>1. reads' \in [Phones -> [Slots -> Reads]]
    BY <1>3, SettleType DEF GotBasket, TypeOK
  <2>2. cart' \in [Phones -> AllBaskets]
    BY <1>3, <1>r DEF GotBasket, TypeOK, Reads
  <2> QED
    BY <1>3, <2>1, <2>2 DEF GotBasket, TypeOK, server, link, menuVars, counters
<1>4. ASSUME GotPressRestaurants(d, s) PROVE TypeOK'
  <2>1. reads' \in [Phones -> [Slots -> Reads]] /\ sheet' \in [Phones -> Sheets]
    <3>1. CASE Settle(d, s) /\ Present(d, Sheet("retryOrder"))
      BY <3>1, SettleType, PresentType, SheetTypes DEF TypeOK
    <3>2. ASSUME NEW n \in Numbers,
                 reads' = [reads EXCEPT ![d][s] = SentWith("orderBasket", n)],
                 UNCHANGED sheet
          PROVE  reads' \in [Phones -> [Slots -> Reads]] /\ sheet' \in [Phones -> Sheets]
      BY <3>2, SentType DEF TypeOK
    <3> QED BY <1>4, <3>1, <3>2 DEF GotPressRestaurants
  <2> QED
    BY <1>4, <2>1 DEF GotPressRestaurants, TypeOK, server, link, menuVars, counters
<1>5. ASSUME makeOrder(d, s) PROVE TypeOK'
  <2> DEFINE b == reads[d][s].basket
             Info(p) == [restaurant |-> RestaurantOf[p],
                         number |-> reads[d][s].number]
  <2>1. CASE EndProcess(d, {"makeOrder"}) /\ UNCHANGED budgets
    <3>1. gestures' \in 0 .. MaxGestures /\ faults' \in 0 .. MaxFaults
      BY <2>1 DEF TypeOK, budgets
    <3> QED BY <2>1, <3>1, EndProcessType
  <2>2. ASSUME NEW p \in DOMAIN b,
               clock < MaxOrders,
               outbox' = [outbox EXCEPT ![d] = @ \o OrderWrites(NewOrder, b, Info(p))],
               made' = [made EXCEPT ![NewOrder] = [basket |-> b, info |-> Info(p)]],
               clock' = clock + 1,
               Settle(d, s),
               Present(d, Confirm(NewOrder)),
               UNCHANGED <<server, online, sent, up, tab, menuVars, cart, shown,
                           taps, traps, budgets>>
        PROVE  TypeOK'
    <3>1. NewOrder \in Orders
      BY <2>2, OrderingAssumption DEF NewOrder, Orders, TypeOK
    <3>2. b \in AllBaskets
      BY <1>r DEF Reads
    <3>3. Info(p) \in Infos
      <4>1. p \in Products
        BY <3>2, BasketElim
      <4>2. reads[d][s].number \in Numbers
        BY <1>5, <1>r DEF makeOrder, Answered, Reads
      <4> QED BY <4>1, <4>2, CatalogueAssumption DEF Infos
    <3>4. outbox' \in [Phones -> Seq(Writes)] /\ \A e \in Phones : sent[e] <= Len(outbox'[e])
      BY <2>2, <3>1, <3>2, <3>3, OrderQueueType
    <3>5. reads' \in [Phones -> [Slots -> Reads]]
      BY <2>2, SettleType DEF TypeOK
    <3>6. sheet' \in [Phones -> Sheets]
      BY <2>2, <3>1, PresentType, SheetTypes DEF TypeOK
    <3>7. clock' \in 0 .. MaxOrders
      BY <2>2, OrderingAssumption DEF TypeOK
    <3>8. made' \in [Orders -> Contents]
      BY <2>2, <3>1, <3>2, <3>3 DEF TypeOK, Contents
    <3> QED
      BY <2>2, <3>4, <3>5, <3>6, <3>7, <3>8 DEF TypeOK, server, menuVars, budgets
  <2> QED BY <1>5, <2>1, <2>2 DEF makeOrder
<1>6. ASSUME GotOrdersRestaurants(d, s) PROVE TypeOK'
  <2>1. reads' \in [Phones -> [Slots -> Reads]]
    <3>1. Sent("orders") \in Reads /\ Sent("idle") \in Reads
      BY SentType DEF ReadKinds
    <3> QED BY <1>6, <3>1 DEF GotOrdersRestaurants, TypeOK
  <2> QED
    BY <1>6, <2>1 DEF GotOrdersRestaurants, TypeOK, server, link, screens, counters
<1>7. ASSUME GotOrders(d, s) PROVE TypeOK'
  <2>1. CASE EndProcess(d, {"getOrders"}) /\ UNCHANGED budgets
    <3>1. gestures' \in 0 .. MaxGestures /\ faults' \in 0 .. MaxFaults
      BY <2>1 DEF TypeOK, budgets
    <3> QED BY <2>1, <3>1, EndProcessType
  <2>2. CASE /\ shown' = [shown EXCEPT ![d] = reads[d][s].infos]
             /\ Settle(d, s)
             /\ UNCHANGED <<server, link, up, tab, menuVars, cart, sheet, counters>>
    <3>1. reads' \in [Phones -> [Slots -> Reads]]
      BY <2>2, SettleType DEF TypeOK
    <3>2. shown' \in [Phones -> SUBSET Orders]
      BY <2>2, <1>r DEF TypeOK, Reads
    <3> QED
      BY <2>2, <3>1, <3>2 DEF TypeOK, server, link, menuVars, counters
  <2> QED BY <1>7, <2>1, <2>2 DEF GotOrders
<1> QED
  BY <1>1, <1>2, <1>3, <1>4, <1>5, <1>6, <1>7 DEF Callback

LEMMA AnswerType ==
  ASSUME TypeOK, NEW d \in Phones, NEW s \in Slots, Answer(d, s)
  PROVE  TypeOK'
<1> DEFINE r == reads[d][s]
           ps == IF r.kind = "orders" THEN VisibleProducts(d) ELSE {}
           is == IF r.kind = "orders" THEN VisibleInfos(d) ELSE {}
<1>1. PICK b \in IF r.kind \in BasketReads THEN VisibleBasket(d) ELSE {EmptyBasket} :
        reads' = [reads EXCEPT ![d][s] =
          [kind |-> r.kind, phase |-> "answered", basket |-> b,
           products |-> ps, infos |-> is, number |-> r.number]]
  BY DEF Answer
<1>2. b \in AllBaskets
  BY VisibleBasketType, EmptyBasketType
<1>3. ps \subseteq Orders /\ is \subseteq Orders
  BY DEF VisibleProducts, VisibleInfos
<1>4. [kind |-> r.kind, phase |-> "answered", basket |-> b,
       products |-> ps, infos |-> is, number |-> r.number] \in Reads
  <2>1. reads[d][s] \in Reads
    BY DEF TypeOK
  <2> HIDE DEF ps, is
  <2> QED BY <2>1, <1>2, <1>3 DEF Reads
<1>5. reads' \in [Phones -> [Slots -> Reads]]
  BY <1>1, <1>4 DEF TypeOK
<1> QED
  BY <1>5 DEF Answer, TypeOK, server, link, screens, counters

(* Every step keeps the types. *)
LEMMA TypeStep == TypeOK /\ [Next]_vars => TypeOK'
<1> SUFFICES ASSUME TypeOK, [Next]_vars PROVE TypeOK'
  OBVIOUS
<1>1. ASSUME NEW d \in Phones, User(d) PROVE TypeOK'
  BY <1>1, UserType
<1>2. ASSUME NEW d \in Phones, System(d) PROVE TypeOK'
  <2>1. ASSUME ServerApply(d) PROVE TypeOK'
    BY <2>1, ServerApplyType
  <2>2. ASSUME Acknowledge(d) PROVE TypeOK'
    BY <2>2, AcknowledgeType
  <2>3. ASSUME GoOnline(d) PROVE TypeOK'
    BY <2>3 DEF GoOnline, TypeOK, server, screens, counters
  <2>4. ASSUME Launch(d) PROVE TypeOK'
    BY <2>4 DEF Launch, TypeOK, server, link, menuVars, counters
  <2>5. ASSUME NEW s \in Slots, Answer(d, s) PROVE TypeOK'
    BY <2>5, AnswerType
  <2>6. ASSUME NEW s \in Slots, Callback(d, s) PROVE TypeOK'
    BY <2>6, CallbackType
  <2> QED
    BY <1>2, <2>1, <2>2, <2>3, <2>4, <2>5, <2>6 DEF System
<1>3. ASSUME NEW d \in Phones, Fault(d) PROVE TypeOK'
  <2>g. gestures' \in 0 .. MaxGestures /\ faults' \in 0 .. MaxFaults
    BY <1>3, OrderingAssumption DEF Fault, TypeOK
  <2>0. \A e \in Phones : Len(outbox[e]) \in Nat
    BY DEF TypeOK
  <2>1. ASSUME Kill(d) PROVE TypeOK'
    BY <2>1, <2>g, EndProcessType DEF Kill
  <2>2. ASSUME GoOffline(d) PROVE TypeOK'
    BY <2>0, <2>2, <2>g DEF GoOffline, TypeOK, server, screens, tallies
  <2>3. ASSUME Reconnect(d) PROVE TypeOK'
    BY <2>0, <2>3, <2>g DEF Reconnect, TypeOK, server, screens, tallies
  <2>4. ASSUME NEW s \in Slots, Refuse(d, s) PROVE TypeOK'
    <3>1. reads' \in [Phones -> [Slots -> Reads]]
      BY <2>4, SettleType DEF Refuse, TypeOK
    <3> QED
      BY <2>4, <2>g, <3>1 DEF Refuse, TypeOK, server, link, screens, tallies
  <2> QED
    BY <1>3, <2>1, <2>2, <2>3, <2>4 DEF Fault
<1>4. CASE UNCHANGED vars
  BY <1>4 DEF vars, TypeOK
<1> QED
  BY <1>1, <1>2, <1>3, <1>4 DEF Next

LEMMA TypeInit == Init => TypeOK
<1> SUFFICES ASSUME Init PROVE TypeOK
  OBVIOUS
<1>1. dbBasket \in AllBaskets
  BY OrderingAssumption DEF Init
<1>2. /\ dbProducts \in [Orders -> AllBaskets]
      /\ menuBasket \in [Phones -> AllBaskets]
      /\ cart \in [Phones -> AllBaskets]
  BY EmptyBasketType DEF Init
<1>5. made \in [Orders -> Contents]
  BY EmptyBasketType DEF Init, Contents, NotMade
<1>3. /\ outbox \in [Phones -> Seq(Writes)] /\ sent \in [Phones -> Nat]
      /\ \A d \in Phones : sent[d] <= Len(outbox[d])
  <2>1. <<>> \in Seq(Writes) /\ Len(<<>>) = 0
    OBVIOUS
  <2> QED BY <2>1 DEF Init
<1>4. reads \in [Phones -> [Slots -> Reads]] /\ sheet \in [Phones -> Sheets]
  BY NoReadsType, SheetTypes DEF Init
<1> QED
  BY <1>1, <1>2, <1>3, <1>4, <1>5, OrderingAssumption DEF Init, TypeOK, Tabs

(* The types of Ordering hold of every reachable state.                    *)
THEOREM TypeCorrect == Spec => []TypeOK
<1> QED
  BY TypeInit, TypeStep, PTL DEF Spec

-----------------------------------------------------------------------------
(* One restaurant per basket *)

LEMMA SingleEmpty == SingleRestaurant(EmptyBasket)
BY EmptyBasketType DEF SingleRestaurant

LEMMA SentBasket == \A k : Sent(k).basket = EmptyBasket
BY DEF Sent, SentWith

(* The check of the add button keeps the menu's basket in one restaurant.  *)
LEMMA AddOneSingle ==
  ASSUME NEW b \in AllBaskets, NEW p \in Products, SingleRestaurant(b),
         TRUE \in checkRestaurantId(b, RestaurantOf[p]),
         p \in DOMAIN b => b[p] < MaxAmount
  PROVE  SingleRestaurant(AddOne(b, p))
<1>1. \A q \in DOMAIN b : RestaurantOf[q] = RestaurantOf[p]
  <2>1. CASE DOMAIN b = {}
    BY <2>1
  <2>2. CASE DOMAIN b # {}
    <3>1. PICK q \in DOMAIN b : RestaurantOf[q] = RestaurantOf[p]
      BY <2>2 DEF checkRestaurantId
    <3> QED BY <3>1 DEF SingleRestaurant
  <2> QED BY <2>1, <2>2
<1>2. DOMAIN AddOne(b, p) = DOMAIN b \cup {p}
  BY AddOneType
<1> QED
  BY <1>1, <1>2 DEF SingleRestaurant

LEMMA RequestSingle ==
  ASSUME NEW d \in Phones, NEW rs \in [Slots -> Reads], NEW K,
         reads \in [Phones -> [Slots -> Reads]], ReadsSingle,
         \A s \in Slots : SingleRestaurant(rs[s].basket),
         Request(d, rs, K)
  PROVE  ReadsSingle'
<1>1. PICK g : reads' = [reads EXCEPT ![d] =
                 [s \in Slots |-> IF s \in IdleIn(rs) THEN Sent(g[s]) ELSE rs[s]]]
  BY DEF Request
<1>2. \A s \in Slots : SingleRestaurant(reads'[d][s].basket)
  BY <1>1, SentBasket, SingleEmpty
<1>3. \A e \in Phones : e # d => reads'[e] = reads[e]
  BY <1>1
<1> QED
  BY <1>2, <1>3 DEF ReadsSingle

LEMMA SettleSingle ==
  ASSUME NEW d \in Phones, NEW s \in Slots,
         reads \in [Phones -> [Slots -> Reads]], ReadsSingle, Settle(d, s)
  PROVE  ReadsSingle'
BY SentBasket, SingleEmpty DEF Settle, ReadsSingle

(* The writes of an order, at the end of a queue. *)
LEMMA AppendedWrite ==
  ASSUME NEW q \in Seq(Writes), NEW w \in Writes
  PROVE  /\ Len(Append(q, w)) = Len(q) + 1
         /\ \A i \in 1 .. Len(q) : Append(q, w)[i] = q[i]
         /\ Append(q, w)[Len(q) + 1] = w
BY AppendProperties, SMT

LEMMA AppendedOrder ==
  ASSUME NEW q \in Seq(Writes), NEW o \in Orders, NEW b \in AllBaskets, NEW i \in Infos
  PROVE  /\ Len(q \o OrderWrites(o, b, i)) = Len(q) + 3
         /\ \A j \in 1 .. Len(q) : (q \o OrderWrites(o, b, i))[j] = q[j]
         /\ (q \o OrderWrites(o, b, i))[Len(q) + 1] = ProductsWrite(o, b)
         /\ (q \o OrderWrites(o, b, i))[Len(q) + 2] = InfoWrite(o, i)
         /\ (q \o OrderWrites(o, b, i))[Len(q) + 3] = RemoveWrite(o)
<1> DEFINE ws == OrderWrites(o, b, i)
           r == q \o ws
           n == Len(q)
<1>1. ws \in Seq(Writes) /\ Len(ws) = 3
  BY WriteTypes DEF OrderWrites
<1>2. ws[1] = ProductsWrite(o, b) /\ ws[2] = InfoWrite(o, i) /\ ws[3] = RemoveWrite(o)
  BY DEF OrderWrites
<1> HIDE DEF ws
<1>3. Len(r) = n + Len(ws)
  BY <1>1, ConcatProperties, Zenon
<1>4. \A j \in 1 .. n + Len(ws) : r[j] = IF j <= n THEN q[j] ELSE ws[j - n]
  BY <1>1, <1>3, ConcatProperties
<1>5. n \in Nat
  OBVIOUS
<1>6. /\ \A j \in 1 .. n : r[j] = q[j]
      /\ r[n + 1] = ws[1] /\ r[n + 2] = ws[2] /\ r[n + 3] = ws[3]
  <2> HIDE DEF r, n
  <2> QED BY <1>1, <1>4, <1>5
<1> QED
  BY <1>1, <1>2, <1>3, <1>6 DEF ws

(* What makeOrder does to the queues. *)
LEMMA QueuedOrder ==
  ASSUME TypeOK, NEW d \in Phones, NEW o \in Orders, NEW b \in AllBaskets, NEW i \in Infos,
         outbox' = [outbox EXCEPT ![d] = @ \o OrderWrites(o, b, i)]
  PROVE  /\ \A e \in Phones : e # d => outbox'[e] = outbox[e]
         /\ Len(outbox[d]) \in Nat
         /\ Len(outbox'[d]) = Len(outbox[d]) + 3
         /\ \A j \in 1 .. Len(outbox'[d]) :
              \/ j \in 1 .. Len(outbox[d]) /\ outbox'[d][j] = outbox[d][j]
              \/ j = Len(outbox[d]) + 1 /\ outbox'[d][j] = ProductsWrite(o, b)
              \/ j = Len(outbox[d]) + 2 /\ outbox'[d][j] = InfoWrite(o, i)
              \/ j = Len(outbox[d]) + 3 /\ outbox'[d][j] = RemoveWrite(o)
<1>1. outbox[d] \in Seq(Writes) /\ Len(outbox[d]) \in Nat
  BY DEF TypeOK
<1>2. outbox'[d] = outbox[d] \o OrderWrites(o, b, i)
  BY DEF TypeOK
<1>3. \A e \in Phones : e # d => outbox'[e] = outbox[e]
  BY DEF TypeOK
<1> DEFINE n == Len(outbox[d])
<1>4. /\ Len(outbox'[d]) = n + 3
      /\ \A j \in 1 .. n : outbox'[d][j] = outbox[d][j]
      /\ outbox'[d][n + 1] = ProductsWrite(o, b)
      /\ outbox'[d][n + 2] = InfoWrite(o, i)
      /\ outbox'[d][n + 3] = RemoveWrite(o)
  <2> DEFINE r == outbox[d] \o OrderWrites(o, b, i)
  <2>1. /\ Len(r) = n + 3
        /\ \A j \in 1 .. n : r[j] = outbox[d][j]
        /\ r[n + 1] = ProductsWrite(o, b)
        /\ r[n + 2] = InfoWrite(o, i)
        /\ r[n + 3] = RemoveWrite(o)
    BY <1>1, AppendedOrder
  <2> HIDE DEF n, r
  <2>2. outbox'[d] = r
    BY <1>2 DEF r
  <2> QED BY <2>1, <2>2
<1>5. \A j \in 1 .. n + 3 : j \in 1 .. n \/ j = n + 1 \/ j = n + 2 \/ j = n + 3
  BY <1>1
<1> QED
  <2> HIDE DEF n
  <2>1. \A j \in 1 .. n + 3 :
          \/ j \in 1 .. n /\ outbox'[d][j] = outbox[d][j]
          \/ j = n + 1 /\ outbox'[d][j] = ProductsWrite(o, b)
          \/ j = n + 2 /\ outbox'[d][j] = InfoWrite(o, i)
          \/ j = n + 3 /\ outbox'[d][j] = RemoveWrite(o)
    BY <1>4, <1>5, Zenon
  <2> QED BY <1>1, <1>3, <1>4, <2>1 DEF n

LEMMA postBasketSingle ==
  ASSUME TypeOK, NEW d \in Phones, ScreensSingle, QueueSingle, postBasket(d)
  PROVE  QueueSingle'
<1> DEFINE w == BasketWrite(menuBasket[d])
<1>1. w \in Writes /\ SingleRestaurant(w.basket)
  BY WriteTypes DEF TypeOK, BasketWrite, ScreensSingle
<1>2. outbox[d] \in Seq(Writes) /\ Len(outbox[d]) \in Nat
  BY DEF TypeOK
<1>3. CASE outbox' = [outbox EXCEPT ![d] = Append(@, w)]
  <2>1. outbox'[d] = Append(outbox[d], w)
    BY <1>3 DEF TypeOK
  <2>2. \A i \in 1 .. Len(outbox'[d]) : SingleRestaurant(outbox'[d][i].basket)
    <3> HIDE DEF w
    <3>1. /\ Len(outbox'[d]) = Len(outbox[d]) + 1
          /\ \A i \in 1 .. Len(outbox[d]) : outbox'[d][i] = outbox[d][i]
          /\ outbox'[d][Len(outbox[d]) + 1] = w
      BY <1>1, <1>2, <2>1, AppendedWrite
    <3> QED BY <1>1, <1>2, <3>1 DEF QueueSingle
  <2>3. \A e \in Phones : e # d => outbox'[e] = outbox[e]
    BY <1>3 DEF TypeOK
  <2> QED BY <2>2, <2>3 DEF QueueSingle
<1>4. CASE outbox' = outbox
  BY <1>4 DEF QueueSingle
<1> QED
  BY <1>3, <1>4 DEF postBasket

LEMMA OrderQueueSingle ==
  ASSUME TypeOK, QueueSingle, NEW d \in Phones, NEW o \in Orders,
         NEW b \in AllBaskets, NEW i \in Infos, SingleRestaurant(b),
         outbox' = [outbox EXCEPT ![d] = @ \o OrderWrites(o, b, i)]
  PROVE  QueueSingle'
<1>1. /\ ProductsWrite(o, b).basket = b
      /\ InfoWrite(o, i).basket = EmptyBasket
      /\ RemoveWrite(o).basket = EmptyBasket
  BY DEF ProductsWrite, InfoWrite, RemoveWrite
<1>2. ASSUME NEW j \in 1 .. Len(outbox'[d])
      PROVE  SingleRestaurant(outbox'[d][j].basket)
  <2>1. \/ j \in 1 .. Len(outbox[d]) /\ outbox'[d][j] = outbox[d][j]
        \/ outbox'[d][j] = ProductsWrite(o, b)
        \/ outbox'[d][j] = InfoWrite(o, i)
        \/ outbox'[d][j] = RemoveWrite(o)
    <3>1. \A k \in 1 .. Len(outbox'[d]) :
            \/ k \in 1 .. Len(outbox[d]) /\ outbox'[d][k] = outbox[d][k]
            \/ k = Len(outbox[d]) + 1 /\ outbox'[d][k] = ProductsWrite(o, b)
            \/ k = Len(outbox[d]) + 2 /\ outbox'[d][k] = InfoWrite(o, i)
            \/ k = Len(outbox[d]) + 3 /\ outbox'[d][k] = RemoveWrite(o)
      BY QueuedOrder, Zenon
    <3> QED BY <1>2, <3>1, Zenon
  <2> QED
    BY <1>1, <2>1, SingleEmpty DEF QueueSingle
<1>3. \A e \in Phones : e # d => outbox'[e] = outbox[e]
  BY QueuedOrder, Zenon
<1> QED
  BY <1>2, <1>3 DEF QueueSingle

LEMMA EndProcessSingle ==
  ASSUME TypeOK, OneRestaurantPerBasket, RowsOfMenu, NEW d \in Phones, NEW sites,
         EndProcess(d, sites)
  PROVE  OneRestaurantPerBasket' /\ RowsOfMenu'
<1>1. StoredSingle'
  BY DEF EndProcess, server, OneRestaurantPerBasket, StoredSingle
<1>2. ScreensSingle'
  BY SingleEmpty DEF EndProcess, OneRestaurantPerBasket, ScreensSingle, TypeOK
<1>3. ReadsSingle'
  BY SentBasket, SingleEmpty
     DEF EndProcess, OneRestaurantPerBasket, ReadsSingle, TypeOK, NoReads
<1>4. QueueSingle'
  <2>1. Len(<<>>) = 0
    OBVIOUS
  <2> QED BY <2>1 DEF EndProcess, OneRestaurantPerBasket, QueueSingle, TypeOK
<1>5. RowsOfMenu'
  BY DEF EndProcess, RowsOfMenu, TypeOK
<1> QED
  BY <1>1, <1>2, <1>3, <1>4, <1>5 DEF OneRestaurantPerBasket

(* Gestures. *)
LEMMA UserSingle ==
  ASSUME TypeOK, OneRestaurantPerBasket, RowsOfMenu, NEW d \in Phones, User(d)
  PROVE  OneRestaurantPerBasket' /\ RowsOfMenu'
<1> USE DEF OneRestaurantPerBasket
<1>r. /\ reads \in [Phones -> [Slots -> Reads]]
      /\ reads[d] \in [Slots -> Reads]
      /\ \A s \in Slots : SingleRestaurant(reads[d][s].basket)
  BY DEF TypeOK, ReadsSingle
<1>1. ASSUME NEW t \in Tabs, SelectTab(d, t)
      PROVE  OneRestaurantPerBasket' /\ RowsOfMenu'
  <2>1. QueueSingle'
    <3>1. CASE postBasket(d)
      BY <3>1, postBasketSingle
    <3>2. CASE UNCHANGED outbox
      BY <3>2 DEF QueueSingle
    <3> QED BY <1>1, <3>1, <3>2 DEF SelectTab, LeaveTab
  <2>2. ReadsSingle'
    BY <1>1, <1>r, RequestSingle DEF SelectTab
  <2> QED
    BY <1>1, <2>1, <2>2
       DEF SelectTab, server, menuVars, StoredSingle, ScreensSingle, RowsOfMenu
<1>2. ASSUME NEW r \in Restaurants, OpenMenu(d, r)
      PROVE  OneRestaurantPerBasket' /\ RowsOfMenu'
  <2>1. ReadsSingle'
    BY <1>2, <1>r, RequestSingle DEF OpenMenu
  <2>2. ScreensSingle'
    BY <1>2, SingleEmpty DEF OpenMenu, TypeOK, ScreensSingle
  <2>3. RowsOfMenu'
    BY <1>2 DEF OpenMenu, TypeOK, RowsOfMenu
  <2> QED
    BY <1>2, <2>1, <2>2, <2>3 DEF OpenMenu, server, link, StoredSingle, QueueSingle
<1>3. ASSUME CloseMenu(d)
      PROVE  OneRestaurantPerBasket' /\ RowsOfMenu'
  <2>1. QueueSingle'
    BY <1>3, postBasketSingle DEF CloseMenu
  <2>2. ScreensSingle'
    BY <1>3, SingleEmpty DEF CloseMenu, TypeOK, ScreensSingle
  <2>3. ReadsSingle'
    BY <1>3, SentBasket, SingleEmpty DEF CloseMenu, TypeOK, ReadsSingle
  <2>4. RowsOfMenu'
    BY <1>3 DEF CloseMenu, TypeOK, RowsOfMenu
  <2> QED
    BY <1>3, <2>1, <2>2, <2>3, <2>4 DEF CloseMenu, server, StoredSingle
<1>4. ASSUME NEW p \in Products, TapAdd(d, p)
      PROVE  OneRestaurantPerBasket' /\ RowsOfMenu'
  <2>1. ScreensSingle'
    <3>1. CASE /\ TRUE \in checkRestaurantId(menuBasket[d], menu[d])
               /\ p \in DOMAIN menuBasket[d] => menuBasket[d][p] < MaxAmount
               /\ menuBasket' = [menuBasket EXCEPT ![d] = AddOne(@, p)]
      <4>1. RestaurantOf[p] = menu[d]
        BY <1>4 DEF TapAdd, RowsOfMenu, MenuOf
      <4>2. SingleRestaurant(AddOne(menuBasket[d], p))
        BY <3>1, <4>1, AddOneSingle DEF TypeOK, ScreensSingle
      <4> QED
        BY <1>4, <3>1, <4>2 DEF TapAdd, TypeOK, ScreensSingle
    <3>2. CASE UNCHANGED menuBasket
      BY <1>4, <3>2 DEF TapAdd, ScreensSingle
    <3> QED
      <4>1. PICK same \in checkRestaurantId(menuBasket[d], menu[d]) :
              \/ /\ same
                 /\ p \in DOMAIN menuBasket[d] => menuBasket[d][p] < MaxAmount
                 /\ menuBasket' = [menuBasket EXCEPT ![d] = AddOne(@, p)]
              \/ UNCHANGED menuBasket
        BY <1>4 DEF TapAdd
      <4>2. checkRestaurantId(menuBasket[d], menu[d]) \subseteq BOOLEAN
        BY DEF checkRestaurantId
      <4>3. same => TRUE \in checkRestaurantId(menuBasket[d], menu[d])
        BY <4>2, Zenon
      <4> QED BY <4>1, <4>3, <3>1, <3>2
  <2> QED
    BY <1>4, <2>1
       DEF TapAdd, server, link, StoredSingle, ReadsSingle, QueueSingle, RowsOfMenu
<1>5. ASSUME NEW p \in Products, TapMinus(d, p)
      PROVE  OneRestaurantPerBasket' /\ RowsOfMenu'
  <2>1. CASE EndProcess(d, {"minus"})
    BY <2>1, EndProcessSingle
  <2>2. CASE /\ menuBasket' = [menuBasket EXCEPT ![d] = MinusOne(@, p)]
             /\ UNCHANGED <<server, link, reads, up, tab, menu, menuRows, cart,
                            sheet, shown, tallies>>
    <3>1. SingleRestaurant(MinusOne(menuBasket[d], p))
      BY MinusOneType DEF TypeOK, ScreensSingle, SingleRestaurant
    <3>2. ScreensSingle'
      BY <2>2, <3>1 DEF TypeOK, ScreensSingle
    <3> QED
      BY <2>2, <3>2 DEF server, link, StoredSingle, ReadsSingle, QueueSingle, RowsOfMenu
  <2> QED BY <1>5, <2>1, <2>2 DEF TapMinus
<1>6. ASSUME NEW ok \in BOOLEAN, AnswerClear(d, ok)
      PROVE  OneRestaurantPerBasket' /\ RowsOfMenu'
  <2>1. ScreensSingle'
    BY <1>6, SingleEmpty DEF AnswerClear, TypeOK, ScreensSingle
  <2> QED
    BY <1>6, <2>1
       DEF AnswerClear, server, link, StoredSingle, ReadsSingle, QueueSingle, RowsOfMenu
<1>7. ASSUME TapOrder(d)
      PROVE  OneRestaurantPerBasket' /\ RowsOfMenu'
  <2>1. ReadsSingle'
    BY <1>7, <1>r, RequestSingle DEF TapOrder
  <2> QED
    BY <1>7, <2>1 DEF TapOrder, server, link, screens, StoredSingle, ScreensSingle,
                      QueueSingle, RowsOfMenu
<1>8. ASSUME RetryBasket(d) \/ RetryOrder(d)
      PROVE  OneRestaurantPerBasket' /\ RowsOfMenu'
  <2>1. ReadsSingle'
    BY <1>8, <1>r, RequestSingle DEF RetryBasket, RetryOrder
  <2> QED
    BY <1>8, <2>1 DEF RetryBasket, RetryOrder, server, link, menuVars, StoredSingle,
                      ScreensSingle, QueueSingle, RowsOfMenu
<1>9. ASSUME TapConfirmed(d)
      PROVE  OneRestaurantPerBasket' /\ RowsOfMenu'
  <2>1. ReadsSingle'
    BY <1>9, <1>r, RequestSingle DEF TapConfirmed
  <2>2. ScreensSingle'
    BY <1>9, SingleEmpty DEF TapConfirmed, TypeOK, menuVars, ScreensSingle
  <2> QED
    BY <1>9, <2>1, <2>2
       DEF TapConfirmed, server, link, menuVars, StoredSingle, QueueSingle, RowsOfMenu
<1> QED
  BY <1>1, <1>2, <1>3, <1>4, <1>5, <1>6, <1>7, <1>8, <1>9 DEF User

(* The basket that a read returns. *)
LEMMA VisibleBasketSingle ==
  ASSUME TypeOK, StoredSingle, QueueSingle, NEW d \in Phones, NEW b \in VisibleBasket(d)
  PROVE  SingleRestaurant(b)
<1>1. CASE b = dbBasket
  BY <1>1 DEF StoredSingle
<1>2. CASE b \in PendingBasket(d)
  BY <1>2 DEF PendingBasket, QueueSingle
<1> QED
  BY <1>1, <1>2 DEF VisibleBasket

(* Callbacks. *)
LEMMA CallbackSingle ==
  ASSUME TypeOK, OneRestaurantPerBasket, RowsOfMenu, NEW d \in Phones, NEW s \in Slots,
         Callback(d, s)
  PROVE  OneRestaurantPerBasket' /\ RowsOfMenu'
<1> USE DEF OneRestaurantPerBasket
<1>r. /\ reads \in [Phones -> [Slots -> Reads]] /\ reads[d][s] \in Reads
      /\ SingleRestaurant(reads[d][s].basket)
  BY DEF TypeOK, ReadsSingle
<1>s. Settle(d, s) => ReadsSingle'
  BY <1>r, SettleSingle
<1>1. ASSUME GotMenuBasket(d, s) \/ GotMenuProducts(d, s) \/ GotBasket(d, s)
      PROVE  OneRestaurantPerBasket' /\ RowsOfMenu'
  <2>1. ScreensSingle'
    BY <1>1, <1>r
       DEF GotMenuBasket, GotMenuProducts, GotBasket, menuVars, TypeOK, ScreensSingle
  <2>2. RowsOfMenu'
    BY <1>1 DEF GotMenuBasket, GotMenuProducts, GotBasket, menuVars, TypeOK, RowsOfMenu
  <2>3. ReadsSingle' /\ StoredSingle' /\ QueueSingle'
    BY <1>1, <1>s DEF GotMenuBasket, GotMenuProducts, GotBasket, server, link,
                      StoredSingle, QueueSingle
  <2> QED BY <2>1, <2>2, <2>3
<1>2. ASSUME GotPressRestaurants(d, s)
      PROVE  OneRestaurantPerBasket' /\ RowsOfMenu'
  <2>1. ReadsSingle'
    <3>1. ASSUME NEW n \in Numbers,
                 reads' = [reads EXCEPT ![d][s] = SentWith("orderBasket", n)]
          PROVE  ReadsSingle'
      <4>1. SentWith("orderBasket", n).basket = EmptyBasket
        BY DEF SentWith
      <4> QED BY <3>1, <4>1, <1>r, SingleEmpty DEF ReadsSingle
    <3> QED BY <1>2, <1>s, <3>1 DEF GotPressRestaurants
  <2> QED
    BY <1>2, <2>1 DEF GotPressRestaurants, server, link, menuVars, StoredSingle,
                      ScreensSingle, QueueSingle, RowsOfMenu
<1>3. ASSUME makeOrder(d, s)
      PROVE  OneRestaurantPerBasket' /\ RowsOfMenu'
  <2> DEFINE b == reads[d][s].basket
             Info(p) == [restaurant |-> RestaurantOf[p],
                         number |-> reads[d][s].number]
  <2>1. CASE EndProcess(d, {"makeOrder"})
    BY <2>1, EndProcessSingle
  <2>2. ASSUME NEW p \in DOMAIN b,
               clock < MaxOrders,
               outbox' = [outbox EXCEPT ![d] = @ \o OrderWrites(NewOrder, b, Info(p))],
               Settle(d, s),
               UNCHANGED <<server, online, sent, up, tab, menuVars, cart, shown>>
        PROVE  OneRestaurantPerBasket' /\ RowsOfMenu'
    <3>1. NewOrder \in Orders /\ b \in AllBaskets
      BY <2>2, <1>r, OrderingAssumption DEF NewOrder, Orders, TypeOK, Reads
    <3>2. Info(p) \in Infos
      <4>1. p \in Products
        BY <3>1, BasketElim
      <4>2. reads[d][s].number \in Numbers
        BY <1>3, <1>r DEF makeOrder, Answered, Reads
      <4> QED BY <4>1, <4>2, CatalogueAssumption DEF Infos
    <3> HIDE DEF Info
    <3>5. QueueSingle'
      BY <2>2, <1>r, <3>1, <3>2, OrderQueueSingle
    <3> QED
      BY <2>2, <1>s, <3>5
         DEF server, menuVars, StoredSingle, ScreensSingle, RowsOfMenu
  <2> QED BY <1>3, <2>1, <2>2 DEF makeOrder
<1>4. ASSUME GotOrdersRestaurants(d, s)
      PROVE  OneRestaurantPerBasket' /\ RowsOfMenu'
  <2>1. ReadsSingle'
    BY <1>4, <1>r, SentBasket, SingleEmpty DEF GotOrdersRestaurants, ReadsSingle
  <2> QED
    BY <1>4, <2>1 DEF GotOrdersRestaurants, server, link, screens, StoredSingle,
                      ScreensSingle, QueueSingle, RowsOfMenu
<1>5. ASSUME GotOrders(d, s)
      PROVE  OneRestaurantPerBasket' /\ RowsOfMenu'
  <2>1. CASE EndProcess(d, {"getOrders"})
    BY <2>1, EndProcessSingle
  <2>2. CASE /\ Settle(d, s)
             /\ UNCHANGED <<server, link, up, tab, menuVars, cart, sheet, counters>>
    BY <2>2, <1>s DEF server, link, menuVars, StoredSingle, ScreensSingle,
                      QueueSingle, RowsOfMenu
  <2> QED BY <1>5, <2>1, <2>2 DEF GotOrders
<1> QED
  BY <1>1, <1>2, <1>3, <1>4, <1>5 DEF Callback

LEMMA AnswerSingle ==
  ASSUME TypeOK, OneRestaurantPerBasket, RowsOfMenu, NEW d \in Phones, NEW s \in Slots,
         Answer(d, s)
  PROVE  OneRestaurantPerBasket' /\ RowsOfMenu'
<1> USE DEF OneRestaurantPerBasket
<1> DEFINE r == reads[d][s]
           ps == IF r.kind = "orders" THEN VisibleProducts(d) ELSE {}
           is == IF r.kind = "orders" THEN VisibleInfos(d) ELSE {}
<1>1. PICK b \in IF r.kind \in BasketReads THEN VisibleBasket(d) ELSE {EmptyBasket} :
        reads' = [reads EXCEPT ![d][s] =
          [kind |-> r.kind, phase |-> "answered", basket |-> b,
           products |-> ps, infos |-> is, number |-> r.number]]
  BY DEF Answer
<1>2. SingleRestaurant(b)
  BY VisibleBasketSingle, SingleEmpty
<1>3. ReadsSingle'
  <2> HIDE DEF ps, is
  <2> QED BY <1>1, <1>2 DEF TypeOK, ReadsSingle
<1> QED
  BY <1>3 DEF Answer, server, link, screens, StoredSingle, ScreensSingle, QueueSingle,
              RowsOfMenu

LEMMA ServerApplySingle ==
  ASSUME TypeOK, OneRestaurantPerBasket, RowsOfMenu, NEW d \in Phones, ServerApply(d)
  PROVE  OneRestaurantPerBasket' /\ RowsOfMenu'
<1> USE DEF OneRestaurantPerBasket
<1> DEFINE w == outbox[d][sent[d] + 1]
<1>1. SingleRestaurant(w.basket)
  <2>1. sent[d] \in Nat /\ sent[d] < Len(outbox[d]) /\ Len(outbox[d]) \in Nat
    BY DEF TypeOK, ServerApply
  <2> QED BY <2>1 DEF QueueSingle
<1>2. StoredSingle'
  BY <1>1 DEF ServerApply, TypeOK, StoredSingle
<1> QED
  BY <1>2 DEF ServerApply, screens, ScreensSingle, ReadsSingle, QueueSingle, RowsOfMenu

LEMMA AcknowledgeSingle ==
  ASSUME TypeOK, OneRestaurantPerBasket, RowsOfMenu, NEW d \in Phones, Acknowledge(d)
  PROVE  OneRestaurantPerBasket' /\ RowsOfMenu'
<1> USE DEF OneRestaurantPerBasket
<1>1. outbox[d] \in Seq(Writes) /\ outbox[d] # <<>> /\ Len(outbox[d]) \in Nat
  BY DEF TypeOK, Acknowledge
<1>2. /\ Len(Tail(outbox[d])) = Len(outbox[d]) - 1
      /\ \A i \in 1 .. Len(Tail(outbox[d])) : Tail(outbox[d])[i] = outbox[d][i + 1]
  BY <1>1, HeadTailProperties
<1>3. \A i \in 1 .. Len(outbox'[d]) : SingleRestaurant(outbox'[d][i].basket)
  BY <1>1, <1>2 DEF Acknowledge, TypeOK, QueueSingle
<1>4. QueueSingle'
  BY <1>3 DEF Acknowledge, TypeOK, QueueSingle
<1> QED
  BY <1>4 DEF Acknowledge, server, screens, StoredSingle, ScreensSingle, ReadsSingle,
              RowsOfMenu

(* Every step. *)
LEMMA SingleStep ==
  TypeOK /\ OneRestaurantPerBasket /\ RowsOfMenu /\ [Next]_vars
    => OneRestaurantPerBasket' /\ RowsOfMenu'
<1> SUFFICES ASSUME TypeOK, OneRestaurantPerBasket, RowsOfMenu, [Next]_vars
             PROVE  OneRestaurantPerBasket' /\ RowsOfMenu'
  OBVIOUS
<1> USE DEF OneRestaurantPerBasket
<1>u. ASSUME UNCHANGED <<server, outbox, menuBasket, cart, menu, menuRows>>, ReadsSingle'
      PROVE  OneRestaurantPerBasket' /\ RowsOfMenu'
  BY <1>u DEF server, StoredSingle, ScreensSingle, QueueSingle, RowsOfMenu
<1>s. (UNCHANGED reads) => ReadsSingle'
  BY DEF ReadsSingle
<1>1. ASSUME NEW d \in Phones, User(d) PROVE OneRestaurantPerBasket' /\ RowsOfMenu'
  BY <1>1, UserSingle
<1>2. ASSUME NEW d \in Phones, System(d) PROVE OneRestaurantPerBasket' /\ RowsOfMenu'
  <2>1. CASE ServerApply(d) \/ Acknowledge(d)
    BY <2>1, ServerApplySingle, AcknowledgeSingle
  <2>2. CASE GoOnline(d) \/ Launch(d)
    BY <2>2, <1>u, <1>s DEF GoOnline, Launch, server, link, screens, menuVars
  <2>3. ASSUME NEW s \in Slots, Answer(d, s) \/ Callback(d, s)
        PROVE  OneRestaurantPerBasket' /\ RowsOfMenu'
    BY <2>3, AnswerSingle, CallbackSingle
  <2> QED BY <1>2, <2>1, <2>2, <2>3 DEF System
<1>3. ASSUME NEW d \in Phones, Fault(d) PROVE OneRestaurantPerBasket' /\ RowsOfMenu'
  <2>1. CASE Kill(d)
    BY <2>1, EndProcessSingle DEF Kill
  <2>2. CASE GoOffline(d) \/ Reconnect(d)
    BY <2>2, <1>u, <1>s DEF GoOffline, Reconnect, screens
  <2>3. ASSUME NEW s \in Slots, Refuse(d, s)
        PROVE  OneRestaurantPerBasket' /\ RowsOfMenu'
    BY <2>3, <1>u, SettleSingle DEF Refuse, link, screens, TypeOK
  <2> QED BY <1>3, <2>1, <2>2, <2>3 DEF Fault
<1>4. CASE UNCHANGED vars
  BY <1>4, <1>u, <1>s DEF vars, server
<1> QED
  BY <1>1, <1>2, <1>3, <1>4 DEF Next

LEMMA SingleInit == Init => OneRestaurantPerBasket /\ RowsOfMenu
<1> SUFFICES ASSUME Init PROVE OneRestaurantPerBasket /\ RowsOfMenu
  OBVIOUS
<1>1. StoredSingle /\ ScreensSingle
  BY SingleEmpty, OrderingAssumption DEF Init, StoredSingle, ScreensSingle
<1>2. ReadsSingle
  BY SentBasket, SingleEmpty DEF Init, ReadsSingle, NoReads
<1>3. QueueSingle
  <2>1. Len(<<>>) = 0
    OBVIOUS
  <2> QED BY <2>1 DEF Init, QueueSingle
<1>4. RowsOfMenu
  BY DEF Init, RowsOfMenu
<1> QED
  BY <1>1, <1>2, <1>3, <1>4 DEF OneRestaurantPerBasket

(* No copy of the basket ever mixes restaurants, however many phones edit  *)
(* and overwrite it: the rows a menu offers and the basket it edits are    *)
(* both of one restaurant, and everything else is a copy.                  *)
THEOREM OneRestaurant == Spec => []OneRestaurantPerBasket
<1>1. Init => TypeOK /\ OneRestaurantPerBasket /\ RowsOfMenu
  BY TypeInit, SingleInit
<1>2. /\ TypeOK /\ OneRestaurantPerBasket /\ RowsOfMenu
      /\ [Next]_vars
      => TypeOK' /\ OneRestaurantPerBasket' /\ RowsOfMenu'
  BY TypeStep, SingleStep
<1> QED
  BY <1>1, <1>2, PTL DEF Spec

-----------------------------------------------------------------------------
(***************************************************************************)
(* A tap on the order button makes at most one order: what a step may do   *)
(* to the presses on their way, and to the alerts that will press again.   *)
(***************************************************************************)
Pressing(r) == r.kind \in {"press", "orderBasket"}

(* Each alternative moves at most one press from one place to the next.    *)
PressStep ==
  \/ /\ Presses' \subseteq Presses /\ Retries' \subseteq Retries
     /\ clock' = clock /\ taps' = taps
  \/ /\ \E x : Presses' \subseteq Presses \cup {x}
     /\ Retries' \subseteq Retries
     /\ clock' = clock /\ taps' = taps + 1
  \/ /\ \E x : Presses' \subseteq Presses \cup {x}
     /\ \E d \in Retries : Retries' \subseteq Retries \ {d}
     /\ clock' = clock /\ taps' = taps
  \/ /\ \E x \in Presses : Presses' \subseteq Presses \ {x}
     /\ \E d : Retries' \subseteq Retries \cup {d}
     /\ clock' = clock /\ taps' = taps
  \/ /\ \E x \in Presses : Presses' \subseteq Presses \ {x}
     /\ Retries' \subseteq Retries
     /\ clock' = clock + 1 /\ taps' = taps

LEMMA PressesDef ==
  /\ \A e \in Phones, s \in Slots : <<e, s>> \in Presses <=> Pressing(reads[e][s])
  /\ \A x \in Presses : \E e \in Phones, s \in Slots : x = <<e, s>>
BY DEF Presses, Pressing

LEMMA PressesWithin ==
  ASSUME NEW P, \A e \in Phones, s \in Slots : Pressing(reads'[e][s]) => <<e, s>> \in P
  PROVE  Presses' \subseteq P
BY DEF Presses, Pressing

LEMMA SentKind == \A k, n : SentWith(k, n).kind = k
BY DEF SentWith

LEMMA SamePresses ==
  ASSUME UNCHANGED reads
  PROVE  Presses' \subseteq Presses
BY DEF Presses

LEMMA SameRetries ==
  ASSUME UNCHANGED sheet
  PROVE  Retries' \subseteq Retries
BY DEF Retries

(* The reads that a screen starts are no presses.                          *)
LEMMA RequestPresses ==
  ASSUME TypeOK, NEW d \in Phones, NEW K, "press" \notin K, "orderBasket" \notin K,
         Request(d, reads[d], K)
  PROVE  Presses' \subseteq Presses
<1>1. PICK g \in [IdleIn(reads[d]) -> (IF online[d] THEN K ELSE {}) \cup {"idle"}] :
        reads' = [reads EXCEPT ![d] =
          [s \in Slots |-> IF s \in IdleIn(reads[d]) THEN Sent(g[s]) ELSE reads[d][s]]]
  BY DEF Request
<1>2. \A e \in Phones, s \in Slots :
        \/ reads'[e][s] = reads[e][s]
        \/ \E k \in K \cup {"idle"} : reads'[e][s] = Sent(k)
  BY <1>1 DEF TypeOK
<1>3. \A k \in K \cup {"idle"} : ~Pressing(Sent(k))
  BY SentKind DEF Sent, Pressing
<1>4. \A e \in Phones, s \in Slots : Pressing(reads'[e][s]) => <<e, s>> \in Presses
  BY <1>2, <1>3, PressesDef
<1> QED
  BY <1>4, PressesWithin

(* A press starts in one slot.                                             *)
LEMMA RequestPress ==
  ASSUME TypeOK, NEW d \in Phones, Request(d, reads[d], {"press"})
  PROVE  \E x : Presses' \subseteq Presses \cup {x}
<1>1. PICK g \in [IdleIn(reads[d]) -> (IF online[d] THEN {"press"} ELSE {}) \cup {"idle"}] :
        /\ \A k \in IF online[d] THEN {"press"} ELSE {} :
             \E s \in IdleIn(reads[d]) : \A t \in IdleIn(reads[d]) : (g[t] = k) <=> (t = s)
        /\ reads' = [reads EXCEPT ![d] =
             [s \in Slots |-> IF s \in IdleIn(reads[d]) THEN Sent(g[s]) ELSE reads[d][s]]]
  BY DEF Request
<1>2. \A e \in Phones, s \in Slots :
        \/ reads'[e][s] = reads[e][s]
        \/ e = d /\ s \in IdleIn(reads[d]) /\ reads'[e][s] = Sent(g[s])
  BY <1>1 DEF TypeOK
<1>3. \E u : \A s \in IdleIn(reads[d]) : g[s] = "idle" \/ s = u
  <2>1. CASE online[d]
    BY <1>1, <2>1
  <2>2. CASE ~online[d]
    BY <1>1, <2>2
  <2> QED BY <2>1, <2>2
<1>4. PICK u : \A s \in IdleIn(reads[d]) : g[s] = "idle" \/ s = u
  BY <1>3
<1>5. ~Pressing(Sent("idle"))
  BY SentKind DEF Sent, Pressing
<1>6. \A e \in Phones, s \in Slots :
        Pressing(reads'[e][s]) => <<e, s>> \in Presses \cup {<<d, u>>}
  BY <1>2, <1>4, <1>5, PressesDef
<1>7. Presses' \subseteq Presses \cup {<<d, u>>}
  BY <1>6, PressesWithin
<1> QED
  BY <1>7

(* A read that ends, or goes on as no press, is no press any more.         *)
LEMMA SettlePresses ==
  ASSUME TypeOK, NEW d \in Phones, NEW t \in Slots, NEW k, k \notin {"press", "orderBasket"},
         NEW n, reads' = [reads EXCEPT ![d][t] = SentWith(k, n)]
  PROVE  Presses' \subseteq Presses \ {<<d, t>>}
<1>1. \A e \in Phones, s \in Slots :
        IF e = d /\ s = t THEN reads'[e][s] = SentWith(k, n) ELSE reads'[e][s] = reads[e][s]
  BY DEF TypeOK
<1>2. ~Pressing(SentWith(k, n))
  BY SentKind DEF Pressing
<1>3. \A e \in Phones, s \in Slots :
        Pressing(reads'[e][s]) => <<e, s>> \in Presses \ {<<d, t>>}
  BY <1>1, <1>2, PressesDef
<1> QED
  BY <1>3, PressesWithin

LEMMA PresentRetries ==
  ASSUME TypeOK, NEW d \in Phones, NEW k, k # "retryOrder",
         Present(d, Sheet(k)) \/ sheet' = [sheet EXCEPT ![d] = Sheet(k)]
  PROVE  Retries' \subseteq Retries
<1>1. \A e \in Phones : sheet'[e] = sheet[e] \/ sheet'[e].kind = k
  BY DEF Present, Sheet, TypeOK
<1> QED
  BY <1>1 DEF Retries

LEMMA EndProcessPresses ==
  ASSUME TypeOK, NEW d \in Phones, NEW sites, EndProcess(d, sites)
  PROVE  PressStep
<1>1. \A e \in Phones, s \in Slots :
        reads'[e][s] = reads[e][s] \/ reads'[e][s] = Sent("idle")
  BY DEF EndProcess, NoReads, TypeOK
<1>2. ~Pressing(Sent("idle"))
  BY SentKind DEF Sent, Pressing
<1>3. Presses' \subseteq Presses
  BY <1>1, <1>2, PressesDef, PressesWithin
<1>4. Retries' \subseteq Retries
  BY PresentRetries DEF EndProcess
<1> QED
  BY <1>3, <1>4 DEF EndProcess, PressStep

LEMMA UserPresses ==
  ASSUME TypeOK, NEW d \in Phones, User(d)
  PROVE  PressStep
<1> USE DEF PressStep
<1>1. ASSUME NEW t \in Tabs, SelectTab(d, t) PROVE PressStep
  <2>1. Presses' \subseteq Presses
    <3>1. "press" \notin ReadsOnAppear(d, t) /\ "orderBasket" \notin ReadsOnAppear(d, t)
      BY DEF ReadsOnAppear
    <3>2. Request(d, reads[d], ReadsOnAppear(d, t))
      BY <1>1 DEF SelectTab
    <3> QED
      BY <3>1, <3>2, RequestPresses
  <2>2. Retries' \subseteq Retries
    BY <1>1, PresentRetries, SameRetries DEF SelectTab, SheetOnAppear
  <2> QED
    BY <1>1, <2>1, <2>2 DEF SelectTab, tallies
<1>2. ASSUME NEW r \in Restaurants, OpenMenu(d, r) PROVE PressStep
  BY <1>2, RequestPresses, SameRetries DEF OpenMenu, tallies
<1>3. CASE CloseMenu(d)
  <2>1. \A e \in Phones, s \in Slots :
          reads'[e][s] = reads[e][s] \/ reads'[e][s] = Sent("idle")
    BY <1>3 DEF CloseMenu, TypeOK
  <2>2. ~Pressing(Sent("idle"))
    BY SentKind DEF Sent, Pressing
  <2>3. Presses' \subseteq Presses
    BY <2>1, <2>2, PressesDef, PressesWithin
  <2> QED
    BY <1>3, <2>3, SameRetries DEF CloseMenu, tallies
<1>4. ASSUME NEW p \in Products, TapAdd(d, p) PROVE PressStep
  <2>1. Retries' \subseteq Retries
    BY <1>4, PresentRetries, SameRetries DEF TapAdd
  <2> QED
    BY <1>4, <2>1, SamePresses DEF TapAdd, tallies
<1>5. ASSUME NEW p \in Products, TapMinus(d, p) PROVE PressStep
  BY <1>5, SamePresses, SameRetries, EndProcessPresses DEF TapMinus, tallies
<1>6. ASSUME NEW ok \in BOOLEAN, AnswerClear(d, ok) PROVE PressStep
  BY <1>6, SamePresses, PresentRetries DEF AnswerClear, tallies
<1>7. CASE TapOrder(d)
  BY <1>7, RequestPress, SameRetries DEF TapOrder, screens
<1>8. CASE RetryBasket(d)
  BY <1>8, RequestPresses, PresentRetries DEF RetryBasket, tallies
<1>9. CASE RetryOrder(d)
  <2>1. \E x : Presses' \subseteq Presses \cup {x}
    BY <1>9, RequestPress DEF RetryOrder
  <2>2. d \in Retries /\ Retries' \subseteq Retries \ {d}
    <3>1. /\ \A e \in Phones : e # d => sheet'[e] = sheet[e]
          /\ sheet'[d].kind # "retryOrder" /\ sheet[d].kind = "retryOrder"
      BY <1>9 DEF RetryOrder, Sheet, TypeOK
    <3> QED
      BY <3>1 DEF Retries
  <2> QED
    BY <1>9, <2>1, <2>2 DEF RetryOrder, tallies
<1>10. CASE TapConfirmed(d)
  <2>1. Retries' \subseteq Retries
    BY <1>10, PresentRetries DEF TapConfirmed
  <2> QED
    BY <1>10, <2>1, RequestPresses DEF TapConfirmed, tallies
<1> QED
  BY <1>1, <1>2, <1>3, <1>4, <1>5, <1>6, <1>7, <1>8, <1>9, <1>10 DEF User

LEMMA CallbackPresses ==
  ASSUME TypeOK, NEW d \in Phones, NEW s \in Slots, Callback(d, s)
  PROVE  PressStep
<1> USE DEF PressStep
<1>1. CASE GotMenuBasket(d, s) \/ GotMenuProducts(d, s) \/ GotBasket(d, s)
  <2>1. Presses' \subseteq Presses \ {<<d, s>>}
    BY <1>1, SettlePresses DEF GotMenuBasket, GotMenuProducts, GotBasket, Settle, Sent
  <2> QED
    BY <1>1, <2>1, SameRetries DEF GotMenuBasket, GotMenuProducts, GotBasket, counters
<1>2. CASE GotPressRestaurants(d, s)
  <2>1. <<d, s>> \in Presses
    BY <1>2, PressesDef DEF GotPressRestaurants, Answered, Pressing
  <2>2. ASSUME NEW n, reads' = [reads EXCEPT ![d][s] = SentWith("orderBasket", n)],
               UNCHANGED sheet
        PROVE  PressStep
    <3>1. \A e \in Phones, t \in Slots :
            Pressing(reads'[e][t]) => <<e, t>> \in Presses
      BY <2>1, <2>2, PressesDef DEF TypeOK
    <3> QED
      BY <1>2, <2>2, <3>1, PressesWithin, SameRetries DEF GotPressRestaurants, counters
  <2>3. ASSUME Settle(d, s), Present(d, Sheet("retryOrder")) PROVE PressStep
    <3>1. Presses' \subseteq Presses \ {<<d, s>>}
      BY <2>3, SettlePresses DEF Settle, Sent
    <3>2. Retries' \subseteq Retries \cup {d}
      <4>1. \A e \in Phones : e # d => sheet'[e] = sheet[e]
        BY <2>3 DEF Present, TypeOK
      <4> QED
        BY <4>1 DEF Retries
    <3> QED
      BY <1>2, <2>1, <3>1, <3>2 DEF GotPressRestaurants, counters
  <2> QED
    BY <1>2, <2>2, <2>3 DEF GotPressRestaurants
<1>3. CASE makeOrder(d, s)
  <2>1. CASE EndProcess(d, {"makeOrder"})
    BY <2>1, EndProcessPresses
  <2>2. ASSUME Settle(d, s), Present(d, Confirm(clock + 1)), clock' = clock + 1, taps' = taps
        PROVE  PressStep
    <3>1. <<d, s>> \in Presses
      BY <1>3, PressesDef DEF makeOrder, Answered, Pressing
    <3>2. Presses' \subseteq Presses \ {<<d, s>>}
      BY <2>2, SettlePresses DEF Settle, Sent
    <3>3. Retries' \subseteq Retries
      <4>1. \A e \in Phones : sheet'[e] = sheet[e] \/ sheet'[e].kind = "confirm"
        BY <2>2 DEF Present, Confirm, TypeOK
      <4> QED
        BY <4>1 DEF Retries
    <3> QED
      BY <2>2, <3>1, <3>2, <3>3
  <2> QED
    BY <1>3, <2>1, <2>2 DEF makeOrder, NewOrder
<1>4. CASE GotOrdersRestaurants(d, s)
  <2>1. PICK k \in {"orders", "idle"} : reads' = [reads EXCEPT ![d][s] = SentWith(k, 0)]
    BY <1>4 DEF GotOrdersRestaurants, Sent
  <2>2. Presses' \subseteq Presses
    BY <2>1, SettlePresses
  <2> QED
    BY <1>4, <2>2, SameRetries DEF GotOrdersRestaurants, screens, counters
<1>5. CASE GotOrders(d, s)
  <2>1. CASE EndProcess(d, {"getOrders"})
    BY <2>1, EndProcessPresses
  <2>2. ASSUME Settle(d, s), UNCHANGED <<sheet, counters>> PROVE PressStep
    <3>1. Presses' \subseteq Presses \ {<<d, s>>}
      BY <2>2, SettlePresses DEF Settle, Sent
    <3> QED
      BY <2>2, <3>1, SameRetries DEF counters
  <2> QED
    BY <1>5, <2>1, <2>2 DEF GotOrders
<1> QED
  BY <1>1, <1>2, <1>3, <1>4, <1>5 DEF Callback

LEMMA StepPresses ==
  ASSUME TypeOK, [Next]_vars
  PROVE  PressStep
<1>1. ASSUME NEW d \in Phones, System(d) PROVE PressStep
  <2>1. CASE ServerApply(d) \/ Acknowledge(d) \/ GoOnline(d) \/ Launch(d)
    BY <2>1, SamePresses, SameRetries
       DEF ServerApply, Acknowledge, GoOnline, Launch, screens, counters, PressStep
  <2>2. ASSUME NEW s \in Slots, Answer(d, s) PROVE PressStep
    <3>1. \A e \in Phones, t \in Slots : reads'[e][t].kind = reads[e][t].kind
      BY <2>2 DEF Answer, TypeOK
    <3>2. Presses' \subseteq Presses
      BY <3>1 DEF Presses
    <3> QED
      BY <2>2, <3>2, SameRetries DEF Answer, screens, counters, PressStep
  <2> QED
    BY <1>1, <2>1, <2>2, CallbackPresses DEF System
<1>2. ASSUME NEW d \in Phones, Fault(d) PROVE PressStep
  <2>1. CASE Kill(d)
    BY <2>1, EndProcessPresses DEF Kill
  <2>2. CASE GoOffline(d) \/ Reconnect(d)
    BY <2>2, SamePresses, SameRetries DEF GoOffline, Reconnect, screens, tallies, PressStep
  <2>3. ASSUME NEW s \in Slots, Refuse(d, s) PROVE PressStep
    <3>1. Presses' \subseteq Presses \ {<<d, s>>}
      BY <2>3, SettlePresses DEF Refuse, Settle, Sent
    <3> QED
      BY <2>3, <3>1, SameRetries DEF Refuse, screens, tallies, PressStep
  <2> QED
    BY <1>2, <2>1, <2>2, <2>3 DEF Fault
<1>3. CASE UNCHANGED vars
  BY <1>3, SamePresses, SameRetries DEF vars, PressStep
<1> QED
  BY <1>1, <1>2, <1>3, UserPresses DEF Next

LEMMA PressesFinite ==
  /\ \A S : S \subseteq Presses =>
       /\ IsFiniteSet(S) /\ Cardinality(S) \in Nat /\ Cardinality(S) <= Cardinality(Presses)
  /\ \A S : S \subseteq Retries =>
       /\ IsFiniteSet(S) /\ Cardinality(S) \in Nat /\ Cardinality(S) <= Cardinality(Retries)
<1>1. IsFiniteSet(Phones \X Slots)
  BY OrderingAssumption, FS_Product
<1>2. IsFiniteSet(Presses)
  BY <1>1, FS_Subset DEF Presses
<1>3. IsFiniteSet(Retries)
  BY OrderingAssumption, FS_Subset DEF Retries
<1> QED
  BY <1>2, <1>3, FS_Subset, FS_CardinalityType

(* A set that gains at most one element, or has lost one.                  *)
LEMMA OneMore ==
  ASSUME NEW S, IsFiniteSet(S), NEW x, NEW T, T \subseteq S \cup {x}
  PROVE  Cardinality(T) \in Nat /\ Cardinality(T) <= Cardinality(S) + 1
<1>1. Cardinality(S) \in Nat
  BY FS_CardinalityType
<1>2. /\ IsFiniteSet(S \cup {x})
      /\ \/ Cardinality(S \cup {x}) = Cardinality(S)
         \/ Cardinality(S \cup {x}) = Cardinality(S) + 1
  BY FS_AddElement, Zenon
<1>3. Cardinality(T) \in Nat /\ Cardinality(T) <= Cardinality(S \cup {x})
  BY <1>2, FS_Subset, FS_CardinalityType
<1> QED
  BY <1>1, <1>2, <1>3

LEMMA OneLess ==
  ASSUME NEW S, IsFiniteSet(S), NEW x \in S, NEW T, T \subseteq S \ {x}
  PROVE  Cardinality(T) \in Nat /\ Cardinality(T) <= Cardinality(S) - 1
<1>1. IsFiniteSet(S \ {x}) /\ Cardinality(S \ {x}) = Cardinality(S) - 1
  BY FS_RemoveElement
<1> QED
  BY <1>1, FS_Subset, FS_CardinalityType

LEMMA TapsStep ==
  ASSUME TypeOK, AtMostOneOrderPerTap, [Next]_vars
  PROVE  AtMostOneOrderPerTap'
<1> DEFINE P == Cardinality(Presses)
           R == Cardinality(Retries)
<1>1. IsFiniteSet(Presses) /\ IsFiniteSet(Retries) /\ P \in Nat /\ R \in Nat
  BY PressesFinite
<1>2. clock \in Nat /\ taps \in Nat
  BY OrderingAssumption DEF TypeOK
<1>3. clock + P + R <= taps
  BY DEF AtMostOneOrderPerTap
<1>4. Presses' \subseteq Presses => P' \in Nat /\ P' <= P
  BY PressesFinite
<1>5. Retries' \subseteq Retries => R' \in Nat /\ R' <= R
  BY PressesFinite
<1>6. ASSUME NEW x, Presses' \subseteq Presses \cup {x} PROVE P' \in Nat /\ P' <= P + 1
  BY <1>1, <1>6, OneMore
<1>7. ASSUME NEW x \in Presses, Presses' \subseteq Presses \ {x} PROVE P' \in Nat /\ P' <= P - 1
  BY <1>1, <1>7, OneLess
<1>8. ASSUME NEW d, Retries' \subseteq Retries \cup {d} PROVE R' \in Nat /\ R' <= R + 1
  BY <1>1, <1>8, OneMore
<1>9. ASSUME NEW d \in Retries, Retries' \subseteq Retries \ {d} PROVE R' \in Nat /\ R' <= R - 1
  BY <1>1, <1>9, OneLess
<1> HIDE DEF P, R
<1>10. clock' + P' + R' <= taps'
  <2>1. \/ /\ P' \in Nat /\ P' <= P /\ R' \in Nat /\ R' <= R
           /\ clock' = clock /\ taps' = taps
        \/ /\ P' \in Nat /\ P' <= P + 1 /\ R' \in Nat /\ R' <= R
           /\ clock' = clock /\ taps' = taps + 1
        \/ /\ P' \in Nat /\ P' <= P + 1 /\ R' \in Nat /\ R' <= R - 1
           /\ clock' = clock /\ taps' = taps
        \/ /\ P' \in Nat /\ P' <= P - 1 /\ R' \in Nat /\ R' <= R + 1
           /\ clock' = clock /\ taps' = taps
        \/ /\ P' \in Nat /\ P' <= P - 1 /\ R' \in Nat /\ R' <= R
           /\ clock' = clock + 1 /\ taps' = taps
    BY <1>4, <1>5, <1>6, <1>7, <1>8, <1>9, StepPresses DEF PressStep
  <2> QED
    BY <1>1, <1>2, <1>3, <2>1
<1> QED
  BY <1>10 DEF AtMostOneOrderPerTap, P, R

LEMMA TapsInit == Init => AtMostOneOrderPerTap
<1> SUFFICES ASSUME Init PROVE AtMostOneOrderPerTap
  OBVIOUS
<1>1. Presses = {}
  BY SentKind DEF Init, NoReads, Sent, Presses
<1>2. Retries = {}
  BY DEF Init, Sheet, Retries
<1> QED
  BY <1>1, <1>2, FS_EmptySet DEF Init, AtMostOneOrderPerTap

(* The orders made, the presses on their way and the alerts that will      *)
(* press again never outnumber the taps: a press that finds no network     *)
(* hands over to its alert, and a retry to a new press.                    *)
THEOREM OneOrderPerTap == Spec => []AtMostOneOrderPerTap
<1>1. TypeOK /\ AtMostOneOrderPerTap /\ [Next]_vars => AtMostOneOrderPerTap'
  BY TapsStep
<1> QED
  BY <1>1, TapsInit, TypeCorrect, PTL DEF Spec

-----------------------------------------------------------------------------
(***************************************************************************)
(* Why an order arrives whole: the three writes of makeOrder stay in       *)
(* program order through queueing, resending, acknowledging and the death  *)
(* of the process.  The argument is the inductive invariant OrderInv.      *)
(* Then, why an order that a screen shows is always backed by its writes.  *)
(***************************************************************************)
-----------------------------------------------------------------------------
(* What a step may do to the orders and to the queues that carry them *)

writesVars == <<dbProducts, dbInfo, outbox, sent, clock, made>>

(* The phone is left without reads and with an empty screen.               *)
Gone(d) ==
  /\ reads' = [reads EXCEPT ![d] = NoReads]
  /\ sheet' = [sheet EXCEPT ![d] = Sheet("none")]
  /\ shown' = [shown EXCEPT ![d] = {}]

(* The phone forgets which writes the server has applied, and all its      *)
(* writes when its process ends.                                           *)
Rewinds(d) ==
  /\ outbox' = outbox \/ (outbox' = [outbox EXCEPT ![d] = <<>>] /\ Gone(d))
  /\ sent' = [sent EXCEPT ![d] = 0]
  /\ UNCHANGED <<dbProducts, dbInfo, clock, made>>

PostsBasket(d, b) ==
  /\ outbox' = [outbox EXCEPT ![d] = Append(@, BasketWrite(b))]
  /\ UNCHANGED <<dbProducts, dbInfo, sent, clock, made>>

Composes(d, b, i) ==
  /\ clock < MaxOrders /\ b # EmptyBasket /\ OnlyFrom(b, i.restaurant)
  /\ outbox' = [outbox EXCEPT ![d] = @ \o OrderWrites(clock + 1, b, i)]
  /\ made' = [made EXCEPT ![clock + 1] = [basket |-> b, info |-> i]]
  /\ clock' = clock + 1
  /\ UNCHANGED <<dbProducts, dbInfo, sent>>

WritesStep ==
  \/ UNCHANGED writesVars
  \/ \E d \in Phones : Rewinds(d) \/ ServerApply(d) \/ Acknowledge(d)
  \/ \E d \in Phones, b \in AllBaskets : PostsBasket(d, b)
  \/ \E d \in Phones, b \in AllBaskets, i \in Infos : Composes(d, b, i)

LEMMA EndProcessWrites ==
  ASSUME NEW d \in Phones, NEW sites, EndProcess(d, sites)
  PROVE  WritesStep
BY DEF EndProcess, server, Gone, Rewinds, WritesStep

LEMMA postBasketWrites ==
  ASSUME TypeOK, NEW d \in Phones, postBasket(d),
         UNCHANGED <<dbProducts, dbInfo, sent, clock, made>>
  PROVE  WritesStep
<1>1. menuBasket[d] \in AllBaskets
  BY DEF TypeOK
<1> QED
  BY <1>1 DEF postBasket, PostsBasket, WritesStep, writesVars

(* makeOrder names the restaurant of one key, and all keys have the same.  *)
LEMMA makeOrderWrites ==
  ASSUME TypeOK, ReadsSingle, NEW d \in Phones, NEW s \in Slots, makeOrder(d, s)
  PROVE  WritesStep
<1> DEFINE b == reads[d][s].basket
           Info(p) == [restaurant |-> RestaurantOf[p], number |-> reads[d][s].number]
<1>r. reads[d][s] \in Reads /\ b \in AllBaskets /\ SingleRestaurant(b)
  BY DEF TypeOK, Reads, ReadsSingle
<1>1. CASE EndProcess(d, {"makeOrder"})
  BY <1>1, EndProcessWrites
<1>2. ASSUME NEW p \in DOMAIN b,
             clock < MaxOrders,
             outbox' = [outbox EXCEPT ![d] = @ \o OrderWrites(NewOrder, b, Info(p))],
             made' = [made EXCEPT ![NewOrder] = [basket |-> b, info |-> Info(p)]],
             clock' = clock + 1,
             UNCHANGED <<server, sent>>
      PROVE  WritesStep
  <2> DEFINE i == Info(p)
  <2>1. i \in Infos
    <3>1. p \in Products
      BY <1>r, BasketElim
    <3>2. reads[d][s].number \in Numbers
      BY <1>r DEF makeOrder, Answered, Reads
    <3> QED BY <3>1, <3>2, CatalogueAssumption DEF Infos
  <2>2. b # EmptyBasket /\ OnlyFrom(b, i.restaurant)
    BY <1>r, EmptyBasketType DEF OnlyFrom, SingleRestaurant
  <2> HIDE DEF b, i
  <2>3. Composes(d, b, i)
    BY <1>2, <2>2 DEF Composes, NewOrder, server, i
  <2> QED BY <1>r, <2>1, <2>3 DEF WritesStep, b
<1> QED
  BY <1>1, <1>2 DEF makeOrder

LEMMA StepWrites ==
  ASSUME TypeOK, ReadsSingle, [Next]_vars
  PROVE  WritesStep
<1>1. ASSUME NEW d \in Phones, User(d) PROVE WritesStep
  <2>1. ASSUME NEW t \in Tabs, SelectTab(d, t) PROVE WritesStep
    BY <2>1, postBasketWrites
       DEF SelectTab, LeaveTab, server, tallies, WritesStep, writesVars
  <2>2. ASSUME CloseMenu(d) PROVE WritesStep
    BY <2>2, postBasketWrites DEF CloseMenu, server, tallies
  <2>3. ASSUME NEW p \in Products, TapMinus(d, p) PROVE WritesStep
    BY <2>3, EndProcessWrites DEF TapMinus, server, link, tallies, WritesStep, writesVars
  <2>4. ASSUME NEW p \in Products, TapAdd(d, p) PROVE WritesStep
    BY <2>4 DEF TapAdd, server, link, tallies, WritesStep, writesVars
  <2>5. ASSUME NEW r \in Restaurants, OpenMenu(d, r) PROVE WritesStep
    BY <2>5 DEF OpenMenu, server, link, tallies, WritesStep, writesVars
  <2>6. ASSUME NEW ok \in BOOLEAN, AnswerClear(d, ok) PROVE WritesStep
    BY <2>6 DEF AnswerClear, server, link, tallies, WritesStep, writesVars
  <2>7. CASE TapOrder(d)
    BY <2>7 DEF TapOrder, server, link, WritesStep, writesVars
  <2>8. CASE RetryBasket(d) \/ RetryOrder(d) \/ TapConfirmed(d)
    BY <2>8 DEF RetryBasket, RetryOrder, TapConfirmed, server, link, tallies,
                WritesStep, writesVars
  <2> QED
    BY <1>1, <2>1, <2>2, <2>3, <2>4, <2>5, <2>6, <2>7, <2>8 DEF User
<1>2. ASSUME NEW d \in Phones, System(d) PROVE WritesStep
  <2>1. CASE ServerApply(d) \/ Acknowledge(d)
    BY <2>1 DEF WritesStep
  <2>2. CASE GoOnline(d) \/ Launch(d)
    BY <2>2 DEF GoOnline, Launch, server, link, counters, WritesStep, writesVars
  <2>3. ASSUME NEW s \in Slots, Answer(d, s) PROVE WritesStep
    BY <2>3 DEF Answer, server, link, counters, WritesStep, writesVars
  <2>4. ASSUME NEW s \in Slots, Callback(d, s) PROVE WritesStep
    <3>1. CASE makeOrder(d, s)
      BY <3>1, makeOrderWrites
    <3>2. CASE GotOrders(d, s)
      BY <3>2, EndProcessWrites
         DEF GotOrders, server, link, counters, WritesStep, writesVars
    <3>3. CASE \/ GotMenuBasket(d, s) \/ GotMenuProducts(d, s) \/ GotBasket(d, s)
               \/ GotPressRestaurants(d, s) \/ GotOrdersRestaurants(d, s)
      BY <3>3 DEF GotMenuBasket, GotMenuProducts, GotBasket, GotPressRestaurants,
                  GotOrdersRestaurants, server, link, counters, WritesStep, writesVars
    <3> QED BY <2>4, <3>1, <3>2, <3>3 DEF Callback
  <2> QED BY <1>2, <2>1, <2>2, <2>3, <2>4 DEF System
<1>3. ASSUME NEW d \in Phones, Fault(d) PROVE WritesStep
  <2>1. CASE Kill(d)
    BY <2>1, EndProcessWrites DEF Kill
  <2>2. CASE GoOffline(d) \/ Reconnect(d)
    <3>1. Rewinds(d)
      BY <2>2 DEF GoOffline, Reconnect, server, tallies, Rewinds
    <3> QED BY <3>1 DEF WritesStep
  <2>3. ASSUME NEW s \in Slots, Refuse(d, s) PROVE WritesStep
    BY <2>3 DEF Refuse, server, link, tallies, WritesStep, writesVars
  <2> QED BY <1>3, <2>1, <2>2, <2>3 DEF Fault
<1>4. CASE UNCHANGED vars
  BY <1>4 DEF vars, WritesStep, writesVars
<1> QED
  BY <1>1, <1>2, <1>3, <1>4 DEF Next

-----------------------------------------------------------------------------
(* OrderInv is inductive *)

(* Type facts about the queues. *)
LEMMA QueueTypes ==
  ASSUME TypeOK, NEW d \in Phones
  PROVE  /\ outbox[d] \in Seq(Writes) /\ Len(outbox[d]) \in Nat
         /\ sent[d] \in Nat /\ sent[d] <= Len(outbox[d])
         /\ \A i \in 1 .. Len(outbox[d]) : outbox[d][i] \in Writes
BY DEF TypeOK

(* A write stays behind what it was behind when its queue grows.           *)
LEMMA StaysBehind ==
  ASSUME NEW q, NEW r, NEW n \in Nat, \A j \in 1 .. n : r[j] = q[j],
         NEW i \in 1 .. n, NEW kind, NEW o, QueuedBefore(q, i, kind, o)
  PROVE  QueuedBefore(r, i, kind, o)
<1>1. PICK j \in 1 .. i - 1 : q[j].kind = kind /\ q[j].order = o
  BY DEF QueuedBefore
<1>2. j \in 1 .. n
  OBVIOUS
<1> QED
  BY <1>1, <1>2 DEF QueuedBefore

LEMMA StillUnlessWrites ==
  ASSUME OrderInv, UNCHANGED writesVars
  PROVE  OrderInv'
<1>1. MadeSound' /\ StoredAsMade' /\ StoredInOrder'
  BY DEF OrderInv, writesVars, MadeSound, StoredAsMade, StoredInOrder
<1>2. QueuedAsMade' /\ AppliedIsStored'
  BY DEF OrderInv, writesVars, QueuedAsMade, AppliedIsStored
<1>3. QueueInOrder'
  BY DEF OrderInv, writesVars, QueueInOrder, QueuedBefore
<1> QED
  BY <1>1, <1>2, <1>3 DEF OrderInv

LEMMA RewindsKeeps ==
  ASSUME TypeOK, OrderInv, NEW d \in Phones, Rewinds(d)
  PROVE  OrderInv'
<1>1. MadeSound' /\ StoredAsMade' /\ StoredInOrder'
  BY DEF OrderInv, Rewinds, MadeSound, StoredAsMade, StoredInOrder
<1>2. /\ \A e \in Phones : outbox'[e] = outbox[e] \/ Len(outbox'[e]) = 0
      /\ \A e \in Phones : (sent'[e] = sent[e] /\ outbox'[e] = outbox[e]) \/ sent'[e] = 0
  <2>1. Len(<<>>) = 0
    OBVIOUS
  <2> QED BY <2>1 DEF Rewinds, TypeOK
<1>3. QueuedAsMade'
  BY <1>2 DEF OrderInv, Rewinds, QueuedAsMade
<1>4. AppliedIsStored'
  BY <1>2 DEF OrderInv, Rewinds, AppliedIsStored
<1>5. QueueInOrder'
  <2>1. UNCHANGED dbProducts /\ UNCHANGED dbInfo
    BY DEF Rewinds
  <2>2. ASSUME NEW e \in Phones, NEW i \in 1 .. Len(outbox'[e])
        PROVE  outbox'[e] = outbox[e]
    BY <1>2
  <2> QED
    BY <2>1, <2>2 DEF OrderInv, QueueInOrder
<1> QED
  BY <1>1, <1>3, <1>4, <1>5 DEF OrderInv

LEMMA PostsBasketKeeps ==
  ASSUME TypeOK, OrderInv, NEW d \in Phones, NEW b \in AllBaskets, PostsBasket(d, b)
  PROVE  OrderInv'
<1> DEFINE w == BasketWrite(b)
           n == Len(outbox[d])
<1>1. MadeSound' /\ StoredAsMade' /\ StoredInOrder'
  BY DEF OrderInv, PostsBasket, MadeSound, StoredAsMade, StoredInOrder
<1>2. w \in Writes /\ w.kind = "basket"
  BY WriteTypes DEF BasketWrite
<1>3. outbox'[d] = Append(outbox[d], w) /\ \A e \in Phones : e # d => outbox'[e] = outbox[e]
  BY DEF PostsBasket, TypeOK
<1>4. /\ n \in Nat /\ Len(outbox'[d]) = n + 1
      /\ \A i \in 1 .. n : outbox'[d][i] = outbox[d][i]
      /\ outbox'[d][n + 1] = w
  <2> HIDE DEF w
  <2> QED BY <1>2, <1>3, QueueTypes, AppendedWrite
<1>5. \A e \in Phones : \A i \in 1 .. Len(outbox'[e]) :
        \/ i \in 1 .. Len(outbox[e]) /\ outbox'[e][i] = outbox[e][i]
        \/ outbox'[e][i].kind = "basket"
  BY <1>2, <1>3, <1>4
<1>6. \A e \in Phones : \A i \in 1 .. Len(outbox[e]) :
        i \in 1 .. Len(outbox'[e]) /\ outbox'[e][i] = outbox[e][i]
  BY <1>3, <1>4
<1> HIDE DEF w, n
<1>7. QueuedAsMade'
  BY <1>5 DEF OrderInv, PostsBasket, QueuedAsMade
<1>8. AppliedIsStored'
  BY <1>6, QueueTypes DEF OrderInv, PostsBasket, AppliedIsStored
<1>9. QueueInOrder'
  <2>1. ASSUME NEW e \in Phones, NEW i \in 1 .. Len(outbox[e]), NEW k, NEW o,
               QueuedBefore(outbox[e], i, k, o)
        PROVE  QueuedBefore(outbox'[e], i, k, o)
    <3>1. Len(outbox[e]) \in Nat /\ \A j \in 1 .. Len(outbox[e]) : outbox'[e][j] = outbox[e][j]
      BY <1>6, QueueTypes
    <3> QED BY <2>1, <3>1, StaysBehind
  <2> QED BY <2>1, <1>5 DEF OrderInv, PostsBasket, QueueInOrder
<1> QED
  BY <1>1, <1>7, <1>8, <1>9 DEF OrderInv

LEMMA ComposesKeeps ==
  ASSUME TypeOK, OrderInv, NEW d \in Phones, NEW b \in AllBaskets, NEW i \in Infos,
         Composes(d, b, i)
  PROVE  OrderInv'
<1> DEFINE o == clock + 1
           n == Len(outbox[d])
<1>0. clock \in Nat /\ o \in Orders /\ clock' = o
  BY OrderingAssumption DEF Composes, Orders, TypeOK
<1>1. /\ made'[o] = [basket |-> b, info |-> i]
      /\ \A u \in Orders : u # o => made'[u] = made[u]
      /\ made[o] = NotMade
  BY <1>0 DEF Composes, TypeOK, OrderInv, MadeSound
<1>2. i # NoInfo
  BY OrderingAssumption DEF Infos
<1>3. MadeSound'
  BY <1>0, <1>1, <1>2 DEF OrderInv, MadeSound, Composes, Orders
<1>4. dbProducts[o] = EmptyBasket /\ dbInfo[o] = NoInfo
  BY <1>0, <1>1 DEF OrderInv, StoredAsMade, NotMade
<1>5. StoredAsMade' /\ StoredInOrder'
  BY <1>1, <1>4 DEF OrderInv, StoredAsMade, StoredInOrder, Composes
<1>6. /\ \A e \in Phones : e # d => outbox'[e] = outbox[e]
      /\ n \in Nat /\ Len(outbox'[d]) = n + 3
      /\ \A j \in 1 .. Len(outbox'[d]) :
           \/ j \in 1 .. n /\ outbox'[d][j] = outbox[d][j]
           \/ j = n + 1 /\ outbox'[d][j] = ProductsWrite(o, b)
           \/ j = n + 2 /\ outbox'[d][j] = InfoWrite(o, i)
           \/ j = n + 3 /\ outbox'[d][j] = RemoveWrite(o)
  BY <1>0, QueuedOrder, Zenon DEF Composes
<1>w. /\ ProductsWrite(o, b).kind = "products" /\ ProductsWrite(o, b).order = o
      /\ ProductsWrite(o, b).basket = b
      /\ InfoWrite(o, i).kind = "info" /\ InfoWrite(o, i).order = o
      /\ InfoWrite(o, i).info = i
      /\ RemoveWrite(o).kind = "remove" /\ RemoveWrite(o).order = o
  BY DEF ProductsWrite, InfoWrite, RemoveWrite
<1>u. UNCHANGED <<dbProducts, dbInfo, sent>>
  BY DEF Composes
<1> HIDE DEF o, n
<1>7. \A e \in Phones : \A j \in 1 .. Len(outbox[e]) :
        j \in 1 .. Len(outbox'[e]) /\ outbox'[e][j] = outbox[e][j]
  <2>1. \A j \in 1 .. n : j \in 1 .. n + 3 /\ j # n + 1 /\ j # n + 2 /\ j # n + 3
    BY <1>6
  <2>2. \A j \in 1 .. n : j \in 1 .. Len(outbox'[d]) /\ outbox'[d][j] = outbox[d][j]
    BY <1>6, <2>1
  <2> QED BY <1>6, <2>2 DEF n
<1>8. QueuedAsMade'
  <2>1. ASSUME NEW e \in Phones, NEW j \in 1 .. Len(outbox[e])
        PROVE  LET w == outbox[e][j] IN
               /\ w.kind # "basket" => w.order \in 1 .. o
               /\ w.kind = "products" => w.basket = made'[w.order].basket
               /\ w.kind = "info" => w.info = made'[w.order].info
    <3>1. outbox[e][j].kind # "basket" =>
            /\ outbox[e][j].order \in 1 .. clock
            /\ outbox[e][j].order \in Orders \ {o}
      BY <1>0, OrderingAssumption DEF OrderInv, QueuedAsMade, o, Orders, TypeOK
    <3>2. outbox[e][j].kind # "basket" =>
            made'[outbox[e][j].order] = made[outbox[e][j].order]
      BY <1>1, <3>1
    <3> QED BY <1>0, <3>1, <3>2 DEF OrderInv, QueuedAsMade, o
  <2>2. ASSUME NEW j \in 1 .. Len(outbox'[d]), j \notin 1 .. n
        PROVE  LET w == outbox'[d][j] IN
               /\ w.kind # "basket" => w.order \in 1 .. o
               /\ w.kind = "products" => w.basket = made'[w.order].basket
               /\ w.kind = "info" => w.info = made'[w.order].info
    <3>1. o \in 1 .. o
      BY <1>0 DEF o
    <3>2. \/ outbox'[d][j] = ProductsWrite(o, b) \/ outbox'[d][j] = InfoWrite(o, i)
          \/ outbox'[d][j] = RemoveWrite(o)
      BY <1>6, <2>2
    <3> QED BY <1>1, <1>w, <3>1, <3>2
  <2> SUFFICES ASSUME NEW e \in Phones, NEW j \in 1 .. Len(outbox'[e])
               PROVE  LET w == outbox'[e][j] IN
                      /\ w.kind # "basket" => w.order \in 1 .. clock'
                      /\ w.kind = "products" => w.basket = made'[w.order].basket
                      /\ w.kind = "info" => w.info = made'[w.order].info
    BY DEF QueuedAsMade
  <2>3. CASE e = d /\ j \notin 1 .. n
    BY <1>0, <2>2, <2>3
  <2>4. CASE ~(e = d /\ j \notin 1 .. n)
    <3>1. j \in 1 .. Len(outbox[e]) /\ outbox'[e][j] = outbox[e][j]
      BY <1>6, <1>7, <2>4 DEF n
    <3> QED BY <1>0, <2>1, <3>1
  <2> QED BY <2>3, <2>4
<1>9. AppliedIsStored'
  <2>1. \A e \in Phones : \A j \in 1 .. sent[e] : outbox'[e][j] = outbox[e][j]
    BY <1>7, QueueTypes
  <2> QED BY <1>u, <2>1 DEF OrderInv, AppliedIsStored
<1>10. QueueInOrder'
  <2>1. ASSUME NEW e \in Phones, NEW j \in 1 .. Len(outbox[e]), NEW k, NEW u,
               QueuedBefore(outbox[e], j, k, u)
        PROVE  QueuedBefore(outbox'[e], j, k, u)
    <3>1. Len(outbox[e]) \in Nat /\ \A l \in 1 .. Len(outbox[e]) : outbox'[e][l] = outbox[e][l]
      BY <1>7, QueueTypes
    <3> QED BY <2>1, <3>1, StaysBehind
  <2>2. ASSUME NEW j \in 1 .. Len(outbox'[d]), j \notin 1 .. n
        PROVE  /\ outbox'[d][j].kind = "info" =>
                    QueuedBefore(outbox'[d], j, "products", outbox'[d][j].order)
               /\ outbox'[d][j].kind = "remove" =>
                    QueuedBefore(outbox'[d], j, "info", outbox'[d][j].order)
    <3>1. n + 1 \in 1 .. Len(outbox'[d]) /\ n + 2 \in 1 .. Len(outbox'[d])
      BY <1>6
    <3>2. outbox'[d][n + 1] = ProductsWrite(o, b) /\ outbox'[d][n + 2] = InfoWrite(o, i)
      BY <1>6, <3>1
    <3>3. CASE j = n + 1
      BY <1>w, <3>2, <3>3
    <3>4. CASE j = n + 2
      <4>1. n + 1 \in 1 .. j - 1
        BY <1>6, <3>4
      <4>2. outbox'[d][j].kind = "info" /\ outbox'[d][j].order = o
        BY <1>w, <3>2, <3>4
      <4> QED BY <1>w, <3>2, <4>1, <4>2 DEF QueuedBefore
    <3>5. CASE j = n + 3
      <4>1. n + 2 \in 1 .. j - 1
        BY <1>6, <3>5
      <4>2. outbox'[d][j] = RemoveWrite(o)
        BY <1>6, <3>5
      <4> QED BY <1>w, <3>2, <4>1, <4>2 DEF QueuedBefore
    <3> QED BY <1>6, <2>2, <3>3, <3>4, <3>5
  <2> SUFFICES ASSUME NEW e \in Phones, NEW j \in 1 .. Len(outbox'[e])
               PROVE  LET w == outbox'[e][j] IN
                      /\ w.kind = "info" =>
                           \/ dbProducts'[w.order] # EmptyBasket
                           \/ QueuedBefore(outbox'[e], j, "products", w.order)
                      /\ w.kind = "remove" =>
                           \/ dbInfo'[w.order] # NoInfo
                           \/ QueuedBefore(outbox'[e], j, "info", w.order)
    BY DEF QueueInOrder
  <2>3. CASE e = d /\ j \notin 1 .. n
    BY <2>2, <2>3
  <2>4. CASE ~(e = d /\ j \notin 1 .. n)
    <3>1. j \in 1 .. Len(outbox[e]) /\ outbox'[e][j] = outbox[e][j]
      BY <1>6, <1>7, <2>4 DEF n
    <3> QED BY <1>u, <2>1, <3>1 DEF OrderInv, QueueInOrder
  <2> QED BY <2>3, <2>4
<1> QED
  BY <1>3, <1>5, <1>8, <1>9, <1>10 DEF OrderInv

(* A queued write: what it carries, and what the server has already stored *)
(* when it is the next to be applied.                                      *)
LEMMA NextWrite ==
  ASSUME TypeOK, OrderInv, NEW d \in Phones, NEW w \in Writes,
         sent[d] < Len(outbox[d]), w = outbox[d][sent[d] + 1]
  PROVE  /\ w.kind = "products" =>
              /\ w.order \in Orders
              /\ w.basket = made[w.order].basket /\ w.basket # EmptyBasket
         /\ w.kind = "info" =>
              /\ w.order \in Orders
              /\ w.info = made[w.order].info /\ w.info # NoInfo
              /\ dbProducts[w.order] # EmptyBasket
         /\ w.kind = "remove" => w.order \in Orders /\ dbInfo[w.order] # NoInfo
<1> DEFINE i == sent[d] + 1
<1>1. i \in 1 .. Len(outbox[d]) /\ sent[d] \in Nat /\ 1 .. i - 1 = 1 .. sent[d]
  BY QueueTypes
<1>2. w.kind # "basket" =>
        /\ w.order \in Orders /\ w.order <= clock
        /\ made[w.order].basket # EmptyBasket /\ made[w.order].info # NoInfo
  BY <1>1, OrderingAssumption
     DEF OrderInv, QueuedAsMade, MadeSound, Orders, TypeOK
<1>3. /\ w.kind = "products" => w.basket = made[w.order].basket
      /\ w.kind = "info" => w.info = made[w.order].info
  BY <1>1 DEF OrderInv, QueuedAsMade
<1>4. /\ w.kind = "info" =>
           \/ dbProducts[w.order] # EmptyBasket
           \/ \E j \in 1 .. sent[d] : /\ outbox[d][j].kind = "products"
                                     /\ outbox[d][j].order = w.order
      /\ w.kind = "remove" =>
           \/ dbInfo[w.order] # NoInfo
           \/ \E j \in 1 .. sent[d] : /\ outbox[d][j].kind = "info"
                                     /\ outbox[d][j].order = w.order
  <2>1. /\ w.kind = "info" =>
             \/ dbProducts[w.order] # EmptyBasket
             \/ QueuedBefore(outbox[d], i, "products", w.order)
        /\ w.kind = "remove" =>
             \/ dbInfo[w.order] # NoInfo
             \/ QueuedBefore(outbox[d], i, "info", w.order)
    BY <1>1 DEF OrderInv, QueueInOrder
  <2> HIDE DEF i
  <2> QED BY <1>1, <2>1 DEF QueuedBefore
<1>5. /\ w.kind = "info" => dbProducts[w.order] # EmptyBasket
      /\ w.kind = "remove" => dbInfo[w.order] # NoInfo
  BY <1>4 DEF OrderInv, AppliedIsStored
<1> QED
  BY <1>2, <1>3, <1>5

(* The server drops no node of an order.                                   *)
LEMMA StoredStays ==
  ASSUME TypeOK, OrderInv, NEW d \in Phones, ServerApply(d)
  PROVE  \A o \in Orders : /\ dbProducts[o] # EmptyBasket => dbProducts'[o] # EmptyBasket
                           /\ dbInfo[o] # NoInfo => dbInfo'[o] # NoInfo
<1>1. PICK w \in Writes : w = outbox[d][sent[d] + 1] /\ sent[d] < Len(outbox[d])
  BY QueueTypes DEF ServerApply
<1>2. /\ w.kind = "products" => w.basket # EmptyBasket
      /\ w.kind = "info" => w.info # NoInfo
  BY <1>1, NextWrite
<1>3. \A o \in Orders :
        /\ dbProducts'[o] = IF w.kind = "products" /\ w.order = o
                            THEN w.basket ELSE dbProducts[o]
        /\ dbInfo'[o] = IF w.kind = "info" /\ w.order = o THEN w.info ELSE dbInfo[o]
  BY <1>1 DEF ServerApply, TypeOK
<1> QED
  BY <1>2, <1>3

LEMMA ServerApplyKeeps ==
  ASSUME TypeOK, OrderInv, NEW d \in Phones, ServerApply(d)
  PROVE  OrderInv'
<1>1. PICK w \in Writes : w = outbox[d][sent[d] + 1] /\ sent[d] < Len(outbox[d])
  BY QueueTypes DEF ServerApply
<1>2. /\ w.kind = "products" =>
           /\ w.order \in Orders
           /\ w.basket = made[w.order].basket /\ w.basket # EmptyBasket
      /\ w.kind = "info" =>
           /\ w.order \in Orders
           /\ w.info = made[w.order].info /\ w.info # NoInfo
           /\ dbProducts[w.order] # EmptyBasket
  BY <1>1, NextWrite
<1>3. \A o \in Orders :
        /\ dbProducts'[o] = IF w.kind = "products" /\ w.order = o
                            THEN w.basket ELSE dbProducts[o]
        /\ dbInfo'[o] = IF w.kind = "info" /\ w.order = o THEN w.info ELSE dbInfo[o]
  BY <1>1 DEF ServerApply, TypeOK
<1>4. UNCHANGED <<outbox, clock, made>>
  BY DEF ServerApply, counters
<1>5. MadeSound' /\ QueuedAsMade'
  BY <1>4 DEF OrderInv, MadeSound, QueuedAsMade
<1>6. StoredAsMade' /\ StoredInOrder'
  BY <1>2, <1>3, <1>4 DEF OrderInv, StoredAsMade, StoredInOrder
<1>7. \A o \in Orders : /\ dbProducts[o] # EmptyBasket => dbProducts'[o] # EmptyBasket
                        /\ dbInfo[o] # NoInfo => dbInfo'[o] # NoInfo
  BY StoredStays
<1>8. \A e \in Phones : \A i \in 1 .. Len(outbox[e]) :
        outbox[e][i].kind # "basket" => outbox[e][i].order \in Orders
  BY OrderingAssumption DEF OrderInv, QueuedAsMade, Orders, TypeOK
<1>9. AppliedIsStored'
  <2> SUFFICES ASSUME NEW e \in Phones, NEW i \in 1 .. sent'[e]
               PROVE  /\ outbox[e][i].kind = "products" =>
                           dbProducts'[outbox[e][i].order] # EmptyBasket
                      /\ outbox[e][i].kind = "info" =>
                           dbInfo'[outbox[e][i].order] # NoInfo
    BY <1>4 DEF AppliedIsStored
  <2>1. \/ i \in 1 .. sent[e] /\ i \in 1 .. Len(outbox[e])
        \/ e = d /\ i = sent[d] + 1
    BY QueueTypes DEF ServerApply, TypeOK
  <2>2. CASE e = d /\ i = sent[d] + 1
    BY <1>1, <1>2, <1>3, <2>2
  <2>3. CASE i \in 1 .. sent[e] /\ i \in 1 .. Len(outbox[e])
    <3> DEFINE v == outbox[e][i]
    <3>1. /\ v.kind = "products" => dbProducts[v.order] # EmptyBasket
          /\ v.kind = "info" => dbInfo[v.order] # NoInfo
      BY <2>3 DEF OrderInv, AppliedIsStored
    <3>2. v.kind # "basket" => v.order \in Orders
      BY <1>8, <2>3
    <3> HIDE DEF v
    <3>3. ASSUME NEW o \in Orders, v.order = o
          PROVE  /\ v.kind = "products" => dbProducts'[o] # EmptyBasket
                 /\ v.kind = "info" => dbInfo'[o] # NoInfo
      BY <1>7, <3>1, <3>3
    <3>4. /\ v.kind = "products" => dbProducts'[v.order] # EmptyBasket
          /\ v.kind = "info" => dbInfo'[v.order] # NoInfo
      BY <3>2, <3>3
    <3> QED BY <3>4 DEF v
  <2> QED BY <2>1, <2>2, <2>3
<1>10. QueueInOrder'
  <2> SUFFICES ASSUME NEW e \in Phones, NEW i \in 1 .. Len(outbox[e])
               PROVE  /\ outbox[e][i].kind = "info" =>
                           \/ dbProducts'[outbox[e][i].order] # EmptyBasket
                           \/ QueuedBefore(outbox[e], i, "products", outbox[e][i].order)
                      /\ outbox[e][i].kind = "remove" =>
                           \/ dbInfo'[outbox[e][i].order] # NoInfo
                           \/ QueuedBefore(outbox[e], i, "info", outbox[e][i].order)
    BY <1>4 DEF QueueInOrder
  <2> DEFINE v == outbox[e][i]
  <2>1. /\ v.kind = "info" => \/ dbProducts[v.order] # EmptyBasket
                              \/ QueuedBefore(outbox[e], i, "products", v.order)
        /\ v.kind = "remove" => \/ dbInfo[v.order] # NoInfo
                                \/ QueuedBefore(outbox[e], i, "info", v.order)
    BY DEF OrderInv, QueueInOrder
  <2>2. v.kind # "basket" => v.order \in Orders
    BY <1>8
  <2> HIDE DEF v
  <2>3. ASSUME NEW o \in Orders, v.order = o
        PROVE  /\ dbProducts[v.order] # EmptyBasket => dbProducts'[v.order] # EmptyBasket
               /\ dbInfo[v.order] # NoInfo => dbInfo'[v.order] # NoInfo
    BY <1>7, <2>3
  <2>4. /\ v.kind = "info" => \/ dbProducts'[v.order] # EmptyBasket
                              \/ QueuedBefore(outbox[e], i, "products", v.order)
        /\ v.kind = "remove" => \/ dbInfo'[v.order] # NoInfo
                                \/ QueuedBefore(outbox[e], i, "info", v.order)
    BY <2>1, <2>2, <2>3
  <2> QED BY <2>4 DEF v
<1> QED
  BY <1>5, <1>6, <1>9, <1>10 DEF OrderInv

LEMMA AcknowledgeKeeps ==
  ASSUME TypeOK, OrderInv, NEW d \in Phones, Acknowledge(d)
  PROVE  OrderInv'
<1>1. UNCHANGED <<dbProducts, dbInfo, clock, made>>
  BY DEF Acknowledge, server, counters
<1>2. MadeSound' /\ StoredAsMade' /\ StoredInOrder'
  BY <1>1 DEF OrderInv, MadeSound, StoredAsMade, StoredInOrder
<1>3. /\ outbox[d] \in Seq(Writes) /\ Len(outbox[d]) \in Nat
      /\ sent[d] \in Nat /\ sent[d] > 0 /\ sent[d] <= Len(outbox[d])
  BY QueueTypes DEF Acknowledge
<1>4. /\ Len(Tail(outbox[d])) = Len(outbox[d]) - 1
      /\ \A i \in 1 .. Len(Tail(outbox[d])) : Tail(outbox[d])[i] = outbox[d][i + 1]
  <2>1. outbox[d] # <<>>
    BY <1>3
  <2> QED BY <1>3, <2>1, HeadTailProperties
<1>5. /\ Len(outbox'[d]) = Len(outbox[d]) - 1 /\ sent'[d] = sent[d] - 1
      /\ \A i \in 1 .. Len(outbox'[d]) : outbox'[d][i] = outbox[d][i + 1]
      /\ \A e \in Phones : e # d => outbox'[e] = outbox[e] /\ sent'[e] = sent[e]
  <2>1. outbox'[d] = Tail(outbox[d])
    BY DEF Acknowledge, TypeOK
  <2> QED BY <1>4, <2>1 DEF Acknowledge, TypeOK
<1>6. \A i \in 1 .. Len(outbox'[d]) : i + 1 \in 1 .. Len(outbox[d])
  BY <1>3, <1>5
<1>7. QueuedAsMade'
  <2> SUFFICES ASSUME NEW e \in Phones, NEW i \in 1 .. Len(outbox'[e])
               PROVE  LET w == outbox'[e][i] IN
                      /\ w.kind # "basket" => w.order \in 1 .. clock
                      /\ w.kind = "products" => w.basket = made[w.order].basket
                      /\ w.kind = "info" => w.info = made[w.order].info
    BY <1>1 DEF QueuedAsMade
  <2>1. CASE e = d
    <3>1. outbox'[e][i] = outbox[d][i + 1] /\ i + 1 \in 1 .. Len(outbox[d])
      BY <1>5, <1>6, <2>1
    <3> QED BY <3>1 DEF OrderInv, QueuedAsMade
  <2>2. CASE e # d
    <3>1. outbox'[e] = outbox[e]
      BY <1>5, <2>2
    <3> QED BY <3>1 DEF OrderInv, QueuedAsMade
  <2> QED BY <2>1, <2>2
<1>8. AppliedIsStored'
  <2>1. \A i \in 1 .. sent'[d] : i + 1 \in 1 .. sent[d] /\ i \in 1 .. Len(outbox'[d])
    BY <1>3, <1>5
  <2> QED BY <1>1, <1>5, <2>1 DEF OrderInv, AppliedIsStored
<1>9. QueueInOrder'
  <2>1. ASSUME NEW i \in 1 .. Len(outbox'[d]), NEW kind \in {"products", "info"}, NEW o,
               QueuedBefore(outbox[d], i + 1, kind, o)
        PROVE  \/ QueuedBefore(outbox'[d], i, kind, o)
               \/ kind = "products" /\ dbProducts[o] # EmptyBasket
               \/ kind = "info" /\ dbInfo[o] # NoInfo
    <3>1. PICK j \in 1 .. i : outbox[d][j].kind = kind /\ outbox[d][j].order = o
      BY <2>1, <1>3, <1>5 DEF QueuedBefore
    <3>2. CASE j = 1
      <4>1. 1 \in 1 .. sent[d]
        BY <1>3
      <4> QED BY <3>1, <3>2, <4>1 DEF OrderInv, AppliedIsStored
    <3>3. CASE j # 1
      <4>1. j - 1 \in 1 .. i - 1 /\ j - 1 \in 1 .. Len(outbox'[d]) /\ (j - 1) + 1 = j
        BY <3>3, <1>3, <1>5
      <4>2. outbox'[d][j - 1] = outbox[d][j]
        BY <1>5, <4>1
      <4> QED BY <3>1, <4>1, <4>2 DEF QueuedBefore
    <3> QED BY <3>2, <3>3
  <2>2. ASSUME NEW i \in 1 .. Len(outbox'[d])
        PROVE  LET w == outbox'[d][i] IN
               /\ w.kind = "info" =>
                    \/ dbProducts[w.order] # EmptyBasket
                    \/ QueuedBefore(outbox'[d], i, "products", w.order)
               /\ w.kind = "remove" =>
                    \/ dbInfo[w.order] # NoInfo
                    \/ QueuedBefore(outbox'[d], i, "info", w.order)
    <3>1. outbox'[d][i] = outbox[d][i + 1] /\ i + 1 \in 1 .. Len(outbox[d])
      BY <1>5, <1>6
    <3> QED BY <2>1, <3>1 DEF OrderInv, QueueInOrder
  <2> QED
    BY <1>1, <1>5, <2>2 DEF OrderInv, QueueInOrder
<1> QED
  BY <1>2, <1>7, <1>8, <1>9 DEF OrderInv

LEMMA OrderInvStep ==
  TypeOK /\ OneRestaurantPerBasket /\ OrderInv /\ [Next]_vars => OrderInv'
<1> SUFFICES ASSUME TypeOK, ReadsSingle, OrderInv, [Next]_vars PROVE OrderInv'
  BY DEF OneRestaurantPerBasket
<1>1. WritesStep
  BY StepWrites
<1> QED
  BY <1>1, StillUnlessWrites, RewindsKeeps, ServerApplyKeeps, AcknowledgeKeeps,
     PostsBasketKeeps, ComposesKeeps DEF WritesStep

LEMMA OrderInvInit == Init => OrderInv
<1> SUFFICES ASSUME Init PROVE OrderInv
  OBVIOUS
<1>1. Len(<<>>) = 0
  OBVIOUS
<1>2. \A d \in Phones : Len(outbox[d]) = 0 /\ sent[d] = 0
  BY <1>1 DEF Init
<1>3. MadeSound /\ StoredAsMade /\ StoredInOrder
  BY DEF Init, Orders, NotMade, MadeSound, StoredAsMade, StoredInOrder
<1>4. QueuedAsMade /\ AppliedIsStored /\ QueueInOrder
  BY <1>2 DEF QueuedAsMade, AppliedIsStored, QueueInOrder
<1> QED
  BY <1>3, <1>4 DEF OrderInv

-----------------------------------------------------------------------------
(* What follows for the server *)

IInv == TypeOK /\ OneRestaurantPerBasket /\ RowsOfMenu /\ OrderInv

(* The inductive invariant holds of every reachable state. *)
THEOREM InductiveInvariant == Spec => []IInv
<1>1. Init => IInv
  BY TypeInit, SingleInit, OrderInvInit DEF IInv
<1>2. IInv /\ [Next]_vars => IInv'
  BY TypeStep, SingleStep, OrderInvStep DEF IInv
<1> QED
  BY <1>1, <1>2, PTL DEF Spec

(* An order whose info is on the server has its products there, all of the *)
(* restaurant the info names: what the staff application relies on when it *)
(* selects an order by its info and force-casts its products.              *)
THEOREM InfoHasProducts == Spec => []InfoImpliesProducts
<1>1. IInv => InfoImpliesProducts
  <2> SUFFICES ASSUME IInv, NEW o \in Orders, dbInfo[o] # NoInfo
               PROVE  /\ dbProducts[o] # EmptyBasket
                      /\ OnlyFrom(dbProducts[o], dbInfo[o].restaurant)
    BY DEF InfoImpliesProducts
  <2>1. dbProducts[o] # EmptyBasket
    BY DEF IInv, OrderInv, StoredInOrder
  <2>2. dbProducts[o] = made[o].basket /\ dbInfo[o] = made[o].info
    BY <2>1 DEF IInv, OrderInv, StoredAsMade
  <2>3. OnlyFrom(made[o].basket, made[o].info.restaurant)
    BY <2>2 DEF IInv, OrderInv, MadeSound, NotMade
  <2> QED BY <2>1, <2>2, <2>3
<1> QED
  BY <1>1, InductiveInvariant, PTL

(* The basket is removed only after both nodes of its order were stored:   *)
(* wherever the process dies, the customer has the basket or the order.    *)
THEOREM RemovedLast == Spec => BasketRemovedLast
<1>1. IInv /\ [Next]_vars => RemovesBasketOfCompleteOrder
  <2> SUFFICES ASSUME IInv, [Next]_vars, NEW d \in Phones,
                      sent'[d] = sent[d] + 1,
                      outbox[d][sent[d] + 1].kind = "remove"
               PROVE  Complete(outbox[d][sent[d] + 1].order)
    BY DEF RemovesBasketOfCompleteOrder
  <2>t. TypeOK /\ OrderInv /\ ReadsSingle
    BY DEF IInv, OneRestaurantPerBasket
  <2>1. sent[d] \in Nat /\ sent[d] <= Len(outbox[d]) /\ Len(outbox[d]) \in Nat
    BY <2>t, QueueTypes
  <2>2. WritesStep
    BY <2>t, StepWrites
  <2>3. ServerApply(d)
    <3>1. ASSUME sent' = sent PROVE FALSE
      BY <3>1, <2>1
    <3>2. ASSUME NEW e \in Phones, Rewinds(e) PROVE FALSE
      BY <3>2, <2>t, <2>1 DEF Rewinds, TypeOK
    <3>3. ASSUME NEW e \in Phones, Acknowledge(e) PROVE FALSE
      BY <3>3, <2>t, <2>1 DEF Acknowledge, TypeOK
    <3>4. ASSUME NEW e \in Phones, ServerApply(e), e # d PROVE FALSE
      BY <3>4, <2>t, <2>1 DEF ServerApply, TypeOK
    <3> QED
      BY <2>2, <3>1, <3>2, <3>3, <3>4 DEF WritesStep, writesVars, PostsBasket, Composes
  <2>4. sent[d] < Len(outbox[d])
    BY <2>3 DEF ServerApply
  <2>5. outbox[d][sent[d] + 1] \in Writes
    <3>1. sent[d] + 1 \in 1 .. Len(outbox[d])
      BY <2>1, <2>4
    <3> QED BY <3>1, <2>t, QueueTypes
  <2>6. /\ outbox[d][sent[d] + 1].order \in Orders
        /\ dbInfo[outbox[d][sent[d] + 1].order] # NoInfo
    BY <2>t, <2>4, <2>5, NextWrite
  <2> QED
    BY <2>t, <2>6 DEF OrderInv, StoredInOrder, Complete
<1> QED
  BY <1>1, InductiveInvariant, PTL DEF Spec, BasketRemovedLast

(* A complete order never changes: a write that is sent again after a      *)
(* reconnection stores what was stored before.                             *)
THEOREM CompleteIsFinal == Spec => CompleteOrdersFinal
<1>1. IInv /\ [Next]_vars => KeepsCompleteOrders
  <2> SUFFICES ASSUME IInv, [Next]_vars, NEW o \in Orders, Complete(o)
               PROVE  dbProducts'[o] = dbProducts[o] /\ dbInfo'[o] = dbInfo[o]
    BY DEF KeepsCompleteOrders
  <2>t. TypeOK /\ OrderInv /\ ReadsSingle
    BY DEF IInv, OneRestaurantPerBasket
  <2>1. WritesStep
    BY <2>t, StepWrites
  <2>2. dbProducts[o] = made[o].basket /\ dbInfo[o] = made[o].info
    BY <2>t DEF OrderInv, StoredAsMade, Complete
  <2>3. ASSUME NEW d \in Phones, ServerApply(d)
        PROVE  dbProducts'[o] = dbProducts[o] /\ dbInfo'[o] = dbInfo[o]
    <3>1. PICK w \in Writes : w = outbox[d][sent[d] + 1] /\ sent[d] < Len(outbox[d])
      BY <2>3, <2>t, QueueTypes DEF ServerApply
    <3>2. /\ w.kind = "products" => w.basket = made[w.order].basket
          /\ w.kind = "info" => w.info = made[w.order].info
      BY <3>1, <2>t, NextWrite
    <3> QED
      BY <2>3, <2>t, <2>2, <3>1, <3>2 DEF ServerApply, TypeOK
  <2>4. ASSUME UNCHANGED <<dbProducts, dbInfo>>
        PROVE  dbProducts'[o] = dbProducts[o] /\ dbInfo'[o] = dbInfo[o]
    BY <2>4
  <2> QED
    BY <2>1, <2>3, <2>4 DEF WritesStep, writesVars, Rewinds, Acknowledge, PostsBasket,
                            Composes, server
<1> QED
  BY <1>1, InductiveInvariant, PTL DEF Spec, CompleteOrdersFinal

-----------------------------------------------------------------------------
(***************************************************************************)
(* What follows for the screens: an order they show is on the server or on *)
(* its way.                                                                *)
(***************************************************************************)
ProductsBacked(d, o) == dbProducts[o] # EmptyBasket \/ Queued(d, "products", o)
InfoBacked(d, o) == dbInfo[o] # NoInfo \/ Queued(d, "info", o)

KeepsBacked(d) ==
  \A o \in Orders : /\ ProductsBacked(d, o) => ProductsBacked(d, o)'
                    /\ InfoBacked(d, o) => InfoBacked(d, o)'

LEMMA QueueGrows ==
  ASSUME NEW d \in Phones, Len(outbox[d]) \in Nat, Len(outbox'[d]) \in Nat,
         Len(outbox[d]) <= Len(outbox'[d]),
         \A i \in 1 .. Len(outbox[d]) : outbox'[d][i] = outbox[d][i],
         UNCHANGED <<dbProducts, dbInfo>>
  PROVE  KeepsBacked(d)
<1>1. \A i \in 1 .. Len(outbox[d]) : i \in 1 .. Len(outbox'[d])
  OBVIOUS
<1>2. ASSUME NEW kind, NEW o, Queued(d, kind, o) PROVE Queued(d, kind, o)'
  BY <1>1, <1>2 DEF Queued
<1> QED
  BY <1>2 DEF KeepsBacked, ProductsBacked, InfoBacked

LEMMA AcknowledgeKeepsBacked ==
  ASSUME TypeOK, OrderInv, NEW d \in Phones, Acknowledge(d)
  PROVE  KeepsBacked(d)
<1>1. UNCHANGED <<dbProducts, dbInfo>> /\ outbox'[d] = Tail(outbox[d]) /\ sent[d] > 0
  BY DEF Acknowledge, server, TypeOK
<1>2. /\ outbox[d] \in Seq(Writes) /\ Len(outbox[d]) \in Nat
      /\ sent[d] \in Nat /\ sent[d] <= Len(outbox[d])
  BY QueueTypes
<1>3. /\ Len(Tail(outbox[d])) = Len(outbox[d]) - 1
      /\ \A i \in 1 .. Len(Tail(outbox[d])) : Tail(outbox[d])[i] = outbox[d][i + 1]
  <2>1. outbox[d] # <<>>
    BY <1>1, <1>2
  <2> QED BY <1>2, <2>1, HeadTailProperties
<1>4. ASSUME NEW kind, NEW o \in Orders, Queued(d, kind, o)
      PROVE  \/ Queued(d, kind, o)'
             \/ kind = "products" /\ dbProducts[o] # EmptyBasket
             \/ kind = "info" /\ dbInfo[o] # NoInfo
             \/ kind \notin {"products", "info"}
  <2>1. PICK i \in 1 .. Len(outbox[d]) : outbox[d][i].kind = kind /\ outbox[d][i].order = o
    BY <1>4 DEF Queued
  <2>2. CASE i = 1
    <3>1. 1 \in 1 .. sent[d]
      BY <1>1, <1>2
    <3> QED
      BY <2>1, <2>2, <3>1 DEF OrderInv, AppliedIsStored
  <2>3. CASE i # 1
    <3>1. i - 1 \in 1 .. Len(outbox'[d]) /\ (i - 1) + 1 = i
      BY <1>1, <1>2, <1>3, <2>3
    <3>2. outbox'[d][i - 1] = outbox[d][i]
      BY <1>1, <1>3, <3>1
    <3> QED
      BY <2>1, <3>1, <3>2 DEF Queued
  <2> QED
    BY <2>2, <2>3
<1> QED
  BY <1>1, <1>4 DEF KeepsBacked, ProductsBacked, InfoBacked

LEMMA WritesKeepBacked ==
  ASSUME TypeOK, OrderInv, WritesStep, NEW d \in Phones
  PROVE  KeepsBacked(d) \/ Gone(d)
<1> Len(outbox[d]) \in Nat
  BY QueueTypes
<1>1. ASSUME outbox'[d] = outbox[d], UNCHANGED <<dbProducts, dbInfo>>
      PROVE  KeepsBacked(d)
  BY <1>1, QueueGrows
<1>2. CASE UNCHANGED writesVars
  BY <1>1, <1>2 DEF writesVars
<1>3. ASSUME NEW e \in Phones, Rewinds(e) PROVE KeepsBacked(d) \/ Gone(d)
  <2>1. outbox'[d] = outbox[d] \/ Gone(d)
    BY <1>3 DEF Rewinds, TypeOK
  <2> QED
    BY <1>1, <1>3, <2>1 DEF Rewinds
<1>4. ASSUME NEW e \in Phones, ServerApply(e) PROVE KeepsBacked(d)
  <2>1. outbox' = outbox
    BY <1>4 DEF ServerApply
  <2> QED
    BY <1>4, <2>1, StoredStays DEF KeepsBacked, ProductsBacked, InfoBacked, Queued
<1>5. ASSUME NEW e \in Phones, Acknowledge(e) PROVE KeepsBacked(d)
  <2>1. CASE e = d
    BY <1>5, <2>1, AcknowledgeKeepsBacked
  <2>2. CASE e # d
    <3>1. outbox'[d] = outbox[d] /\ UNCHANGED <<dbProducts, dbInfo>>
      BY <1>5, <2>2 DEF Acknowledge, server, TypeOK
    <3> QED
      BY <1>1, <3>1
  <2> QED
    BY <2>1, <2>2
<1>6. ASSUME NEW e \in Phones, NEW b \in AllBaskets, PostsBasket(e, b) PROVE KeepsBacked(d)
  <2>1. CASE e = d
    <3> DEFINE w == BasketWrite(b)
    <3>1. w \in Writes /\ outbox[d] \in Seq(Writes) /\ outbox'[d] = Append(outbox[d], w)
      BY <1>6, <2>1, WriteTypes, QueueTypes DEF PostsBasket, TypeOK
    <3> HIDE DEF w
    <3>2. Len(outbox'[d]) = Len(outbox[d]) + 1
          /\ \A i \in 1 .. Len(outbox[d]) : outbox'[d][i] = outbox[d][i]
      BY <3>1, AppendedWrite
    <3> QED
      BY <1>6, <3>2, QueueGrows DEF PostsBasket
  <2>2. CASE e # d
    <3>1. outbox'[d] = outbox[d] /\ UNCHANGED <<dbProducts, dbInfo>>
      BY <1>6, <2>2 DEF PostsBasket, TypeOK
    <3> QED
      BY <1>1, <3>1
  <2> QED
    BY <2>1, <2>2
<1>7. ASSUME NEW e \in Phones, NEW b \in AllBaskets, NEW i \in Infos, Composes(e, b, i)
      PROVE  KeepsBacked(d)
  <2>1. clock + 1 \in Orders
    BY <1>7, OrderingAssumption DEF Composes, Orders, TypeOK
  <2>2. outbox' = [outbox EXCEPT ![e] = @ \o OrderWrites(clock + 1, b, i)]
        /\ UNCHANGED <<dbProducts, dbInfo>>
    BY <1>7 DEF Composes
  <2>3. /\ \A f \in Phones : f # e => outbox'[f] = outbox[f]
        /\ Len(outbox'[e]) = Len(outbox[e]) + 3
        /\ \A j \in 1 .. Len(outbox'[e]) :
             \/ j \in 1 .. Len(outbox[e]) /\ outbox'[e][j] = outbox[e][j]
             \/ j = Len(outbox[e]) + 1 \/ j = Len(outbox[e]) + 2 \/ j = Len(outbox[e]) + 3
    BY <2>1, <2>2, QueuedOrder
  <2>4. CASE e = d
    <3> DEFINE n == Len(outbox[d])
    <3>1. \A j \in 1 .. n : j \in 1 .. n + 3 /\ j # n + 1 /\ j # n + 2 /\ j # n + 3
      OBVIOUS
    <3>2. Len(outbox'[d]) = n + 3 /\ \A j \in 1 .. n : outbox'[d][j] = outbox[d][j]
      <4> HIDE DEF n
      <4> QED
        BY <2>3, <2>4, <3>1 DEF n
    <3>3. n \in Nat /\ n + 3 \in Nat /\ n <= n + 3
      OBVIOUS
    <3>4. UNCHANGED <<dbProducts, dbInfo>>
      BY <2>2
    <3> QED
      BY <3>2, <3>3, <3>4, QueueGrows
  <2>5. CASE e # d
    <3>1. outbox'[d] = outbox[d] /\ UNCHANGED <<dbProducts, dbInfo>>
      BY <2>2, <2>3, <2>5
    <3> QED
      BY <1>1, <3>1
  <2> QED
    BY <2>4, <2>5
<1> QED
  BY <1>2, <1>3, <1>4, <1>5, <1>6, <1>7 DEF WritesStep

(* A step tells phone e nothing new about orders.                          *)
ReadKept(e, s) ==
  reads'[e][s] = reads[e][s] \/ (reads'[e][s].products = {} /\ reads'[e][s].infos = {})

NoNews(e) ==
  /\ sheet'[e] = sheet[e] \/ sheet'[e].kind # "confirm"
  /\ shown'[e] \subseteq shown[e]
  /\ \A s \in Slots : ReadKept(e, s)

LEMMA SentNothing == \A k, n : SentWith(k, n).products = {} /\ SentWith(k, n).infos = {}
BY DEF SentWith

LEMMA RequestKept ==
  ASSUME TypeOK, NEW d \in Phones, NEW K, Request(d, reads[d], K), NEW e \in Phones
  PROVE  \A s \in Slots : ReadKept(e, s)
<1>1. PICK g : reads' = [reads EXCEPT ![d] =
                 [s \in Slots |-> IF s \in IdleIn(reads[d]) THEN Sent(g[s]) ELSE reads[d][s]]]
  BY DEF Request
<1>2. \A s \in Slots : reads'[e][s] = reads[e][s] \/ \E k : reads'[e][s] = Sent(k)
  BY <1>1 DEF TypeOK
<1> QED
  BY <1>2, SentNothing DEF ReadKept, Sent

LEMMA SettleKept ==
  ASSUME TypeOK, NEW d \in Phones, NEW t \in Slots, NEW k, NEW n,
         reads' = [reads EXCEPT ![d][t] = SentWith(k, n)], NEW e \in Phones
  PROVE  \A s \in Slots : ReadKept(e, s)
<1>1. \A s \in Slots : reads'[e][s] = reads[e][s] \/ reads'[e][s] = SentWith(k, n)
  BY DEF TypeOK
<1> QED
  BY <1>1, SentNothing DEF ReadKept

LEMMA EndProcessNews ==
  ASSUME TypeOK, NEW d \in Phones, NEW sites, EndProcess(d, sites), NEW e \in Phones
  PROVE  NoNews(e)
<1>1. \A s \in Slots : reads'[e][s] = reads[e][s] \/ reads'[e][s] = Sent("idle")
  BY DEF EndProcess, NoReads, TypeOK
<1>2. shown'[e] \subseteq shown[e] /\ (sheet'[e] = sheet[e] \/ sheet'[e] = Sheet("none"))
  BY DEF EndProcess, TypeOK
<1> QED
  BY <1>1, <1>2, SentNothing DEF NoNews, ReadKept, Sent, Sheet

LEMMA PresentNews ==
  ASSUME TypeOK, NEW d \in Phones, NEW k, k # "confirm", NEW e \in Phones,
         Present(d, Sheet(k)) \/ sheet' = [sheet EXCEPT ![d] = Sheet(k)]
  PROVE  sheet'[e] = sheet[e] \/ sheet'[e].kind # "confirm"
<1>1. sheet'[e] = sheet[e] \/ sheet'[e] = Sheet(k)
  BY DEF Present, TypeOK
<1> QED
  BY <1>1 DEF Sheet

LEMMA SameNews ==
  ASSUME NEW e \in Phones, reads' = reads
  PROVE  \A s \in Slots : ReadKept(e, s)
BY DEF ReadKept

LEMMA UserNews ==
  ASSUME TypeOK, NEW d \in Phones, User(d), NEW e \in Phones
  PROVE  NoNews(e)
<1>1. ASSUME NEW t \in Tabs, SelectTab(d, t) PROVE NoNews(e)
  <2>1. \A s \in Slots : ReadKept(e, s)
    BY <1>1, RequestKept DEF SelectTab
  <2>2. sheet'[e] = sheet[e] \/ sheet'[e].kind # "confirm"
    BY <1>1, PresentNews DEF SelectTab, SheetOnAppear
  <2> QED
    BY <1>1, <2>1, <2>2 DEF SelectTab, NoNews
<1>2. ASSUME NEW r \in Restaurants, OpenMenu(d, r) PROVE NoNews(e)
  BY <1>2, RequestKept DEF OpenMenu, NoNews
<1>3. CASE CloseMenu(d)
  <2>1. \A s \in Slots : reads'[e][s] = reads[e][s] \/ reads'[e][s] = Sent("idle")
    BY <1>3 DEF CloseMenu, TypeOK
  <2> QED
    BY <1>3, <2>1, SentNothing DEF CloseMenu, NoNews, ReadKept, Sent
<1>4. ASSUME NEW p \in Products, TapAdd(d, p) PROVE NoNews(e)
  <2>1. sheet'[e] = sheet[e] \/ sheet'[e].kind # "confirm"
    BY <1>4, PresentNews DEF TapAdd
  <2> QED
    BY <1>4, <2>1, SameNews DEF TapAdd, NoNews
<1>5. ASSUME NEW p \in Products, TapMinus(d, p) PROVE NoNews(e)
  BY <1>5, SameNews, EndProcessNews DEF TapMinus, NoNews
<1>6. ASSUME NEW ok \in BOOLEAN, AnswerClear(d, ok) PROVE NoNews(e)
  BY <1>6, SameNews, PresentNews DEF AnswerClear, NoNews
<1>7. CASE TapOrder(d)
  BY <1>7, RequestKept DEF TapOrder, screens, NoNews
<1>8. CASE RetryBasket(d) \/ RetryOrder(d) \/ TapConfirmed(d)
  <2>1. \A s \in Slots : ReadKept(e, s)
    BY <1>8, RequestKept DEF RetryBasket, RetryOrder, TapConfirmed
  <2>2. sheet'[e] = sheet[e] \/ sheet'[e].kind # "confirm"
    BY <1>8, PresentNews DEF RetryBasket, RetryOrder, TapConfirmed
  <2> QED
    BY <1>8, <2>1, <2>2 DEF RetryBasket, RetryOrder, TapConfirmed, NoNews
<1> QED
  BY <1>1, <1>2, <1>3, <1>4, <1>5, <1>6, <1>7, <1>8 DEF User

(* Only an answer, makeOrder and getOrders tell a phone something.         *)
LEMMA SystemNews ==
  ASSUME TypeOK, NEW d \in Phones, System(d), NEW e \in Phones
  PROVE  NoNews(e) \/ \E s \in Slots : Answer(d, s) \/ makeOrder(d, s) \/ GotOrders(d, s)
<1>1. CASE ServerApply(d) \/ Acknowledge(d) \/ GoOnline(d) \/ Launch(d)
  BY <1>1, SameNews DEF ServerApply, Acknowledge, GoOnline, Launch, screens, NoNews
<1>2. ASSUME NEW s \in Slots, GotMenuBasket(d, s) \/ GotMenuProducts(d, s) \/ GotBasket(d, s)
      PROVE  NoNews(e)
  BY <1>2, SettleKept DEF GotMenuBasket, GotMenuProducts, GotBasket, Settle, Sent, NoNews
<1>3. ASSUME NEW s \in Slots, GotPressRestaurants(d, s) PROVE NoNews(e)
  <2>1. \A t \in Slots : ReadKept(e, t)
    BY <1>3, SettleKept DEF GotPressRestaurants, Settle, Sent
  <2>2. sheet'[e] = sheet[e] \/ sheet'[e].kind # "confirm"
    BY <1>3, PresentNews DEF GotPressRestaurants
  <2> QED
    BY <1>3, <2>1, <2>2 DEF GotPressRestaurants, NoNews
<1>4. ASSUME NEW s \in Slots, GotOrdersRestaurants(d, s) PROVE NoNews(e)
  <2>1. \A t \in Slots : ReadKept(e, t)
    BY <1>4, SettleKept DEF GotOrdersRestaurants, Sent
  <2> QED
    BY <1>4, <2>1 DEF GotOrdersRestaurants, screens, NoNews
<1> QED
  BY <1>1, <1>2, <1>3, <1>4 DEF System, Callback

LEMMA FaultNews ==
  ASSUME TypeOK, NEW d \in Phones, Fault(d), NEW e \in Phones
  PROVE  NoNews(e)
<1>1. CASE Kill(d)
  BY <1>1, EndProcessNews DEF Kill
<1>2. CASE GoOffline(d) \/ Reconnect(d)
  BY <1>2, SameNews DEF GoOffline, Reconnect, screens, NoNews
<1>3. ASSUME NEW s \in Slots, Refuse(d, s) PROVE NoNews(e)
  BY <1>3, SettleKept DEF Refuse, Settle, Sent, screens, NoNews
<1> QED
  BY <1>1, <1>2, <1>3 DEF Fault

-----------------------------------------------------------------------------
(* What a screen shows, or an answer on its way will show, is backed.      *)
ScreensBacked(d) ==
  /\ sheet[d].kind = "confirm" => sheet[d].order \in Orders /\ Backed(d, sheet[d].order)
  /\ \A o \in shown[d] : Backed(d, o)
AnswersBacked(d) ==
  \A s \in Slots : /\ \A o \in reads[d][s].products : ProductsBacked(d, o)
                   /\ \A o \in reads[d][s].infos : InfoBacked(d, o)
BackedInv == \A d \in Phones : ScreensBacked(d) /\ AnswersBacked(d)

LEMMA AnswerOrders ==
  ASSUME TypeOK, NEW d \in Phones
  PROVE  /\ shown[d] \subseteq Orders
         /\ \A s \in Slots : /\ reads[d][s].products \subseteq Orders
                             /\ reads[d][s].infos \subseteq Orders
BY DEF TypeOK, Reads

LEMMA NoNewsKeeps ==
  ASSUME TypeOK, BackedInv, NEW d \in Phones, KeepsBacked(d), NoNews(d)
  PROVE  ScreensBacked(d)' /\ AnswersBacked(d)'
<1> USE AnswerOrders
<1>1. \A o \in Orders : Backed(d, o) => Backed(d, o)'
  BY DEF KeepsBacked, Backed, ProductsBacked, InfoBacked
<1>2. ScreensBacked(d)'
  BY <1>1 DEF NoNews, BackedInv, ScreensBacked
<1>3. AnswersBacked(d)'
  BY DEF NoNews, ReadKept, KeepsBacked, BackedInv, AnswersBacked
<1> QED
  BY <1>2, <1>3

LEMMA GoneKeeps ==
  ASSUME TypeOK, NEW d \in Phones, Gone(d)
  PROVE  ScreensBacked(d)' /\ AnswersBacked(d)'
<1>1. sheet'[d] = Sheet("none") /\ shown'[d] = {}
      /\ \A s \in Slots : reads'[d][s] = Sent("idle")
  BY DEF Gone, NoReads, TypeOK
<1>2. Sheet("none").kind # "confirm"
  BY DEF Sheet
<1>3. \A s \in Slots : reads'[d][s].products = {} /\ reads'[d][s].infos = {}
  BY <1>1, SentNothing DEF Sent
<1> QED
  BY <1>1, <1>2, <1>3 DEF ScreensBacked, AnswersBacked

(* A phone that keeps its screens keeps them backed.                       *)
LEMMA SameScreensKeep ==
  ASSUME TypeOK, BackedInv, NEW d \in Phones, KeepsBacked(d),
         sheet'[d] = sheet[d], shown'[d] = shown[d]
  PROVE  ScreensBacked(d)'
<1>1. \A o \in Orders : Backed(d, o) => Backed(d, o)'
  BY DEF KeepsBacked, Backed, ProductsBacked, InfoBacked
<1> QED
  BY <1>1, AnswerOrders DEF BackedInv, ScreensBacked

(* The answer of a read is what the phone sees.                            *)
LEMMA AnswerKeeps ==
  ASSUME TypeOK, BackedInv, NEW e \in Phones, NEW s \in Slots, Answer(e, s), NEW d \in Phones
  PROVE  ScreensBacked(d)' /\ AnswersBacked(d)'
<1>1. UNCHANGED <<dbProducts, dbInfo, outbox, sheet, shown>>
  BY DEF Answer, server, link, screens
<1>2. KeepsBacked(d)
  BY <1>1 DEF KeepsBacked, ProductsBacked, InfoBacked, Queued
<1>3. ScreensBacked(d)'
  BY <1>1, <1>2, SameScreensKeep
<1>4. ASSUME NEW t \in Slots
      PROVE  \/ reads'[d][t] = reads[d][t]
             \/ /\ reads'[d][t].products \subseteq VisibleProducts(d)
                /\ reads'[d][t].infos \subseteq VisibleInfos(d)
  <2>1. PICK b : reads' = [reads EXCEPT ![e][s] =
            [kind |-> reads[e][s].kind, phase |-> "answered", basket |-> b,
             products |-> IF reads[e][s].kind = "orders" THEN VisibleProducts(e) ELSE {},
             infos |-> IF reads[e][s].kind = "orders" THEN VisibleInfos(e) ELSE {},
             number |-> reads[e][s].number]]
    BY DEF Answer
  <2>2. reads \in [Phones -> [Slots -> Reads]]
    BY DEF TypeOK
  <2>3. CASE d = e /\ t = s
    <3>1. reads'[d][t] = [kind |-> reads[e][s].kind, phase |-> "answered", basket |-> b,
             products |-> IF reads[e][s].kind = "orders" THEN VisibleProducts(e) ELSE {},
             infos |-> IF reads[e][s].kind = "orders" THEN VisibleInfos(e) ELSE {},
             number |-> reads[e][s].number]
      BY <2>1, <2>2, <2>3
    <3> QED
      BY <2>3, <3>1
  <2>4. CASE ~(d = e /\ t = s)
    BY <2>1, <2>2, <2>4
  <2> QED
    BY <2>3, <2>4
<1>5. /\ \A o \in VisibleProducts(d) : o \in Orders /\ ProductsBacked(d, o)
      /\ \A o \in VisibleInfos(d) : o \in Orders /\ InfoBacked(d, o)
  BY DEF VisibleProducts, VisibleInfos, ProductsBacked, InfoBacked
<1>6. ASSUME NEW t \in Slots
      PROVE  /\ \A o \in reads'[d][t].products : o \in Orders /\ ProductsBacked(d, o)
             /\ \A o \in reads'[d][t].infos : o \in Orders /\ InfoBacked(d, o)
  <2>1. CASE reads'[d][t] = reads[d][t]
    BY <2>1, AnswerOrders DEF BackedInv, AnswersBacked
  <2> QED
    BY <1>4, <1>5, <2>1
<1> QED
  BY <1>2, <1>3, <1>6 DEF AnswersBacked, KeepsBacked

(* What is confirmed has just been queued.                                 *)
LEMMA QueuedIsBacked ==
  ASSUME TypeOK, NEW d \in Phones, NEW o \in Orders, NEW b \in AllBaskets, NEW i \in Infos,
         outbox' = [outbox EXCEPT ![d] = @ \o OrderWrites(o, b, i)]
  PROVE  Backed(d, o)'
<1> DEFINE n == Len(outbox[d])
<1>1. /\ n \in Nat /\ Len(outbox'[d]) = n + 3
      /\ \A j \in 1 .. Len(outbox'[d]) :
           \/ j \in 1 .. n /\ outbox'[d][j] = outbox[d][j]
           \/ j = n + 1 /\ outbox'[d][j] = ProductsWrite(o, b)
           \/ j = n + 2 /\ outbox'[d][j] = InfoWrite(o, i)
           \/ j = n + 3 /\ outbox'[d][j] = RemoveWrite(o)
  BY QueuedOrder, Zenon
<1> HIDE DEF n
<1>2. n + 1 \in 1 .. n + 3 /\ n + 2 \in 1 .. n + 3
      /\ n + 1 \notin 1 .. n /\ n + 2 \notin 1 .. n /\ n + 2 # n + 1
      /\ n + 1 # n + 3 /\ n + 2 # n + 3
  BY <1>1
<1>3. outbox'[d][n + 1] = ProductsWrite(o, b) /\ outbox'[d][n + 2] = InfoWrite(o, i)
  BY <1>1, <1>2
<1>4. /\ ProductsWrite(o, b).kind = "products" /\ ProductsWrite(o, b).order = o
      /\ InfoWrite(o, i).kind = "info" /\ InfoWrite(o, i).order = o
  BY DEF ProductsWrite, InfoWrite
<1>5. n + 1 \in 1 .. Len(outbox'[d]) /\ n + 2 \in 1 .. Len(outbox'[d])
  BY <1>1, <1>2
<1>6. Queued(d, "products", o)' /\ Queued(d, "info", o)'
  BY <1>3, <1>4, <1>5 DEF Queued
<1> QED
  BY <1>6 DEF Backed

LEMMA ConfirmKeeps ==
  ASSUME TypeOK, BackedInv, NEW e \in Phones, NEW s \in Slots, NEW o \in Orders,
         NEW b \in AllBaskets, NEW i \in Infos,
         outbox' = [outbox EXCEPT ![e] = @ \o OrderWrites(o, b, i)],
         Settle(e, s), Present(e, Confirm(o)), UNCHANGED shown,
         NEW d \in Phones, KeepsBacked(d)
  PROVE  ScreensBacked(d)' /\ AnswersBacked(d)'
<1>1. sheet'[d] = sheet[d] \/ (d = e /\ sheet'[d] = Confirm(o))
  BY DEF Present, TypeOK
<1>2. \A t \in Slots : ReadKept(d, t)
  BY SettleKept DEF Settle, Sent
<1>3. CASE sheet'[d] = sheet[d]
  BY <1>2, <1>3, NoNewsKeeps DEF NoNews
<1>4. CASE d = e /\ sheet'[d] = Confirm(o)
  <2>1. AnswersBacked(d)'
    BY <1>2, AnswerOrders DEF ReadKept, KeepsBacked, BackedInv, AnswersBacked
  <2>2. \A u \in Orders : Backed(d, u) => Backed(d, u)'
    BY DEF KeepsBacked, Backed, ProductsBacked, InfoBacked
  <2>3. \A u \in shown'[d] : Backed(d, u)'
    BY <2>2, AnswerOrders DEF BackedInv, ScreensBacked
  <2>4. Backed(d, o)'
    BY <1>4, QueuedIsBacked
  <2>5. sheet'[d].order = o
    BY <1>4 DEF Confirm
  <2> QED
    BY <2>1, <2>3, <2>4, <2>5 DEF ScreensBacked
<1> QED
  BY <1>1, <1>3, <1>4

LEMMA makeOrderKeeps ==
  ASSUME TypeOK, ReadsSingle, BackedInv, NEW e \in Phones, NEW s \in Slots,
         makeOrder(e, s), NEW d \in Phones, KeepsBacked(d)
  PROVE  ScreensBacked(d)' /\ AnswersBacked(d)'
<1> DEFINE b == reads[e][s].basket
           i(p) == [restaurant |-> RestaurantOf[p], number |-> reads[e][s].number]
<1>1. CASE EndProcess(e, {"makeOrder"})
  BY <1>1, EndProcessNews, NoNewsKeeps
<1>2. ASSUME NEW p \in DOMAIN b, clock < MaxOrders,
             outbox' = [outbox EXCEPT ![e] = @ \o OrderWrites(clock + 1, b, i(p))],
             Settle(e, s), Present(e, Confirm(clock + 1)), UNCHANGED shown
      PROVE  ScreensBacked(d)' /\ AnswersBacked(d)'
  <2>1. reads[e][s] \in Reads /\ b \in AllBaskets
    BY DEF TypeOK, Reads
  <2>2. i(p) \in Infos
    <3>1. p \in Products
      BY <1>2, <2>1, BasketElim
    <3>2. reads[e][s].number \in Numbers
      BY <2>1 DEF makeOrder, Answered, Reads
    <3> QED BY <3>1, <3>2, CatalogueAssumption DEF Infos
  <2>3. clock + 1 \in Orders
    BY <1>2, OrderingAssumption DEF Orders, TypeOK
  <2> HIDE DEF b, i
  <2> QED
    BY <1>2, <2>1, <2>2, <2>3, ConfirmKeeps
<1> QED
  BY <1>1, <1>2 DEF makeOrder, NewOrder

(* The list of orders shows an answer in which every order has both nodes. *)
LEMMA GotOrdersKeeps ==
  ASSUME TypeOK, BackedInv, NEW e \in Phones, NEW s \in Slots, GotOrders(e, s),
         NEW d \in Phones, KeepsBacked(d)
  PROVE  ScreensBacked(d)' /\ AnswersBacked(d)'
<1>1. CASE EndProcess(e, {"getOrders"})
  BY <1>1, EndProcessNews, NoNewsKeeps
<1>2. ASSUME reads[e][s].products = reads[e][s].infos,
             shown' = [shown EXCEPT ![e] = reads[e][s].infos], Settle(e, s), UNCHANGED sheet
      PROVE  ScreensBacked(d)' /\ AnswersBacked(d)'
  <2>1. \A t \in Slots : ReadKept(d, t)
    BY <1>2, SettleKept DEF Settle, Sent
  <2>2. \A o \in Orders : Backed(d, o) => Backed(d, o)'
    BY DEF KeepsBacked, Backed, ProductsBacked, InfoBacked
  <2>3. AnswersBacked(d)'
    BY <2>1, AnswerOrders DEF ReadKept, KeepsBacked, BackedInv, AnswersBacked
  <2>4. shown'[d] = shown[d] \/ (d = e /\ shown'[d] = reads[d][s].infos)
    BY <1>2 DEF TypeOK
  <2>5. d = e => \A o \in reads[d][s].infos : o \in Orders /\ Backed(d, o)
    BY <1>2, AnswerOrders DEF BackedInv, AnswersBacked, Backed, ProductsBacked, InfoBacked
  <2>6. \A o \in shown'[d] : o \in Orders /\ Backed(d, o)
    BY <2>4, <2>5, AnswerOrders DEF BackedInv, ScreensBacked
  <2>7. ScreensBacked(d)'
    BY <1>2, <2>2, <2>6 DEF BackedInv, ScreensBacked
  <2> QED
    BY <2>3, <2>7
<1> QED
  BY <1>1, <1>2 DEF GotOrders

LEMMA BackedInit ==
  ASSUME Init
  PROVE  BackedInv
<1> SUFFICES ASSUME NEW d \in Phones PROVE ScreensBacked(d) /\ AnswersBacked(d)
  BY DEF BackedInv
<1>1. sheet[d] = Sheet("none") /\ shown[d] = {} /\ \A s \in Slots : reads[d][s] = Sent("idle")
  BY DEF Init, NoReads
<1>2. sheet[d].kind # "confirm"
  BY <1>1 DEF Sheet
<1>3. \A s \in Slots : reads[d][s].products = {} /\ reads[d][s].infos = {}
  BY <1>1, SentNothing DEF Sent
<1> QED
  BY <1>1, <1>2, <1>3 DEF ScreensBacked, AnswersBacked

LEMMA BackedStep ==
  ASSUME IInv, BackedInv, [Next]_vars
  PROVE  BackedInv'
<1>t. TypeOK /\ OrderInv /\ ReadsSingle
  BY DEF IInv, OneRestaurantPerBasket
<1> SUFFICES ASSUME NEW d \in Phones PROVE ScreensBacked(d)' /\ AnswersBacked(d)'
  BY DEF BackedInv
<1>1. CASE Gone(d)
  BY <1>1, <1>t, GoneKeeps
<1>2. CASE KeepsBacked(d)
  <2>1. CASE NoNews(d)
    BY <1>t, <1>2, <2>1, NoNewsKeeps
  <2>2. ASSUME NEW e \in Phones, System(e) PROVE ScreensBacked(d)' /\ AnswersBacked(d)'
    <3>1. ASSUME NEW s \in Slots, Answer(e, s) PROVE ScreensBacked(d)' /\ AnswersBacked(d)'
      BY <1>t, <3>1, AnswerKeeps
    <3>2. ASSUME NEW s \in Slots, makeOrder(e, s) PROVE ScreensBacked(d)' /\ AnswersBacked(d)'
      BY <1>t, <1>2, <3>2, makeOrderKeeps
    <3>3. ASSUME NEW s \in Slots, GotOrders(e, s) PROVE ScreensBacked(d)' /\ AnswersBacked(d)'
      BY <1>t, <1>2, <3>3, GotOrdersKeeps
    <3> QED
      BY <1>t, <2>1, <2>2, <3>1, <3>2, <3>3, SystemNews
  <2>3. ASSUME NEW e \in Phones, User(e) PROVE NoNews(d)
    BY <1>t, <2>3, UserNews
  <2>4. ASSUME NEW e \in Phones, Fault(e) PROVE NoNews(d)
    BY <1>t, <2>4, FaultNews
  <2>5. CASE UNCHANGED vars
    BY <2>1, <2>5, SameNews DEF vars, NoNews
  <2> QED
    BY <2>1, <2>2, <2>3, <2>4, <2>5 DEF Next
<1> QED
  BY <1>t, <1>1, <1>2, StepWrites, WritesKeepBacked

(* The order whose number the confirmation shows, and every order the list *)
(* shows, is on the server or still queued on that phone: makeOrder        *)
(* confirms without waiting for a write, and an answer may be older than   *)
(* the writes that were acknowledged since.                                *)
THEOREM ShownIsBacked == Spec => []ShownOrdersBacked
<1>1. Init => BackedInv
  BY BackedInit
<1>2. IInv /\ BackedInv /\ [Next]_vars => BackedInv'
  BY BackedStep
<1>3. BackedInv => ShownOrdersBacked
  BY DEF BackedInv, ScreensBacked, ShownOrdersBacked
<1> QED
  BY <1>1, <1>2, <1>3, InductiveInvariant, PTL DEF Spec

-----------------------------------------------------------------------------
(***************************************************************************)
(* Every behaviour of Ordering is, seen through the refinement mapping, a  *)
(* behaviour of OrderLifecycle.                                            *)
(***************************************************************************)
(* The initial states map to the initial state. *)
LEMMA MappedInit == Init => Lifecycle!Init
<1> SUFFICES ASSUME Init PROVE Lifecycle!Init
  OBVIOUS
<1>1. made = [o \in Orders |-> NotMade]
  BY DEF Init
<1>2. begun = {}
  BY DEF Init, begun
<1>3. placed = [o \in Orders |-> NotMade]
  BY DEF Init, placed
<1> QED
  BY <1>1, <1>2, <1>3 DEF Lifecycle!Init

(* A step that leaves the stored orders alone shows only in what is        *)
(* composed.                                                               *)
LEMMA SameStored ==
  ASSUME dbProducts' = dbProducts, dbInfo' = dbInfo
  PROVE  begun' = begun /\ placed' = placed
<1>1. begun' = begun
  BY DEF begun
<1>2. placed' = placed
  BY DEF placed
<1> QED
  BY <1>1, <1>2

(* The write of an order's products begins it, or was applied before. *)
LEMMA ProductsStep ==
  ASSUME TypeOK, OrderInv, NEW o \in Orders, NEW b,
         b = made[o].basket, b # EmptyBasket,
         dbProducts' = [dbProducts EXCEPT ![o] = b], dbInfo' = dbInfo,
         made' = made
  PROVE  Lifecycle!Begin(o) \/ UNCHANGED Lifecycle!vars
<1>1. CASE dbProducts[o] # EmptyBasket
  <2>1. dbProducts' = dbProducts
    BY <1>1 DEF OrderInv, StoredAsMade, TypeOK
  <2> QED BY <2>1, SameStored DEF Lifecycle!vars
<1>2. CASE dbProducts[o] = EmptyBasket
  <2>1. dbInfo[o] = NoInfo /\ made[o] # NotMade
    BY <1>2 DEF OrderInv, StoredInOrder, NotMade
  <2>2. \A q \in Orders : dbProducts'[q] = IF q = o THEN b ELSE dbProducts[q]
    BY DEF TypeOK
  <2>3. begun' = begun \cup {o} /\ o \notin begun
    BY <1>2, <2>2 DEF begun
  <2>4. placed' = placed
    BY <2>1, <2>2 DEF placed
  <2> QED BY <2>1, <2>3, <2>4 DEF Lifecycle!Begin
<1> QED
  BY <1>1, <1>2

(* The write of its info places it as composed, or was applied before. *)
LEMMA InfoStep ==
  ASSUME TypeOK, OrderInv, NEW o \in Orders, NEW i,
         i = made[o].info, i # NoInfo, dbProducts[o] # EmptyBasket,
         dbInfo' = [dbInfo EXCEPT ![o] = i], dbProducts' = dbProducts,
         made' = made
  PROVE  Lifecycle!Place(o) \/ UNCHANGED Lifecycle!vars
<1>1. CASE dbInfo[o] # NoInfo
  <2>1. dbInfo' = dbInfo
    BY <1>1 DEF OrderInv, StoredAsMade, TypeOK
  <2> QED BY <2>1, SameStored DEF Lifecycle!vars
<1>2. CASE dbInfo[o] = NoInfo
  <2>1. dbProducts[o] = made[o].basket /\ made[o] \in Contents
    BY DEF OrderInv, StoredAsMade, TypeOK
  <2>2. made[o] = [basket |-> dbProducts[o], info |-> i]
    BY <2>1 DEF Contents
  <2>3. begun' = begun /\ o \in begun
    BY DEF begun
  <2>4. placed[o] = NotMade
    BY <1>2 DEF placed
  <2>5. \A q \in Orders : dbInfo'[q] = IF q = o THEN i ELSE dbInfo[q]
    BY DEF TypeOK
  <2>6. placed' = [placed EXCEPT ![o] = made[o]]
    BY <2>2, <2>5 DEF placed
  <2> QED BY <2>3, <2>4, <2>6 DEF Lifecycle!Place
<1> QED
  BY <1>1, <1>2

(* What makeOrder composes is an order under a name not used before. *)
LEMMA ComposeStep ==
  ASSUME TypeOK, OrderInv, NEW d \in Phones, NEW b \in AllBaskets,
         NEW i \in Infos, Composes(d, b, i)
  PROVE  \E o \in Orders : Lifecycle!Compose(o)
<1>1. clock + 1 \in Orders /\ ~(clock + 1 <= clock)
  BY OrderingAssumption DEF Composes, Orders, TypeOK
<1>2. made[clock + 1] = NotMade
  BY <1>1 DEF OrderInv, MadeSound
<1>3. i # NoInfo
  BY OrderingAssumption DEF Infos
<1>4. [basket |-> b, info |-> i] \in Composable
  BY <1>3 DEF Composes, Composable, Contents
<1>5. begun' = begun /\ placed' = placed
  BY SameStored DEF Composes
<1>6. made' = [made EXCEPT ![clock + 1] = [basket |-> b, info |-> i]]
  BY DEF Composes
<1> QED
  BY <1>1, <1>2, <1>4, <1>5, <1>6 DEF Lifecycle!Compose

LEMMA MappedStep == IInv /\ [Next]_vars => [Lifecycle!Next]_(Lifecycle!vars)
<1> SUFFICES ASSUME TypeOK, OrderInv, ReadsSingle, [Next]_vars
             PROVE  Lifecycle!Next \/ UNCHANGED Lifecycle!vars
  BY DEF IInv, OneRestaurantPerBasket
<1>1. WritesStep
  BY StepWrites
<1>2. ASSUME UNCHANGED <<dbProducts, dbInfo, made>>
      PROVE  UNCHANGED Lifecycle!vars
  BY <1>2, SameStored DEF Lifecycle!vars
<1>3. ASSUME NEW d \in Phones, ServerApply(d)
      PROVE  Lifecycle!Next \/ UNCHANGED Lifecycle!vars
  <2>1. PICK w \in Writes : w = outbox[d][sent[d] + 1] /\ sent[d] < Len(outbox[d])
    BY <1>3, QueueTypes DEF ServerApply
  <2>2. /\ made' = made
        /\ dbProducts' = IF w.kind = "products"
                         THEN [dbProducts EXCEPT ![w.order] = w.basket] ELSE dbProducts
        /\ dbInfo' = IF w.kind = "info"
                     THEN [dbInfo EXCEPT ![w.order] = w.info] ELSE dbInfo
    BY <1>3, <2>1 DEF ServerApply, counters
  <2>3. CASE w.kind = "products"
    <3>1. /\ w.order \in Orders
          /\ w.basket = made[w.order].basket /\ w.basket # EmptyBasket
      BY <2>1, <2>3, NextWrite
    <3>2. /\ dbProducts' = [dbProducts EXCEPT ![w.order] = w.basket]
          /\ dbInfo' = dbInfo /\ made' = made
      BY <2>2, <2>3
    <3>3. Lifecycle!Begin(w.order) \/ UNCHANGED Lifecycle!vars
      BY <3>1, <3>2, ProductsStep
    <3> QED BY <3>1, <3>3 DEF Lifecycle!Next
  <2>4. CASE w.kind = "info"
    <3>1. /\ w.order \in Orders /\ w.info = made[w.order].info
          /\ w.info # NoInfo /\ dbProducts[w.order] # EmptyBasket
      BY <2>1, <2>4, NextWrite
    <3>2. /\ dbInfo' = [dbInfo EXCEPT ![w.order] = w.info]
          /\ dbProducts' = dbProducts /\ made' = made
      BY <2>2, <2>4
    <3>3. Lifecycle!Place(w.order) \/ UNCHANGED Lifecycle!vars
      BY <3>1, <3>2, InfoStep
    <3> QED BY <3>1, <3>3 DEF Lifecycle!Next
  <2>5. CASE w.kind # "products" /\ w.kind # "info"
    BY <1>2, <2>2, <2>5
  <2> QED BY <2>3, <2>4, <2>5
<1>4. ASSUME NEW d \in Phones, NEW b \in AllBaskets, NEW i \in Infos,
             Composes(d, b, i)
      PROVE  Lifecycle!Next
  BY <1>4, ComposeStep DEF Lifecycle!Next
<1>5. ASSUME NEW d \in Phones, Rewinds(d) \/ Acknowledge(d)
      PROVE  UNCHANGED <<dbProducts, dbInfo, made>>
  BY <1>5 DEF Rewinds, Acknowledge, server, counters
<1>6. ASSUME NEW d \in Phones, NEW b \in AllBaskets, PostsBasket(d, b)
      PROVE  UNCHANGED <<dbProducts, dbInfo, made>>
  BY <1>6 DEF PostsBasket
<1> QED
  BY <1>1, <1>2, <1>3, <1>4, <1>5, <1>6 DEF WritesStep, writesVars

(* Phones, queues, resends and kills together keep the promise of          *)
(* OrderLifecycle: an order appears to the staff at one instant, exactly   *)
(* as it was composed, under a name of its own, and stays so.              *)
THEOREM OrderingImplementsLifecycle == Spec => OrdersAreAtomic
<1> QED
  BY MappedInit, MappedStep, InductiveInvariant, PTL
     DEF Spec, OrdersAreAtomic, Lifecycle!Spec
=============================================================================

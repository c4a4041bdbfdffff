# QFree: a verification project

QFree lets a customer order from a café with a phone and fetch the order when
it is ready. This directory holds TLA+ models of the two applications of the
repository and of the part of the database library they run on, the TLC
configurations that check them, and proofs checked by TLAPS. Paths below are
relative to the repository; `A/` stands for `src/QFree/QFree/`, `S/` for
`src/QFree/QFreeStuff/`, `L/` for
`src/QFree/Pods/FirebaseDatabase/FirebaseDatabase/Sources/`.

## 1. Inventory

There is no server code in the repository. Both applications are iOS clients of
Firebase: the Realtime Database keeps the catalogue, baskets and orders, and
Auth keeps the accounts. The client side of the database is in the repository
(`L/`), and everything the applications rely on when a connection is lost is
there: it is modelled too. Everything hard in this code comes from that: each
screen has a copy of some node, every request is asynchronous, several devices
share the nodes, and the process may die between two requests.

| Component | State | Operations | Correct when |
|---|---|---|---|
| Basket dictionary (`A/MainModules/MenuModule`) | `[ProductInfo : Int]` | add, minus, `checkRestaurantId` | products of one restaurant |
| Menu screen (same) | local basket, rows, alerts | reads on appearing, `postBasket` on disappearing, row buttons | never mixes restaurants, no failed unwrap |
| Basket screen (`A/MainModules/BasketModule`) | copy of the basket, order button, alerts, confirmation | `getBasket`, `orderButtonPressed`, confirmation | one tap, at most one order; what is confirmed arrives |
| `FirebaseHandler` (`A/Networking`) | node name of the user; the library's queue of writes | reads, `postBasket`, `makeOrder`, `getOrders`, `loadAllOrders` | an order is stored whole, once, as composed |
| `Reachability` | none; asks the system | `isConnected` | a guard in front of every request |
| Orders screen (`A/MainModules/OrdersModule`) | list of orders | two reads on appearing | lists what exists, survives what it reads |
| Tab bar, launch (`A/MainModules/TabBarModule`, `A/Supporting Files`) | selected tab, root view controller | select, launch, death | only confirmed users come in |
| Sign-in, registration, confirmation (`A/AuthModules`) | forms, `stopAnimating`, `isGoingForward`, polling thread | register, sign in, poll, confirm, resend, leave | the account of a patient user survives |
| Profile (`A/MainModules/ProfileModule`) | none of its own | log out, change address or password | later requests are the new user's |
| Restaurant list (`A/MainModules/RestaurantModule`) | restaurants, filtered restaurants, marked category | read, filter, open a menu | the touched restaurant's menu opens |
| Picture cells | wanted URL, picture, activity indicator; shared cache | configure, download | a row shows its own picture |
| Staff application (`S/`) | list of orders, selected order | open, read, select, complete, leave | whole orders of this restaurant |
| Library: connection (`L/Core/FPersistentConnection.m`, `L/Realtime`, `L/Login`) | connection state, token, listens, outstanding writes, completions held back | connect, fetch a token, authenticate, restore, send, be answered, interrupted, revoked | writes are applied in order, each is answered once, the session is the user's, a lost connection comes back |
| Library: sync tree (`L/Core/FSyncTree.m`, `FWriteTree.m`, `L/FViewProcessor.m`) | pending writes, views with two caches, observers, listens | set, remove, observe, server data, acknowledge, refuse | observers see the server's data under the pending writes |
| Order details, search, map, views, leftovers, other Pods | | | not modelled, section 8 |

How they interact: the restaurant list pushes a menu by the *position* of its
restaurant; menu and basket screen exchange the basket only through the
database node `Users/<user>/basket`; `makeOrder` turns that node into
`orders/<time>/products` and `orders/<time>/info`; the orders screen and the
staff application read these while phones write them; `FirebaseHandler` takes
the user's node name from Auth once per process; the confirmation screen
replaces the whole window by the tab bar. Below the applications, the sync tree
answers reads from the server's data and the pending writes, hands writes and
listens to the connection, and gets data and answers back from it; Auth tells the
connection of every change of the user, through a queue of its own.

The hard behaviours, each with its line in `PROJECT.json` under `hazards`:

* screens overwrite whole nodes with old copies, from one or several phones;
* a double tap, or a tap and its retry, runs two chains of reads at once;
* `makeOrder` issues three writes, which a kill, a disconnection or a resend may
  separate or repeat, and confirms before any of them is acknowledged;
* a background thread polls and force-unwraps shared state without a lock;
* answers to deletions, downloads and lists arrive late and in any order;
* the library sends every unanswered write again after a reconnection, holds
  completions back while a listen is unanswered, and moves listens between views as
  observers come and go;
* tokens are fetched while the connection is interrupted and resumed and the user
  changes; only a number tells the answers apart;
* about twenty force-unwraps and force-casts turn surprising data into the end of
  the process.

## 2. Modules

| Module | What it is |
|---|---|
| `Baskets` | the dictionary, its two buttons, `checkRestaurantId`; pure operators |
| `Ordering` | phones of one account, `FirebaseHandler`, the library's queue, the server's nodes; menu, basket and orders screens |
| `OrderLifecycle` | abstract specification: an order is composed, begun, and placed at one instant as composed |
| `OrderRefinement` | the mapping from `Ordering` to `OrderLifecycle` |
| `OrderingProofs` | theorems about `Ordering`, the refinement among them |
| `StaffOrders` | the staff application; its environment is an INSTANCE of `OrderLifecycle` |
| `StaffOrdersProofs` | theorems about `StaffOrders` |
| `Accounts`, `AccountsProofs` | sign-in, registration, confirmation, profile's logout, Auth; theorems |
| `RestaurantList`, `RestaurantListProofs` | list, category filter, opening a menu; theorem |
| `CellImages`, `CellImagesProofs` | cells that load pictures; theorems |
| `Connection` | the library's connection: tokens, sessions, listens, writes, completions |
| `WriteQueue` | abstract specification: what the library promises about the writes of one process, a set of numbers that is worked off in their order |
| `ConnectionRefinement` | the mapping from `Connection` to `WriteQueue` |
| `ConnectionProofs` | theorems about `Connection`, its refinement among them |
| `WriteTree` | paths, nodes and pending writes (`FWriteTree`, `FCompoundWrite`); pure operators |
| `ViewProcessor` | what an operation makes of a view's caches (`FViewProcessor`); pure operators |
| `SyncTree` | views, observers, listens and pending writes between application and connection |
| `SyncTreeProofs` | theorems about `SyncTree`: the cache and what it sends |
| `SyncTreeFreshness` | theorems about `SyncTree`: how new what it shows is |
| `MC*` | the instances TLC checks |

`Ordering` and `StaffOrders` meet in `OrderLifecycle`: the first implements it,
the second lives in it. So the staff application is checked against *every*
behaviour the customers' phones can show, without carrying their state.
`Accounts`, `RestaurantList` and `CellImages` share no state with the others.

The library's modules discharge what `Ordering` takes for granted of it.
`Ordering` gives each phone an `outbox` whose writes are applied in order,
acknowledged in order and all sent again after a loss: that is `WriteQueue`, which
`Connection` is shown to implement. `Ordering` lets a phone's pending writes
hide the server's value from its own reads: that is `EventIsOverlay` of `SyncTree`.

### How state and actions correspond to the code

**Ordering.** `dbBasket`, `dbProducts` and `dbInfo` are the nodes of one user. For
each phone, `outbox` and `sent` are the client library's queue: `setValue` and
`removeValue` append to it; `ServerApply` takes the next write, `Acknowledge`
drops the oldest applied one, `Reconnect` and `GoOffline` make every
unacknowledged write be sent again. Persistence is never enabled in the
repository, so `EndProcess` empties the queue. `reads` holds the outstanding
`observeSingleEvent` calls; each goes through a start (`Request`, with the
`isConnected` guard), an `Answer` (the phone's own pending writes hide the
server's value), and a callback. The screens are `tab`, `menu`, `menuBasket`,
`menuRows`, `cart`, `sheet`, `shown`; every touch is an action of its own
(`TapAdd`, `TapMinus`, `TapOrder`, `CloseMenu`, ...), and so is every callback
(`GotMenuBasket`, `GotPressRestaurants`, `makeOrder`, `GotOrders`, ...). An
action contains all of its handler: `CloseMenu` posts the basket because
`viewWillDisappear` does, `SelectTab` starts the reads of `viewWillAppear`.
A failed unwrap ends the process (`EndProcess` with the site recorded in
`traps`), it does not stop the model: the phone is launched again and goes on
with what the database holds. `made`, `taps` and `traps` are history.

`checkRestaurantId` returns at the first key of a dictionary; Swift's order is
arbitrary, so the operator yields the *set* of possible results and `TapAdd`
chooses. For the same reason `makeOrder` takes any key of the basket.

**Accounts.** Auth is a server (`status`, `verified`), a device memory that
survives kills (`current`, `seen`), and a set of calls, each sent, then failed
or served, then completed on the main queue. The polling thread has a program
counter per screen (`PollTest`, `PollUser`, `PollExit`, `PollDelete`,
`PollEnter`), because its loop condition and the code after it read
`stopAnimating` and the current user separately. `Disappear` is
`viewWillDisappear`, including the disappearance caused by `Coordinator.rootVC`
and the one of a swipe that is given up.

**RestaurantList.** `fetchResultsInfo`, `update` and the two halves of
`didSelectItemAt`; `Filtered` is its loop, `restaurantID` its `firstIndex(of:)`.

**CellImages.** `loading` counts the downloads of each cell and URL on their
way; `ConfigureCached` and `ConfigurePlain` give a cell a row, `ArriveCached`
and `ArrivePlain` are the blocks on the main queue.

**StaffOrders.** `Found` is the nest of loops of `loadAllOrders`; a tablet opens
a restaurant, is answered, selects, completes and leaves, while
`Lifecycle!Next` moves the orders underneath.

**Connection.** All code of the connection runs on one serial dispatch queue, so a
block of that queue is an action. `connectionState`, `interruptReasons`,
`forceAuthTokenRefresh`, `outstandingPuts`, `putsToAck`, `unackedListensCount` are
the fields of `FPersistentConnection`; `scheduledRetry` is the block of
`FIRRetryHelper`; `realtime` is the `FConnection` it owns. `listen`, `put` and
`interruptForReason` are calls of the repo; `OnFetch`, `OnReady`, `OnAuth`, `OnPut`,
`OnListen`, `OnClose` and so on are blocks that an answer runs. What a request's
callback would know travels in the answer, so the callback table is what is in
`up` and `down`. Auth is `account`, `issue` (tokens issued before are invalid),
`fetches` (on the network, in any order) and `authQueue` (dispatched in order). The
server handles requests in the order they were sent, except that a listen may
take longer: that is the case `putsToAck` is written for. A connection may be lost
at any moment, with what is in `up` and `down`.

**SyncTree.** A path is the set of leaves below it and a node the function from
leaves to values, so that the tree of `FImmutableTree`, `FCompoundWrite` and
`FChildrenNode` is set algebra. `visibleWrites` is kept as the code keeps it, with
the shortcuts of `addOverwriteAtPath` and `removeWriteId`; that it equals layering
all writes anew is a property, not a definition. A view has the server cache and
the event cache with their flags, and `ViewProcessor` has one operator for each
operation on them. `Observe`, `RemoveObserver` and `Set` are the application's calls;
`OnData`, `OnPut`, `OnListen` and `Restore` are what the connection calls.

## 3. What the runs check

Passing runs. Each property has a mutant of the code, listed in
`PROJECT.json`, with which TLC finds it violated.

| Run | Properties | What it shows |
|---|---|---|
| `menus` | `OneRestaurantPerBasket`, `InfoImpliesProducts`, `AtMostOneOrderPerTap`, `TypeOK` | The arbitrary-key check is enough: no copy of the basket anywhere ever mixes restaurants. An order's info never precedes its products. Double taps and retries never multiply orders. |
| `phones` | `ShownOrdersBacked`, `BasketRemovedLast`, `CompleteOrdersFinal`, `OrdersAreAtomic` | With two phones: a confirmed or listed order exists or is on its way; the basket is removed only after its order is stored; resends never change a stored order; `Ordering` implements `OrderLifecycle`. |
| `liveness` | `SubmittedOrderArrives`, `PressResolved` | A queued order arrives unless the process dies; a tap never hangs. |
| `session` | `PatientUserKeepsAccount`, `PollingAdmitsVerified` | Who registers, waits and never goes back keeps the account and meets no failed unwrap, wherever the process is killed; the polling thread lets only confirmed addresses in. |
| `polling` | `VerifiedEnters`, `PollingEnds` | Confirming the address lets the user in; the thread of a left screen ends. |
| `touches` | `MenuOfRow` | The menu that opens is that of the touched restaurant, and its position exists, under every filter, for lists with repeated entries and for lists that arrive late. Checked with deadlock detection. |
| `cells` | `PictureOfRow`, `ProductPictureOfRow`, `PictureArrives` | A `CachedImageView` never shows another row's picture, and shows its own in the end. A product cell, which compares nothing, ends up right unless it was reused while a download for another row was on its way, or a download was lost. |
| `lists` | `ListedAsComposed`, `PlacedIsListed` | A tablet lists whole orders of its restaurant only, and all that were placed before it read. |
| `connection` | `AssertionsHold`, `AlwaysUnderWay`, `UnackedListensOut`, `WritesAccountedFor`, `AppliedAsReported`, `SessionOfAccount`, `CompletedInOrder`, `TypeOK` | No assertion of the library can fail and it never stops trying; no completion is lost or called twice, none says ok for a write that was not applied, and a transaction is never applied twice; requests are sent in the session of the signed-in user. |
| `reconnect` | `WritesAreQueued`, `Restored`, `WritesArrive`, `HeldDelivered` | `Connection` implements `WriteQueue`; a connection nobody interrupts is restored, writes are answered, held completions are called. |
| `synctree` | `VisibleIsLayered`, `EventIsOverlay`, `OneListenCovers`, `RaisedIsCurrent`, `NeverOlder`, `Converged`, `AnswerOnItsWay`, `TypeOK` | Observers are told the server's data under the pending writes, never see an older value than one they wrote, and end with the server's data; every observer is covered by exactly one listen whose answer arrives. |

`AtMostOneOrderPerTap` counts orders, presses under way and retry alerts
against taps. `TypeOK` is a module's type invariant; in `Ordering` it includes that
no more writes count as applied than are queued, in `Connection` that
`unackedListensCount` never goes below zero, which the code asserts. The type
invariants of `Accounts`, `CellImages` and `StaffOrders` are proved instead
(section 6).

One run ends in a violation. It states what a guard elsewhere in the repository
says of the data; the run shows how the code gets elsewhere. The quotation is in
`PROJECT.json`.

| Run | Property | How |
|---|---|---|
| `getorders` | `GetOrdersNeverTraps` | a kill between the writes of `makeOrder`, then the orders screen |

Other places where the code does less than a reader would expect are modelled
as they are, and the properties above hold in spite of them. They need no search:

* a second tap whose reads finish after the first order has removed the basket ends the
  process in `makeOrder`, which takes the first key of an empty dictionary;
* an account whose address was never confirmed gets in by a launch after a kill, or by
  signing in (`Launch`, `SignIn` of `Accounts`);
* `FirebaseHandler` takes the node name once, so that after logging out and signing in
  with another account orders still go to the first one's node (`handler.user`);
* minus in a row whose product was never added ends the process (`TapMinus`);
* after going back from a confirmation screen and registering again, the late
  answer to the first deletion signs out the second user, and the buttons of the
  second screen end the process (`Deleted`, `confirmEmail`,
  `resendVerificationEmail`); `PatientUserKeepsAccount` is about users who do
  not go back;
* a category touched before the list arrives stays marked over the unfiltered list
  (`update`); `MenuOfRow` holds in spite of it;
* an answer that is not a picture ends the process (`ArriveNoPicture`);
* completing an order changes the panel's copy only (`completeOrder`); a comment in
  the code says that updating the database is still to be done;
* completions held back in `putsToAck` stay there when the connection is lost, until the
  answer of some later listen; without one they are never called (`HeldDelivered`
  allows for it). Later writes are then acknowledged first, and an observer may be
  shown the older of its own two values again (`NeverOlder`, `VisibleIsLayered` and
  `CompletedInOrder` are restricted accordingly);
* a token fetched from the network for a user who has left meanwhile overtakes the
  sign-out: until the change is taken the session is that user's (`outpaced`);
* a listen called while the connection is authenticating is sent twice;
* a request for a forced refresh is lost when reachability schedules another attempt;
  that attempt fails once more and asks again (`Restored`).

## 4. Bounds, and why they are enough

* `menus`: one phone, two restaurants of one product, amounts up to 1, two reads
  at a time, two queued writes, two orders, seven touches, **any number** of
  faults (`FaultCost = 0`). Seven touches are what it takes to fill a basket, try
  another restaurant, empty the basket, add there, leave, and order; a mixed
  basket needs two restaurants and no more. Amounts only matter as zero and
  not zero.
* `phones`: two phones, one product left in the basket by an earlier session, four
  touches, one fault, one queued write when a screen adds more. A double tap on
  one phone, or a tap on each, makes two orders with all interleavings of their
  six writes; the fault may fall between any two of them.
* `liveness`: one phone, four touches, any number of faults of the network and the
  process. Symmetry is not used.
* `session`: two accounts and two confirmation screens (one left, one current), six
  touches, any number of lost calls. `polling`: one screen, five touches, one
  lost call. With a single confirmation screen a screen that was left is still
  polling when its account or another one is used, which is what both
  properties are about.
* `touches`: lists of up to four restaurants with a repeated one and two categories,
  five touches: mark, mark another, unmark, open, open again.
* `cells`: two cached cells and a product cell, two URLs, five rows, one download lost:
  a cell gets a row, another, and the first again, with both downloads of the
  first on their way, while another cell fills the cache.
* `lists`: two tablets, two orders, two restaurants, five touches: open, select,
  complete, leave, open again.
* `connection`: a write and a transaction, two calls of `listen` for one query, tokens
  issued twice, and any two of: loss, interruption, purge, change of user,
  revocation, reset, shutdown, failed fetch, invalidated tokens. Two faults are what
  it takes to lose a connection while another answer of the first is still queued; two
  listens, to have one revoked or stopped while the other is unanswered. 1.9 million
  states.
* `reconnect`: the same with two plain writes and one listen, under fairness.
  178 thousand states.
* `synctree`: a node with two children, one of which has two children (leaves 1, 2 and
  3); observers of the root and of the inner node, writes to the inner node
  and a leaf below it: the cases an overwrite can be in (above, at, below a view, hiding
  an earlier write or hidden by a later one). Two writes, two listens, two observers, and
  one denial, loss or write of another client. 1.5 million states; random simulation at
  larger bounds met no violation either.
* Bounds are named constants in guards: `MaxGestures`, `MaxFaults`, `MaxOrders`,
  `MaxQueued`, `MaxAmount`, `Slots` in `Ordering`; `MaxTouches`, `MaxLost` in
  `Accounts`; `MaxRows`, `MaxLost` in `CellImages`; `MaxTouches` elsewhere.
  In the library's modules `LastPut`, `MaxListens`, `MaxObserves`, `MaxIssue`, `MaxTroubles`
  stop the application, Auth and the faults; `MaxWire` and `MaxEvents` keep the
  application and Auth from adding to a full wire. A bound stops the users and faults,
  never what is under way. The theorems of section 6
  hold for all values of these constants.
* `CHECK_DEADLOCK FALSE` is set where users may have used up their touches and
  everything under way has ended; the program then waits for a touch.

## 5. Fairness

Nothing is assumed of users, nor that a process stays alive.

* `Ordering`: the network comes back (`WF GoOnline`); a network that keeps coming back
  carries writes, acknowledgements and answers (`SF ServerApply`, `SF
  Acknowledge`, `SF Answer`: the library resends after every reconnection, which
  is exactly a retry whenever enabled); the main queue runs its blocks (`WF
  Callback`).
* `Accounts`: the polling thread is scheduled (`WF Poll`); among the reloads it keeps
  sending, one is served (`SF Serve`); completions run (`WF`). A single lost reload
  is not fatal in the code, and not in the model.
* `CellImages`: downloads that are not lost finish (`WF ArriveCached`).
* `StaffOrders`: reads are answered and callbacks run (`WF Answer`, `WF GotOrders`).
* `Connection`: the serial queue runs its blocks and its scheduled retries, a token fetch
  that does not fail returns, the server answers what it was sent (`WF` each).
  Interruptions and user changes are the application's and nothing is assumed of
  them; `Restored` and the others say what holds while nothing interrupts.

## 6. Proofs

All theorems hold for every value of the constants that satisfies the modules'
assumptions: a catalogue that gives each product one restaurant, positive
bounds, starting baskets of a single restaurant, absent values distinct from
present ones, finitely many phones, outstanding reads and queries.

`OrderingProofs` proves `TypeCorrect`, `OneRestaurant` and `OneOrderPerTap`. `OneRestaurantPerBasket`
alone is not inductive: `TapAdd` could mix restaurants in a menu whose rows were
another's. It is strengthened by `RowsOfMenu` (rows belong to the menu's
restaurant) and the types. The key step is that for a basket of a single
restaurant all keys give `checkRestaurantId` the same answer. `OneOrderPerTap`
(`AtMostOneOrderPerTap`) counts: every step is reduced to what it does to the presses
on their way and to the retry alerts (`PressStep`): it moves at most one from tap to
press, from press to alert and back, or from press to order, or loses some.

The part on an order's writes proves the inductive invariant
`TypeOK /\ OneRestaurantPerBasket /\ RowsOfMenu /\ OrderInv`, and from it
`InfoHasProducts`, `RemovedLast`, `CompleteIsFinal` and `ShownIsBacked`. `OrderInv` says why an
order arrives whole although its writes are separate and repeated:

* `MadeSound`: what `makeOrder` composed names the restaurant of all its products;
* `QueuedAsMade`, `StoredAsMade`: a queued or stored node carries what was
  composed, so a resend stores the same value again;
* `QueueInOrder`: ahead of a queued info there is the queued products node, unless
  that is already stored; the same for the removal and the info;
* `AppliedIsStored`: what counts as applied is on the server, so that dropping an
  acknowledged write keeps `QueueInOrder`;
* `StoredInOrder`: an info on the server has its products beside it.

Each action is first reduced to its effect on queue and nodes (`WritesStep`:
nothing, a rewind, an application, an acknowledgement, a posted basket, a
composed order), and each effect is shown to keep each conjunct.

`ShownIsBacked` adds to `ShownOrdersBacked` that every order in an answer still on its
way is backed node by node (`AnswersBacked`): the list shows an answer some time
after it was given. An acknowledged write leaves the queue only when its node is
stored (`AppliedIsStored`), and when the queue dies with the process so do the
screens and the answers (`Gone`).

The last part proves `OrderingImplementsLifecycle`: under the mapping of
`OrderRefinement` (`composed` is `made`, an order is begun when its products
node exists and placed when its info does), initial states map to initial states
and each step to a step or a stutter.

`StaffOrdersProofs` proves `TabletsListComposedOrders`: `ListedAsComposed` for any
number of tablets, orders and restaurants. Together with the refinement, what
tablets show is what phones composed. The invariant adds that a placed order is
as composed and that an answer on its way is already right; it stays right
because a composed order never changes. `StaffTypes` is the type invariant.

`RestaurantListProofs` proves `MenuIsOfRow`: `MenuOfRow` for any list. The invariant
(`Listed`) says that every row is in the list and that the list arrives once, before
any menu is open. That the rows of a category are in the list is a fact about a fold. The
library's induction theorems take a predicate, which the provers cannot instantiate;
`NatInductiveSet` takes a set instead and follows from the well-foundedness of `<`. With
it `FoldExists` shows that the fold's recursive function is defined and
`FilteredInTurns` unfolds it into the turns of the loop.

`CellImagesProofs` proves `CachedCellsShowTheirRow`: `PictureOfRow` for any number
of cells, URLs and downloads. The invariant adds that the cache holds the right
picture for each URL. `ProductCellsShowTheirRow` proves `ProductPictureOfRow`, about
the cell that compares nothing: as long as it was not reused over a pending
download and no download was lost, all its pending downloads are for the URL of
its row (`LoadsItsRow`). `CellTypes` is the type invariant.

`AccountsProofs` proves `PatientUserIsSafe`, `PollingAdmits` and `AccountTypes`. That a
patient user keeps the account is not inductive. The invariant says what patience
means for the rest of the state (`Patient`): only the screen that is shown polls, it has
not been stopped and its user stays signed in; no call that deletes exists and no
thread is about to make one; neither a sign-in nor a creation is on its way while it
waits; and, whatever users do, that a device never remembers an address as confirmed that is not (`SeenSound`)
and that an ended process has no calls and no threads (`EndedIsEmpty`).
`PollingAdmits` is an action property: it follows from `SeenSound` at the one step by
which a thread enters.

`ConnectionProofs` has no bound on writes, queries, users or faults. It splits the
state by what the facts are about:

* `ControlInv` is inductive together with the types (`Shapes`): the connection state
  agrees with the `FConnection` (`StatesAgree`); requests are on their way only over an
  open wire (`WireOpen`); no two fetches, on the network or answered, have the same
  number (`FetchesUnique`), and while the current one is out the library waits for it
  (`FetchAgrees`); an authenticating connection has its restoring authentication on
  its way (`AuthOut`). From it follow `AssertionsNeverFail` and
  `NeverStopsTrying`.
* `EveryWriteAccounted`: `WritesAccountedFor` is inductive with the types alone. Five
  steps touch writes: making, sending again, an answer, an answer of a listen that
  releases what was held back, and the cancellation on a loss.
* `HeldBackWhileListening`: `UnackedListensOut` is inductive with the types. The count
  is a number of places in two sequences, and each step that sends, moves, answers or
  loses a listen is shown to change both sides alike. Restoring sends one listen for
  each query that has one. Hence `TypeCorrect`, that the count is never negative.

Its second half proves what the connection promises, first `AppliedIsReported`. An answered write was applied
(`AnsweredApplied`), so what is held back or completed was (`ReportedApplied`). That a
transaction is applied once although restoring sends every outstanding write again
takes four facts, together inductive with `ControlInv`: a restoring authentication is
the first of its connection, ahead of any other on the wire, and until its answer is
taken the library is authenticating, so a connection restores its state once
(`RestoreFirst`); transactions that were sent are cancelled before that
(`CancelledFirst`); a number is used for one write (`SentMade`); hence a transaction is
on its way at most once, not before it is marked as sent and only while it was not
applied (`TransactionsOnce`).

Three more properties of the connection follow, each from an invariant
that is inductive together with those above:

* `SessionIsTheUsers` (`SessionOfAccount`) from `SessionInv`. The last token change that
  waits, and every fetched token behind it that is not late, is of the signed-in user;
  with no change waiting `authToken` is (`TokensAgree`). The last request on the wire
  that says who the user is says `authToken`; when none is left and the server refused
  and revoked nothing, its session is `authToken` (`SessionFollows`). The exception the
  property makes, a token fetched for a user who left meanwhile, is the only way out of
  `TokensAgree`.
* `CompletionsInOrder` (`CompletedInOrder`) from `OrderInv`. Writes on the wire ascend
  (`WireRises`) and answers are ahead of requests (`AnswersFirst`). A write is on the
  wire only in the state `Connected` and is then outstanding or cancelled by a purge
  (`WireKnown`), and in that state every outstanding write is (`AllOut`): so the answer
  at the head belongs to the oldest. What is held back is older than what is outstanding
  (`HeldFirst`), and with no listen unanswered it was stranded by a loss
  (`HeldStranded`): so nothing is completed past it.
* `ConnectionImplementsQueue` (`WritesAreQueued`) from the same. The abstract queue is
  `outstandingPuts`, and handled are the outstanding writes with an answer in `down`.
  The server takes the first request on the wire: by `WireRises`, `AnswersFirst` and
  `AllOut` that is the oldest write not yet handled, or a cancelled one. A loss maps to
  `Rewind`, a purge to `Purge`; a new authentication changes nothing of the queue.

`SyncTreeProofs` holds for every finite tree of paths, any number of writes, observers
and listens, and any denials, losses and writes of other clients. One inductive
invariant (`IInv`, theorem `CacheAndConnectionAgree`) gives six of the run's
properties; none of them is inductive alone. It has three parts:

* `Consistent`, about the cache: every view shows the server's node under the visible
  writes (`FaithfulBut`), is shown whole when the server's node is known or a write
  hides it (`Filled`), and has told its observers (`Told`). The acknowledgements held
  back are those of the first pending writes (`HeldFirst`). The visible writes are what
  layering the pending ones gives *but for* the leaves in `Stale`: those under a
  write that waits in `putsToAck` while a later write to the leaf is already gone, where
  `removeWriteId` has left the later value. While writes end in order nothing
  is stale, hence `VisibleIsLayered`.
* `Wire`, about the connection: listens are numbered and belong to the root-most views
  (`Listening`); each number is once on its way, and `unackedListensCount` is how many
  are (`Lines`); writes on their way are the pending ones that are not held back, those
  answered ahead of those to be handled (`PutsOut`); a view listened to that does not
  know the server's node has its answer on the way (`Waits`); and an acknowledgement is
  held back with no listen out only while nothing is observed (`Quiet`), so that an
  acknowledgement overtakes another only while no view shows either write.
* `Others`: types of the rest.

A handler is a chain of operations on the tree. There is a lemma for what each operation
of `FViewProcessor` makes of one view (`TookIn`, `Wrote`, `Unhidden`), one for all the
views it reaches (`FilledFrom`, `WrittenTree`, `AckedTree`), and one for the chain; the
action's lemma then joins it with what was sent. Nodes are compared leaf by leaf
throughout. That the tree is finite, as a tree of dictionaries is, is used for the
root-most view above a path (`MaximalExists`) and for sending a set in some order.
`Layer` and `ApplyAcks` are folds, and what they yield is shown as in
`RestaurantListProofs`.

`SyncTreeFreshness` proves the two properties that relate what is shown to the server's
data: `OwnWritesStayShown` (`NeverOlder`) and `AnsweredIsCurrent` (`Converged`). The
invariant `FInv`, inductive together with `IInv`, follows a value from the server to the
views. Call a write *answered by* the k-th message of `down` when its acknowledgement was
received or is among the first k (`AnsweredBy`), and a value *not before* a set of writes
when it is from before none of those that were made to its leaf and not refused
(`NotBefore`).

* `Stored`: what the server stores is not before any write it answered. Writes are
  answered in their order (`Books`), so the write stored now is the newest answered.
* `DataSafe`: the data in each message is not before the writes answered by then.
* `Feeds`: for a path the server took the listen of (`Following`), the value a leaf will
  have after all of `down` is the server's, and after each message it is not before the
  writes answered by then (`UpToDate`). While the answer of the listen itself is still to
  come this is only said from the data before that answer on: until then a view keeps what
  it knew before a loss, and acknowledgements are held back.
* `Watching` and `Preceded`: the server is listening on every such path, no request to
  end it is behind the listen, and the answer of a listen is right behind its data.
* `Remembered`: what a view keeps of the server is not before the writes whose
  acknowledgement was processed. When the answers of all listens are in, the writes held
  back leave the pending ones, and by `Feeds` the views have been brought up to date
  (`ServedSettled`).
* `Grounded`: a view that shows a value has the whole node of the server or is hidden by
  a pending write.

The messages between the server and the views are never inspected one by one by an
action's lemma: `UpToDateTail` says what receiving the first one leaves true,
`UpToDateConcat` and `UpToDateNew` what sending more does, and each action is reduced to
these. `NeverOlder` then follows from the last pending write of a leaf, which under
`InOrder` is not older than any that was made, or from `Remembered` where none is pending;
`Converged` from `Feeds` with `down` empty.

Assumption worth naming: `makeOrder` names an order by the current time, and
`NewOrder` gives every order a new name. Two orders of one account composed in
the same microsecond would share a node; the code does not exclude it.

## 7. Only model-checked

Liveness (`SubmittedOrderArrives`, `PressResolved`, `VerifiedEnters`, `PollingEnds`,
`PictureArrives`, `PlacedIsListed`, `Restored`, `WritesArrive`, `HeldDelivered`) rests
on fairness, which the prover does not handle. Every safety and
action property and both refinements that a passing run checks are proved.

## 8. Not modelled

* Order details, search screen and map: no state that changes, or not reachable
  from the tab bar.
* Changing the address or the password; field validation of the forms.
* Sorting and formatting of dates, texts, layout, colours, builders and routers.
* The staff application's list of restaurants (one read).
* Changes of the catalogue on the server: nothing under `src/` makes them.
* The activity indicator of a cell: started when the cell is created, and left
  spinning over a picture that came from the cache (`RestaurantCollectionCell`).
* Files no other file refers to, and copies left behind by a merge.
* Of the connection: `onDisconnect` operations, statistics, a write the server denies
  (in `SyncTree`), `.info`, server timestamps and the lengths of retry delays.
* Of the sync tree: transactions, multi-path updates, filtered queries and tags,
  priorities, persistence, `keepSynced` and the `.info` tree. Neither application uses
  them. Data from the server comes as whole nodes.
* The other Pods. The network requests of Auth are modelled from its calls and marked
  external. Firestore, gRPC, BoringSSL, abseil, leveldb and nanopb are by far the
  largest part of the repository and all of its C and C++ code; the Podfile links them
  in, and the applications never run them: no source file imports Firestore, and
  leveldb is only for the database's persistence, which nothing enables. They are no
  part of this system's behaviour. What is modelled is Swift and Objective-C.

## 9. Plan

Done: the applications (`Ordering`, `StaffOrders`, `Accounts`, `RestaurantList`,
`CellImages`), the library under them (`Connection`, `SyncTree`), and the proofs of
section 6.

Left, in this order:

1. Changing the address and the password in `Profile`, with the node that a changed
   address leaves behind; composed with `Accounts`.
2. A catalogue that changes between reads: positions as names of restaurants, in a
   composition of `RestaurantList` and `Ordering`.
3. Sorting and the 12-hour format of the order history as pure operators.

## 10. Running

In this directory, `tlc -config Ordering_menus.cfg MCOrdering` and likewise for
the other configurations (`X_y.cfg` belongs to `MCX`), and
`tlapm OrderingProofs.tla` and likewise for the other proof modules. `menus`, `phones`
and `synctree` take about three minutes each, the others seconds to two minutes.

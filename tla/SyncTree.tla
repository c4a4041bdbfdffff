------------------------------- MODULE SyncTree -------------------------------
(***************************************************************************)
(* The client side cache of the Realtime Database library, FSyncTree with  *)
(* its FSyncPoints, FViews and FWriteTree, between the application, which  *)
(* sets values and observes them, and the connection, which sends writes   *)
(* and listens to the server.                                              *)
(*                                                                         *)
(* FRepo runs all of it on one serial queue, a block at a time.  Of the    *)
(* connection this module keeps what the cache can tell: what is sent when *)
(* it is restored, the order of the answers, and that acknowledgements are *)
(* held back while a listen has no answer (module Connection has the rest).*)
(*                                                                         *)
(* A write is told from all others by its values: write i stores i, or     *)
(* removes what is there.                                                  *)
(***************************************************************************)
EXTENDS ViewProcessor

CONSTANTS
  ViewPaths,    \* the paths that are observed
  WritePaths,   \* the paths that are written
  LastPut,      \* the application's writes are numbered 1..LastPut
  Initial,      \* what is stored before
  Theirs,       \* what another client writes
  MaxListens,   \* bound: listens started
  MaxObserves,  \* bound: observers added
  MaxTroubles   \* bound: denials, losses and writes of another client

ASSUME BoundsAssumption ==
  /\ ViewPaths \subseteq Paths /\ WritePaths \subseteq Paths
  /\ LastPut \in Nat /\ MaxListens \in Nat /\ MaxObserves \in Nat /\ MaxTroubles \in Nat
  /\ Initial # Nil /\ Theirs \notin {Initial, Nil}
  /\ {Initial, Theirs, Nil} \cap (1 .. LastPut) = {}

Values == (1 .. LastPut) \cup {Nil, Initial, Theirs}

(* observeEventType, and observeSingleEventOfType, which removes itself.   *)
Kinds == {"on", "once"}

VARIABLES
  allWrites, visibleWrites, \* pendingWriteTree
  regs,       \* path -> its event registrations; there is a view where there is one
  views,      \* path -> the caches of its view
  raised,     \* path -> the value raised last to observers, or None
  fired,      \* paths where a "once" was called and its removal is queued
  listens,    \* path -> number of the outstanding listen, or 0
  listenCalls, observeCalls,
  written,    \* the paths of the writes made, in order
  unackedListensCount, putsToAck,
  connected,  \* listens and writes can be sent
  up, down,   \* requests and messages of the connection
  db,         \* the server's data
  watched,    \* the paths it listens on for the connection
  denied,     \* writes it refused
  troubles

tree == <<allWrites, visibleWrites, regs, views, raised, fired>>
wire == <<listens, listenCalls, unackedListensCount, putsToAck, up>>
server == <<db, watched, denied>>
vars == <<tree, wire, observeCalls, written, connected, down, server, troubles>>

Node(p) == [p -> Values]
None == Empty({})
NoView(p) == NewView(Empty(p), FALSE, Empty(p), FALSE)

Request ==
  [type : {"listen"}, path : ViewPaths, spec : 1 .. MaxListens]
    \cup [type : {"unlisten"}, path : ViewPaths]
    \cup [type : {"put"}, id : 1 .. LastPut]

Message ==
  [type : {"data"}, node : UNION {Node(p) : p \in Paths}]
    \cup [type : {"listen"}, path : ViewPaths, spec : 1 .. MaxListens, ok : BOOLEAN]
    \cup [type : {"put"}, id : 1 .. LastPut, ok : BOOLEAN]

TypeOK ==
  /\ \A k \in DOMAIN allWrites :
       allWrites[k].id \in 1 .. LastPut /\ DOMAIN allWrites[k].node \in WritePaths
  /\ \A w \in visibleWrites : DOMAIN w \in WritePaths /\ w \in Node(DOMAIN w)
  /\ regs \in [ViewPaths -> SUBSET Kinds]
  /\ \A p \in ViewPaths :
       /\ views[p].server \in Node(p) /\ views[p].serverFull \in BOOLEAN
       /\ views[p].event \in Node(p) /\ views[p].eventFull \in BOOLEAN
       /\ raised[p] \in Node(p) \cup {None}
       /\ p \in fired => "once" \in regs[p]
  /\ listens \in [ViewPaths -> 0 .. listenCalls] /\ listenCalls \in 0 .. MaxListens
  /\ observeCalls \in 0 .. MaxObserves /\ written \in Seq(WritePaths)
  /\ unackedListensCount \in 0 .. MaxListens
  /\ putsToAck \in Seq([id : 1 .. LastPut, ok : BOOLEAN])
  /\ connected \in BOOLEAN
  /\ up \in Seq(Request) /\ down \in Seq(Message)
  /\ db \in Node(Leaves) /\ watched \subseteq ViewPaths /\ denied \subseteq 1 .. LastPut
  /\ troubles \in 0 .. MaxTroubles

Init ==
  /\ allWrites = <<>> /\ visibleWrites = {}
  /\ regs = [p \in ViewPaths |-> {}] /\ views = [p \in ViewPaths |-> NoView(p)]
  /\ raised = [p \in ViewPaths |-> None] /\ fired = {}
  /\ listens = [p \in ViewPaths |-> 0]
  /\ listenCalls = 0 /\ observeCalls = 0 /\ written = <<>>
  /\ unackedListensCount = 0 /\ putsToAck = <<>>
  /\ connected = TRUE /\ up = <<>> /\ down = <<>>
  /\ db = [l \in Leaves |-> Initial] /\ watched = {} /\ denied = {}
  /\ troubles = 0

-----------------------------------------------------------------------------
(***************************************************************************)
(* FSyncTree.  "t" holds allWrites, visibleWrites, regs, views, raised and *)
(* fired, so that one handler may apply several operations.                *)
(***************************************************************************)
Tree ==
  [allWrites |-> allWrites, visibleWrites |-> visibleWrites, regs |-> regs,
   views |-> views, raised |-> raised, fired |-> fired]

TreeBecomes(t) ==
  /\ allWrites' = t.allWrites /\ visibleWrites' = t.visibleWrites
  /\ regs' = t.regs /\ views' = t.views /\ raised' = t.raised /\ fired' = t.fired

Viewed(rs) == {p \in ViewPaths : rs[p] # {}}

(* hasCompleteView on the way to p.                                        *)
CoveredBy(rs, p) == {q \in Viewed(rs) : p \subseteq q /\ q # p}

(* collectDistinctViewsForSubTree, without the view at p itself.           *)
DistinctBelow(rs, p) ==
  {q \in Viewed(rs) : q \subseteq p /\ q # p /\ CoveredBy(rs, q) \subseteq {r \in ViewPaths : p \subseteq r}}

(* The root-most complete server node on the way to p, cut to p, as a set. *)
CompleteServerCache(t, p) ==
  LET full == {q \in Viewed(t.regs) : p \subseteq q /\ t.views[q].serverFull}
  IN  {Child(t.views[q].server, p) : q \in {r \in full : \A s \in full : s \subseteq r}}

(* Mutant: a value is raised only when the view becomes complete.          *)
RaisesFirst(old, new) == new.eventFull /\ ~old.eventFull

(* maybeAddValue.                                                          *)
RaisesValue(old, new) == new.eventFull /\ (~old.eventFull \/ new.event # old.event)

(* applyOperationToSyncPoints: the operation at q reaches every view above *)
(* or below q; "processed" is what it makes of them; each view that        *)
(* changes raises its value.                                               *)
Reached(t, q) == {p \in Viewed(t.regs) : p \subseteq q \/ q \subseteq p}

Applied(t, processed) ==
  LET raising == {p \in DOMAIN processed : RaisesValue(t.views[p], processed[p])}
  IN  [t EXCEPT !.views = [p \in ViewPaths |->
                             IF p \in DOMAIN processed THEN processed[p] ELSE @[p]],
                !.raised = [p \in ViewPaths |->
                              IF p \in raising THEN processed[p].event ELSE @[p]],
                !.fired = @ \cup {p \in raising : "once" \in t.regs[p]}]

(* applyUserOverwriteAtPath.                                               *)
ApplyUserOverwrite(t, i, node) ==
  LET q == DOMAIN node
      s == [t EXCEPT !.allWrites = Append(@, [id |-> i, node |-> node]),
                     !.visibleWrites = AddWrite(@, node)]
  IN  Applied(s, [p \in Reached(s, q) |->
        UserOverwrite(s.views[p], Child(node, p \cap q), s.visibleWrites,
                      CompleteServerCache(s, PathOfView(s.views[p])))])

(* applyServerOverwriteAtPath.                                             *)
ApplyServerOverwrite(t, node) ==
  LET q == DOMAIN node
  IN  Applied(t, [p \in Reached(t, q) |->
        ServerOverwrite(t.views[p], Child(node, p \cap q), t.visibleWrites)])

(* ackUserWriteWithWriteId.                                                *)
ApplyAck(t, i, ok) ==
  LET q == PathOf(t.allWrites, i)
      removed == RemoveWriteId(t.allWrites, t.visibleWrites, i)
      s == [t EXCEPT !.allWrites = removed.allWrites, !.visibleWrites = removed.visibleWrites]
  IN  IF ~removed.visible THEN s
      ELSE Applied(s, [p \in Reached(s, q) |->
             IF ok THEN AckUserWrite(s.views[p], p \cap q, s.visibleWrites)
             ELSE RevertUserWrite(s.views[p], p \cap q, s.visibleWrites)])

(* ackPuts, from the list.                                                 *)
ApplyAcks(t, acks) == FoldLeft(LAMBDA s, a : ApplyAck(s, a.id, a.ok), t, acks)

(* applyListenCompleteAtPath.                                              *)
ApplyListenComplete(t, p) ==
  Applied(t, [r \in Reached(t, p) |->
    ListenComplete(t.views[r], r \cap p, t.visibleWrites)])

(* serverCacheForQuery and addEventRegistration: the new view has what a   *)
(* complete view above knows, or else its children that have views.        *)
NewViewAt(t, p) ==
  LET above == CompleteServerCache(t, p)
      Full(l) == \E c \in Children(p) \cap Viewed(t.regs) : l \in c /\ t.views[c].serverFull
      node == IF above # {} THEN CHOOSE n \in above : TRUE
              ELSE [l \in p |->
                      IF Full(l)
                        THEN t.views[CHOOSE c \in Children(p) : l \in c].server[l]
                        ELSE Nil]
      eventFull == above # {} \/ HasCompleteWrite(t.visibleWrites, p)
      event == IF eventFull THEN Overlay(t.visibleWrites, node)
               ELSE CompleteEventChildren(t.visibleWrites, node)
  IN  NewView(node, above # {}, event, eventFull)

(* addEventRegistration: the new observer gets the value at once, if it is *)
(* complete.                                                               *)
Registered(t, p, kind) ==
  LET view == IF t.regs[p] = {} THEN NewViewAt(t, p) ELSE t.views[p]
  IN  [t EXCEPT !.regs[p] = @ \cup {kind},
                !.views[p] = view,
                !.raised[p] = IF view.eventFull THEN view.event ELSE @,
                !.fired = IF view.eventFull /\ kind = "once" THEN @ \cup {p} ELSE @]

(* removeEventRegistration; the view goes with its last registration.      *)
Unregistered(t, p, kinds) ==
  LET left == t.regs[p] \ kinds
  IN  [t EXCEPT !.regs[p] = left,
                !.views[p] = IF left = {} THEN NoView(p) ELSE @,
                !.raised[p] = IF left = {} THEN None ELSE @,
                !.fired = IF "once" \in kinds THEN @ \ {p} ELSE @]

-----------------------------------------------------------------------------
(***************************************************************************)
(* The connection, as FSyncTree's FListenProvider and FRepo use it.        *)
(***************************************************************************)
ListenRequest(p, spec) == [type |-> "listen", path |-> p, spec |-> spec]
UnlistenRequest(p) == [type |-> "unlisten", path |-> p]
PutRequest(i) == [type |-> "put", id |-> i]

(* Mutant: views below are not listened to again when a listen ends.       *)
StartNoneBelow(t, p) == {}

(* The listens removeEventRegistration starts when the view at p is gone.  *)
StartBelow(t, p) == DistinctBelow(t.regs, p)

(* startListening for the paths ps, in this order, and stopListening.      *)
Started(ps, stopped) ==
  /\ listenCalls + Len(ps) <= MaxListens
  /\ listenCalls' = listenCalls + Len(ps)
  /\ listens' = [p \in ViewPaths |->
                   IF \E k \in DOMAIN ps : ps[k] = p
                     THEN listenCalls + CHOOSE k \in DOMAIN ps : ps[k] = p
                   ELSE IF p \in stopped THEN 0 ELSE listens[p]]

ListenRequests(ps) == [k \in DOMAIN ps |-> ListenRequest(ps[k], listenCalls + k)]
UnlistenRequests(ps) == [k \in DOMAIN ps |-> UnlistenRequest(ps[k])]

Sent(requests) == IF connected THEN up \o requests ELSE up

(* Mutant: listens are not counted when they are sent.                     *)
CountedNone(n) == 0

(* sendListen counts the listens it sends.                                 *)
Counted(n) == IF connected THEN n ELSE 0

Outstanding ==
  Ids(allWrites) \ {putsToAck[k].id : k \in DOMAIN putsToAck}

-----------------------------------------------------------------------------
(***************************************************************************)
(* What the application does.                                              *)
(***************************************************************************)

(* FRepo.set: the write is shown, then sent.                               *)
Set(p, remove) ==
  LET i == Len(written) + 1
      node == [l \in p |-> IF remove THEN Nil ELSE i]
  IN  /\ i \in 1 .. LastPut
      /\ written' = Append(written, p)
      /\ TreeBecomes(ApplyUserOverwrite(Tree, i, node))
      /\ up' = Sent(<<PutRequest(i)>>)
      /\ UNCHANGED <<listens, listenCalls, unackedListensCount, putsToAck, observeCalls,
                     connected, down, server>>

(* addEventRegistration.  A view that no other covers is listened to, and  *)
(* takes the place of the listens below it (setupListenerOnQuery).         *)
Observe(p, kind) ==
  /\ kind \notin regs[p] /\ observeCalls < MaxObserves
  /\ observeCalls' = observeCalls + 1
  /\ TreeBecomes(Registered(Tree, p, kind))
  /\ IF regs[p] = {} /\ CoveredBy(regs, p) = {}
       THEN /\ Started(<<p>>, DistinctBelow(regs, p))
            /\ \E qs \in SetToSeqs(DistinctBelow(regs, p)) :
                 up' = Sent(ListenRequests(<<p>>) \o UnlistenRequests(qs))
            /\ unackedListensCount' = unackedListensCount + Counted(1)
       ELSE UNCHANGED <<listens, listenCalls, unackedListensCount, up>>
  /\ UNCHANGED <<putsToAck, written, connected, down, server>>

(* removeEventRegistration by the application, or by a "once" after its    *)
(* call.  When the view goes the views below are listened to again.        *)
RemoveObserver(p, kind) ==
  LET t == Unregistered(Tree, p, {kind})
      ending == t.regs[p] = {} /\ CoveredBy(regs, p) = {}
  IN  /\ kind \in regs[p]
      /\ kind = "once" => p \in fired
      /\ TreeBecomes(t)
      /\ IF ending
           THEN \E ps \in SetToSeqs(StartBelow(t, p)) :
                  /\ Started(ps, {p})
                  /\ up' = Sent(ListenRequests(ps) \o UnlistenRequests(<<p>>))
                  /\ unackedListensCount' = unackedListensCount + Counted(Len(ps))
           ELSE UNCHANGED <<listens, listenCalls, unackedListensCount, up>>
      /\ UNCHANGED <<putsToAck, observeCalls, written, connected, down, server>>

-----------------------------------------------------------------------------
(***************************************************************************)
(* What the connection does.                                               *)
(***************************************************************************)

Receive(type) == down # <<>> /\ Head(down).type = type

(* onDataUpdate.                                                           *)
OnData ==
  /\ Receive("data")
  /\ down' = Tail(down)
  /\ TreeBecomes(ApplyServerOverwrite(Tree, Head(down).node))
  /\ UNCHANGED <<wire, observeCalls, written, connected, server>>

(* Mutant: an answered write is acknowledged at once.                      *)
AckNow == TRUE

(* Nothing that was listened to is without an answer.                      *)
NoListenOut == unackedListensCount = 0

(* The callback of sendPut.                                                *)
OnPut ==
  LET m == Head(down)
  IN  /\ Receive("put")
      /\ down' = Tail(down)
      /\ IF NoListenOut
           THEN TreeBecomes(ApplyAck(Tree, m.id, m.ok)) /\ UNCHANGED putsToAck
           ELSE putsToAck' = Append(putsToAck, [id |-> m.id, ok |-> m.ok]) /\ UNCHANGED tree
      /\ UNCHANGED <<listens, listenCalls, unackedListensCount, up, observeCalls, written,
                     connected, server>>

(* The callback of sendListen.  A listen that was removed, or removed and  *)
(* added again, is only counted.  A refused one ends all registrations of  *)
(* its path, and the views below are listened to.                          *)
OnListen ==
  LET m == Head(down)
      current == listens[m.path] = m.spec
      Settled(more) ==
        /\ unackedListensCount' = unackedListensCount - 1 + more
        /\ putsToAck' = IF unackedListensCount' = 0 THEN <<>> ELSE putsToAck
      Acked(t) == IF unackedListensCount' = 0 THEN ApplyAcks(t, putsToAck) ELSE t
  IN  /\ Receive("listen")
      /\ down' = Tail(down)
      /\ \/ /\ ~current
            /\ Settled(0) /\ TreeBecomes(Acked(Tree))
            /\ UNCHANGED <<listens, listenCalls, up>>
         \/ /\ current /\ m.ok
            /\ Settled(0) /\ TreeBecomes(Acked(ApplyListenComplete(Tree, m.path)))
            /\ UNCHANGED <<listens, listenCalls, up>>
         \/ /\ current /\ ~m.ok
            /\ LET t == Unregistered(Tree, m.path, Kinds)
               IN  \E ps \in SetToSeqs(StartBelow(t, m.path)) :
                     /\ Started(ps, {m.path})
                     /\ up' = Sent(ListenRequests(ps))
                     /\ Settled(Counted(Len(ps))) /\ TreeBecomes(Acked(t))
      /\ UNCHANGED <<observeCalls, written, connected, server>>

(* onDisconnect: what is held in putsToAck stays there.                    *)
Drop ==
  /\ connected /\ troubles < MaxTroubles
  /\ connected' = FALSE /\ up' = <<>> /\ down' = <<>> /\ watched' = {}
  /\ unackedListensCount' = 0
  /\ troubles' = troubles + 1
  /\ UNCHANGED <<tree, listens, listenCalls, putsToAck, observeCalls, written, db, denied>>

(* Mutant: what was listened to before is not listened to again.           *)
NothingRestored == {}

Restored == {p \in ViewPaths : listens[p] # 0}

(* The numbers in S in ascending order. *)
Sorted(S) == {ids \in SetToSeqs(S) : \A j, k \in DOMAIN ids : j < k => ids[j] < ids[k]}

(* restoreState: every listen, then every outstanding write in order.      *)
Restore ==
  /\ ~connected /\ connected' = TRUE
  /\ \E ps \in SetToSeqs(Restored), ids \in Sorted(Outstanding) :
       up' = [k \in DOMAIN ps |-> ListenRequest(ps[k], listens[ps[k]])]
               \o [k \in DOMAIN ids |-> PutRequest(ids[k])]
  /\ unackedListensCount' = Cardinality(Restored)
  /\ UNCHANGED <<tree, listens, listenCalls, putsToAck, observeCalls, written, down, server>>

-----------------------------------------------------------------------------
(***************************************************************************)
(* The server.                                                             *)
(***************************************************************************)

(* What it sends for a change, once for every path it is listening on.     *)
Pushes(node) ==
  SetToSeq({[type |-> "data", node |-> Child(node, DOMAIN node \cap p)] :
              p \in {q \in watched : q \cap DOMAIN node # {}}})

(* It handles requests in order, but for listens, which may take longer.   *)
ServerHandle(k) ==
  LET r == up[k]
  IN  /\ k \in DOMAIN up
      /\ \A j \in 1 .. k - 1 :
           up[j].type = "listen" /\ (r.type = "unlisten" => r.path # up[j].path)
      /\ up' = RemoveAt(up, k)
      /\ \/ /\ r.type = "listen"
            /\ watched' = watched \cup {r.path}
            /\ down' = down \o <<[type |-> "data", node |-> Child(db, r.path)],
                                 [type |-> "listen", path |-> r.path, spec |-> r.spec, ok |-> TRUE]>>
            /\ UNCHANGED <<db, denied, troubles>>
         \/ /\ r.type = "listen" /\ troubles < MaxTroubles
            /\ troubles' = troubles + 1
            /\ down' = Append(down, [type |-> "listen", path |-> r.path, spec |-> r.spec, ok |-> FALSE])
            /\ UNCHANGED server
         \/ /\ r.type = "unlisten"
            /\ watched' = watched \ {r.path}
            /\ UNCHANGED <<down, db, denied, troubles>>
         \/ LET node == WriteOf(allWrites, r.id).node
            IN  /\ r.type = "put"
                /\ db' = UpdateChild(db, node)
                /\ down' = down \o Append(Pushes(node), [type |-> "put", id |-> r.id, ok |-> TRUE])
                /\ UNCHANGED <<watched, denied, troubles>>
         \/ /\ r.type = "put" /\ troubles < MaxTroubles
            /\ troubles' = troubles + 1
            /\ denied' = denied \cup {r.id}
            /\ down' = Append(down, [type |-> "put", id |-> r.id, ok |-> FALSE])
            /\ UNCHANGED <<db, watched>>
      /\ UNCHANGED <<tree, listens, listenCalls, unackedListensCount, putsToAck, observeCalls,
                     written, connected>>

(* Another client writes.                                                  *)
OtherWrites(p) ==
  LET node == [l \in p |-> Theirs]
  IN  /\ troubles < MaxTroubles
      /\ troubles' = troubles + 1
      /\ db' = UpdateChild(db, node)
      /\ down' = down \o Pushes(node)
      /\ UNCHANGED <<tree, wire, observeCalls, written, connected, watched, denied>>

-----------------------------------------------------------------------------
Application ==
  \/ \E p \in WritePaths, remove \in BOOLEAN : Set(p, remove)
  \/ \E p \in ViewPaths, kind \in Kinds : Observe(p, kind)
  \/ \E p \in ViewPaths : RemoveObserver(p, "on")

RemoveCalled == \E p \in fired : RemoveObserver(p, "once")

Queue == RemoveCalled \/ OnData \/ OnPut \/ OnListen \/ Restore

Next ==
  \/ (Application \/ Queue) /\ UNCHANGED troubles
  \/ Drop
  \/ \E k \in DOMAIN up : ServerHandle(k)
  \/ \E p \in WritePaths : OtherWrites(p)

Spec == Init /\ [][Next]_vars

-----------------------------------------------------------------------------
(***************************************************************************)
(* Safety.                                                                 *)
(***************************************************************************)

(* Writes are acknowledged in the order they were made.  They are not when *)
(* an acknowledgement was held back, the connection was lost, and nothing  *)
(* was listened to any more: it waits for the answer of some later listen, *)
(* while later writes are acknowledged at once.                            *)
InOrder == \A i \in Ids(allWrites), j \in DOMAIN written : j > i => j \in Ids(allWrites)

(* The shortcuts of addWrite and removeWriteId always leave what layering  *)
(* all pending writes anew would give.                                     *)
VisibleIsLayered == InOrder => visibleWrites = Layer(allWrites)

(* The caches of a view agree: what is shown, however many operations made *)
(* it, is the server's node under the pending writes, and it is complete   *)
(* whenever the server's is.                                               *)
EventIsOverlay ==
  \A p \in Viewed(regs) :
    LET view == views[p]
    IN  /\ view.serverFull => view.eventFull
        /\ view.eventFull => view.event = Overlay(visibleWrites, view.server)

(* The root-most views are listened to and no others: no view is without a *)
(* listen that covers it, and no query is ever listened to twice.          *)
OneListenCovers ==
  {p \in ViewPaths : listens[p] # 0} = {p \in Viewed(regs) : CoveredBy(regs, p) = {}}

(* Observers have been told what their view shows.                         *)
RaisedIsCurrent ==
  \A p \in Viewed(regs) : views[p].eventFull => raised[p] = views[p].event

(* What a leaf held before write i.                                        *)
Older(i) == {Initial} \cup 1 .. i - 1

(* No observer is shown a value from before a write of its own application *)
(* that was not refused: neither while it is pending, nor when it is sent  *)
(* again, nor after its acknowledgement.                                   *)
NeverOlder ==
  InOrder => \A p \in Viewed(regs), i \in DOMAIN written \ denied :
    views[p].eventFull => \A l \in p \cap written[i] : views[p].event[l] \notin Older(i)

(* When everything is answered every observer is shown the server's data.  *)
Converged ==
  connected /\ up = <<>> /\ down = <<>> /\ allWrites = <<>> =>
    \A p \in Viewed(regs) : views[p].eventFull /\ views[p].event = Child(db, p)

(* An observer that was not told anything waits for the answer of a listen *)
(* that is on its way, whose data is before it or follows at the server.   *)
AnswerOnItsWay ==
  connected => \A p \in Viewed(regs) : ~views[p].eventFull =>
    \E q \in CoveredBy(regs, p) \cup {p} :
      \/ \E k \in DOMAIN up : up[k] = ListenRequest(q, listens[q])
      \/ \E k \in DOMAIN down :
           down[k].type = "listen" /\ down[k].path = q /\ down[k].spec = listens[q]
=============================================================================

---------------------------- MODULE SyncTreeProofs ----------------------------
(***************************************************************************)
(* Machine-checked proofs about SyncTree, for any tree of paths, any       *)
(* number of writes, observers and listens, and any faults.                *)
(***************************************************************************)
EXTENDS SyncTree, FiniteSetTheorems, SequenceTheorems, NaturalsInduction, TLAPS

-----------------------------------------------------------------------------
(* Numbers and finite sets *)

(* A set of numbers has a least one. *)
LEMMA LeastNat ==
  ASSUME NEW N \in SUBSET Nat, N # {}
  PROVE  \E x \in N : \A y \in N : x <= y
<1>1. IsWellFoundedOn(OpToRel(<, Nat), Nat)
  BY NatLessThanWellFounded
<1>2. PICK x \in N : \A y \in N : ~(<<y, x>> \in OpToRel(<, Nat))
  BY <1>1, WFMin, Zenon
<1>3. \A y \in N : ~(y < x)
  BY <1>2 DEF OpToRel
<1> QED
  BY <1>3

(* Induction over the numbers, for a set instead of a predicate. *)
LEMMA NatInductiveSet ==
  ASSUME NEW A, 0 \in A, \A n \in Nat : n \in A => n + 1 \in A
  PROVE  Nat \subseteq A
<1> SUFFICES ASSUME ~(Nat \subseteq A) PROVE FALSE
  OBVIOUS
<1>1. PICK x \in Nat \ A : \A y \in Nat \ A : x <= y
  BY LeastNat
<1> QED
  BY <1>1

(* A finite set of sets has one that no other contains. *)
LEMMA MaximalExists ==
  ASSUME NEW S, IsFiniteSet(S), S # {}
  PROVE  \E m \in S : \A s \in S : m \subseteq s => s = m
<1> DEFINE Over(m) == {s \in S : m \subseteq s}
<1> DEFINE N == {n \in Nat : \E m \in S : n = Cardinality(Over(m))}
<1>1. \A m \in S : IsFiniteSet(Over(m)) /\ Cardinality(Over(m)) \in Nat
  BY FS_Subset, FS_CardinalityType
<1>2. N # {} /\ N \subseteq Nat
  BY <1>1
<1>3. PICK n \in N : \A k \in N : n <= k
  <2> HIDE DEF N
  <2> QED BY <1>2, LeastNat
<1>4. PICK m \in S : n = Cardinality(Over(m))
  OBVIOUS
<1>5. ASSUME NEW s \in S, m \subseteq s, s # m PROVE FALSE
  <2>1. Over(s) \in SUBSET Over(m)
    BY <1>5
  <2>2. m \in Over(m) /\ m \notin Over(s)
    BY <1>5
  <2>3. Cardinality(Over(s)) <= Cardinality(Over(m))
    BY <1>1, <2>1, FS_Subset
  <2>4. Cardinality(Over(s)) # Cardinality(Over(m))
    BY <1>1, <2>1, <2>2, FS_Subset
  <2>5. Cardinality(Over(s)) \in N
    BY <1>1
  <2> HIDE DEF Over, N
  <2> QED BY <1>1, <1>3, <1>4, <2>3, <2>4, <2>5
<1> QED
  BY <1>5

-----------------------------------------------------------------------------
(* Paths *)

LEMMA PathFacts ==
  /\ \A p \in Paths : p # {}
  /\ \A p, q \in Paths : p \cap q = {} \/ p \subseteq q \/ q \subseteq p
  /\ \A l \in Leaves : {l} \in Paths
  /\ \A p \in Paths : p \subseteq Leaves
  /\ Leaves \in Paths
  /\ \A p \in ViewPaths : p \in Paths
  /\ \A p \in WritePaths : p \in Paths
  BY PathsAssumption, BoundsAssumption DEF Leaves

(* Two paths that meet: their common part is the lower one. *)
LEMMA CommonPath ==
  ASSUME NEW p \in Paths, NEW q \in Paths, p \subseteq q \/ q \subseteq p
  PROVE  p \cap q \in Paths /\ p \cap q \subseteq p /\ p \cap q \subseteq q /\ p \cap q # {}
<1>1. p \cap q = p \/ p \cap q = q
  OBVIOUS
<1> QED
  BY <1>1, PathFacts

(* There is a child of p on the way to any path below it. *)
LEMMA ChildExists ==
  ASSUME NEW p \in Paths, NEW q \in Paths, q \subseteq p, q # p
  PROVE  /\ ChildTowards(p, q) \in Paths
         /\ q \subseteq ChildTowards(p, q)
         /\ ChildTowards(p, q) \subseteq p /\ ChildTowards(p, q) # p
<1> DEFINE S == {c \in Paths : q \subseteq c /\ c \subseteq p /\ c # p}
<1>1. IsFiniteSet(S) /\ S # {}
  BY FS_Subset, PathsAssumption
<1>2. PICK c \in S : \A s \in S : c \subseteq s => s = c
  <2> HIDE DEF S
  <2> QED BY <1>1, MaximalExists
<1>3. p \in Above(c)
  BY DEF Above
<1>4. ASSUME NEW a \in Above(c), a # p PROVE a \in Above(p)
  <2>1. a \in Paths /\ c \subseteq a /\ a # c
    BY DEF Above
  <2>2. a \cap p # {}
    BY <2>1, <1>2, PathFacts
  <2>3. a \subseteq p \/ p \subseteq a
    BY <2>1, <2>2, PathFacts
  <2>4. ~(a \subseteq p)
    BY <2>1, <1>2, <1>4
  <2> QED BY <2>1, <2>3, <2>4, <1>4 DEF Above
<1>5. Above(c) \cap Above(p) = Above(c) \ {p}
  BY <1>4 DEF Above
<1>6. c \in Children(p) /\ q \subseteq c
  BY <1>3, <1>5 DEF Children
<1>7. ChildTowards(p, q) \in Children(p) /\ q \subseteq ChildTowards(p, q)
  BY <1>6 DEF ChildTowards
<1> QED
  BY <1>7 DEF Children, Above

-----------------------------------------------------------------------------
(* Nodes, and nodes under pending writes *)

Nodes == UNION {Node(p) : p \in Paths}

(* What is shown of the leaf l where the server has v. *)
Shown(writes, l, v) ==
  IF Covering(writes, {l}) = {} THEN v ELSE (CHOOSE w \in Covering(writes, {l}) : TRUE)[l]

LEMMA NodeFacts ==
  ASSUME NEW n \in Nodes
  PROVE  DOMAIN n \in Paths /\ n \in Node(DOMAIN n)
  BY DEF Nodes, Node

LEMMA ChildType ==
  ASSUME NEW p, NEW n \in Node(p), NEW q \in SUBSET p
  PROVE  Child(n, q) \in Node(q) /\ \A l \in q : Child(n, q)[l] = n[l]
  BY DEF Child, Node

LEMMA UpdateChildType ==
  ASSUME NEW p, NEW n \in Node(p), NEW q, NEW m \in Node(q)
  PROVE  /\ UpdateChild(n, m) \in Node(p)
         /\ \A l \in p : UpdateChild(n, m)[l] = IF l \in q THEN m[l] ELSE n[l]
  BY DEF UpdateChild, Node

LEMMA EmptyType == ASSUME NEW p PROVE Empty(p) \in Node(p)
  BY DEF Empty, Node, Values

LEMMA ShownType ==
  ASSUME NEW writes \in SUBSET Nodes, NEW l, NEW v \in Values
  PROVE  Shown(writes, l, v) \in Values
<1>1. CASE Covering(writes, {l}) = {}
  BY <1>1 DEF Shown
<1>2. CASE Covering(writes, {l}) # {}
  <2> DEFINE w == CHOOSE x \in Covering(writes, {l}) : TRUE
  <2>1. w \in writes /\ l \in DOMAIN w
    BY <1>2 DEF Covering
  <2>2. w \in Node(DOMAIN w)
    BY <2>1, NodeFacts
  <2>3. w[l] \in Values
    BY <2>1, <2>2 DEF Node
  <2> QED BY <1>2, <2>3 DEF Shown
<1> QED
  BY <1>1, <1>2

LEMMA OverlayType ==
  ASSUME NEW writes \in SUBSET Nodes, NEW p, NEW n \in Node(p)
  PROVE  /\ Overlay(writes, n) \in Node(p)
         /\ \A l \in p : Overlay(writes, n)[l] = Shown(writes, l, n[l])
<1>1. DOMAIN n = p /\ \A l \in p : n[l] \in Values
  BY DEF Node
<1>2. Overlay(writes, n) = [l \in p |-> Shown(writes, l, n[l])]
  BY <1>1 DEF Overlay, Shown
<1>3. \A l \in p : Shown(writes, l, n[l]) \in Values
  BY <1>1, ShownType
<1> QED
  BY <1>2, <1>3 DEF Node

(* The same, leaf by leaf. *)
LEMMA ChildAt ==
  ASSUME NEW p, NEW n \in Node(p), NEW q \in SUBSET p, NEW l \in q
  PROVE  Child(n, q)[l] = n[l]
  BY ChildType

LEMMA UpdateChildAt ==
  ASSUME NEW p, NEW n \in Node(p), NEW q, NEW m \in Node(q), NEW l \in p
  PROVE  UpdateChild(n, m)[l] = IF l \in q THEN m[l] ELSE n[l]
  BY UpdateChildType

LEMMA OverlayAt ==
  ASSUME NEW writes \in SUBSET Nodes, NEW p, NEW n \in Node(p), NEW l \in p
  PROVE  Overlay(writes, n)[l] = Shown(writes, l, n[l])
  BY OverlayType

(* A complete write above a leaf hides what the server has there. *)
LEMMA ShownCovered ==
  ASSUME NEW writes, NEW p, HasCompleteWrite(writes, p), NEW l \in p, NEW v, NEW u
  PROVE  Shown(writes, l, v) = Shown(writes, l, u)
  BY DEF HasCompleteWrite, Covering, Shown

(* updateChildIn changes a node as updateChild does, where it looks. *)
LEMMA UpdateChildInType ==
  ASSUME NEW p, NEW n \in Node(p), NEW c \in SUBSET p, NEW m \in Node(c), NEW q \in SUBSET c
  PROVE  /\ UpdateChildIn(n, m, q) \in Node(p)
         /\ \A l \in q : UpdateChildIn(n, m, q)[l] = m[l]
         /\ UpdateChildIn(n, m, q) = n
              \/ \A l \in p : UpdateChildIn(n, m, q)[l] = IF l \in c THEN m[l] ELSE n[l]
<1>1. DOMAIN m = c
  BY DEF Node
<1>2. Child(n, c) \in Node(c) /\ \A l \in c : Child(n, c)[l] = n[l]
  BY ChildType
<1>3. \A l \in q : Child(Child(n, c), q)[l] = n[l] /\ Child(m, q)[l] = m[l]
  BY <1>2 DEF Child
<1>4. UpdateChildIn(n, m, q) = n \/ UpdateChildIn(n, m, q) = UpdateChild(n, m)
  BY DEF UpdateChildIn
<1>5. UpdateChildIn(n, m, q) # UpdateChild(n, m) => \A l \in q : n[l] = m[l]
  BY <1>1, <1>3 DEF UpdateChildIn
<1>6. UpdateChild(n, m) \in Node(p) /\ \A l \in p : UpdateChild(n, m)[l] = IF l \in c THEN m[l] ELSE n[l]
  BY UpdateChildType
<1> QED
  BY <1>4, <1>5, <1>6

-----------------------------------------------------------------------------
(* What an operation makes of a view *)

ViewOf(p) == [server : Node(p), serverFull : BOOLEAN, event : Node(p), eventFull : BOOLEAN]

(* m is what is shown of n at c. *)
ShownOf(writes, m, n, c) ==
  m \in Node(c) /\ \A l \in c : m[l] = Shown(writes, l, n[l])

LEMMA CompleteChildType ==
  ASSUME NEW writes \in SUBSET Nodes, NEW p, NEW n \in Node(p), NEW full, NEW c \in SUBSET p,
         NEW m \in CompleteChild(writes, n, full, c)
  PROVE  ShownOf(writes, m, n, c)
<1>1. m = Overlay(writes, Child(n, c))
  BY DEF CompleteChild
<1>2. Child(n, c) \in Node(c) /\ \A l \in c : Child(n, c)[l] = n[l]
  BY ChildType
<1> QED
  BY <1>1, <1>2, OverlayType DEF ShownOf

(* What the observers of a view are shown is the server's node under the   *)
(* pending writes.                                                         *)
Faithful(view, p, writes) ==
  view.eventFull => \A l \in p : view.event[l] = Shown(writes, l, view.server[l])

(* What is shown at q is renewed from the server's node, unless a write    *)
(* hides it, and nothing else changes.                                     *)
Renewed(view, new, p, q, writes) ==
  /\ new \in ViewOf(p)
  /\ new.server = view.server /\ new.serverFull = view.serverFull
  /\ new.eventFull = (view.eventFull \/ (q = p /\ ~HasCompleteWrite(writes, q)))
  /\ view.eventFull \/ q = p => \A l \in p :
       new.event[l] = IF l \in q /\ ~HasCompleteWrite(writes, q)
                        THEN Shown(writes, l, view.server[l]) ELSE view.event[l]

(* generateEventCacheAfterServerEvent. *)
LEMMA EventAfter ==
  ASSUME NEW writes \in SUBSET Nodes, NEW p \in Paths, NEW view \in ViewOf(p),
         NEW q \in Paths, q \subseteq p, NEW new, new = EventAfterServer(view, q, writes)
  PROVE  Renewed(view, new, p, q, writes)
<1>0. /\ view.server \in Node(p) /\ view.event \in Node(p)
      /\ view.serverFull \in BOOLEAN /\ view.eventFull \in BOOLEAN
  BY DEF ViewOf
<1>1. PathOfView(view) = p
  BY <1>0 DEF PathOfView, Node
<1>2. CASE HasCompleteWrite(writes, q)
  <2>1. new = view
    BY <1>2 DEF EventAfterServer
  <2> QED BY <2>1, <1>2, <1>0 DEF Renewed
<1>3. CASE ~HasCompleteWrite(writes, q) /\ q = p
  <2>1. new = [view EXCEPT !.event = Overlay(writes, view.server), !.eventFull = TRUE]
    BY <1>1, <1>3 DEF EventAfterServer
  <2>2. /\ Overlay(writes, view.server) \in Node(p)
        /\ \A l \in p : Overlay(writes, view.server)[l] = Shown(writes, l, view.server[l])
    BY <1>0, OverlayType, OverlayAt
  <2>3. /\ new \in ViewOf(p) /\ new.server = view.server /\ new.serverFull = view.serverFull
        /\ new.eventFull = TRUE /\ new.event = Overlay(writes, view.server)
    BY <2>1, <2>2, <1>0 DEF ViewOf
  <2> QED BY <2>2, <2>3, <1>3 DEF Renewed
<1>4. CASE ~HasCompleteWrite(writes, q) /\ q # p
  <2> DEFINE c == ChildTowards(p, q)
             known == UpdateChild(Child(view.event, c), Overlay(writes, Child(view.server, q)))
             news == IF CompleteForChild(view.event, view.eventFull, c)
                       THEN {known} ELSE CompleteChild(writes, view.server, view.serverFull, c)
             event == IF news = {} THEN view.event
                      ELSE UpdateChildIn(view.event, CHOOSE n \in news : TRUE, q)
  <2>1. new = [view EXCEPT !.event = event]
    BY <1>1, <1>4 DEF EventAfterServer
  <2>2. c \in SUBSET p /\ q \in SUBSET c
    BY <1>4, ChildExists
  <2>3. known \in Node(c) /\ \A l \in c : known[l] = IF l \in q THEN Shown(writes, l, view.server[l])
                                                     ELSE view.event[l]
    <3> HIDE DEF c
    <3>1. Child(view.event, c) \in Node(c) /\ \A l \in c : Child(view.event, c)[l] = view.event[l]
      BY <2>2, <1>0, ChildType
    <3>2. Child(view.server, q) \in Node(q) /\ \A l \in q : Child(view.server, q)[l] = view.server[l]
      BY <2>2, <1>0, ChildType
    <3>3. /\ Overlay(writes, Child(view.server, q)) \in Node(q)
          /\ \A l \in q : Overlay(writes, Child(view.server, q))[l] = Shown(writes, l, view.server[l])
      BY <3>2, OverlayType
    <3>4. /\ known \in Node(c)
          /\ \A l \in c : known[l] = IF l \in q THEN Overlay(writes, Child(view.server, q))[l]
                                     ELSE Child(view.event, c)[l]
      <4>1. known \in Node(c)
        BY <3>1, <3>3, UpdateChildType
      <4> QED BY <4>1, <3>1, <3>3, UpdateChildAt
    <3> QED BY <3>1, <3>3, <3>4
  <2>4. news # {} => (CHOOSE n \in news : TRUE) \in Node(c)
    <3> HIDE DEF c, known
    <3>1. \A n \in news : n \in Node(c)
      BY <2>2, <2>3, <1>0, CompleteChildType DEF ShownOf
    <3> QED BY <3>1
  <2>5. event \in Node(p)
    <3> HIDE DEF c, known, news
    <3> QED BY <2>2, <2>4, <1>0, UpdateChildInType
  <2>6. ASSUME view.eventFull
        PROVE  \A l \in p : event[l] = IF l \in q THEN Shown(writes, l, view.server[l])
                                       ELSE view.event[l]
    <3>1. news = {known}
      BY <2>6 DEF CompleteForChild
    <3>2. event = UpdateChildIn(view.event, known, q)
      <4> HIDE DEF known, news
      <4> QED BY <3>1
    <3> HIDE DEF c, known, event, news
    <3> QED BY <3>2, <2>2, <2>3, <1>0, UpdateChildInType
  <2>7. /\ new \in ViewOf(p) /\ new.server = view.server /\ new.serverFull = view.serverFull
        /\ new.eventFull = view.eventFull /\ new.event = event
    <3> HIDE DEF event
    <3> QED BY <2>1, <2>5, <1>0 DEF ViewOf
  <2> HIDE DEF event
  <2> QED BY <2>6, <2>7, <1>4, <1>0 DEF Renewed
<1> QED
  BY <1>2, <1>3, <1>4

(* A change at q, made in the child on the way to it, is a change at q. *)
LEMMA DeepUpdate ==
  ASSUME NEW p, NEW n \in Node(p), NEW c \in SUBSET p, NEW q \in SUBSET c, NEW m \in Node(q),
         NEW new, new = UpdateChildIn(n, UpdateChild(Child(n, c), m), q)
  PROVE  /\ new \in Node(p)
         /\ \A l \in p : new[l] = IF l \in q THEN m[l] ELSE n[l]
<1> DEFINE child == UpdateChild(Child(n, c), m)
<1>1. Child(n, c) \in Node(c) /\ \A l \in c : Child(n, c)[l] = n[l]
  BY ChildType
<1>2. child \in Node(c)
  BY <1>1, UpdateChildType
<1>3. \A l \in c : child[l] = IF l \in q THEN m[l] ELSE n[l]
  BY <1>1, UpdateChildAt
<1> HIDE DEF child
<1>4. /\ new \in Node(p) /\ \A l \in q : new[l] = child[l]
      /\ new = n \/ \A l \in p : new[l] = IF l \in c THEN child[l] ELSE n[l]
  BY <1>2, UpdateChildInType DEF child
<1> QED
  BY <1>3, <1>4

(* The data snap, at q, is taken in where the view is complete or becomes  *)
(* so.                                                                     *)
TookIn(view, new, p, q, snap) ==
  /\ new \in ViewOf(p)
  /\ new.serverFull = (view.serverFull \/ q = p)
  /\ view.eventFull => new.eventFull
  /\ view.serverFull \/ q = p =>
       \A l \in p : new.server[l] = IF l \in q THEN snap[l] ELSE view.server[l]

(* What is shown at q is renewed unless a write hides it, and nothing else *)
(* that is shown changes.                                                  *)
Refreshed(view, new, p, q, writes) ==
  view.eventFull => \A l \in p :
    \/ new.event[l] = Shown(writes, l, new.server[l])
    \/ new.event[l] = view.event[l] /\ (l \notin q \/ HasCompleteWrite(writes, q))

(* applyServerOverwriteTo: what is shown stays what is known under the     *)
(* pending writes.                                                         *)
LEMMA ServerOverwriteView ==
  ASSUME NEW writes \in SUBSET Nodes, NEW p \in Paths, NEW view \in ViewOf(p),
         NEW q \in Paths, q \subseteq p, NEW snap \in Node(q),
         NEW new, new = ServerOverwrite(view, snap, writes)
  PROVE  /\ TookIn(view, new, p, q, snap)
         /\ view.serverFull => Refreshed(view, new, p, q, writes)
         /\ q = p => new.eventFull \/ HasCompleteWrite(writes, p)
         /\ Faithful(view, p, writes) => Faithful(new, p, writes)
<1> DEFINE c == ChildTowards(p, q)
           fresh  == IF q = p THEN snap
                     ELSE UpdateChildIn(view.server, UpdateChild(Child(view.server, c), snap), q)
           mid == [view EXCEPT !.server = fresh, !.serverFull = @ \/ q = p]
<1>0. /\ view.server \in Node(p) /\ view.event \in Node(p)
      /\ view.serverFull \in BOOLEAN /\ view.eventFull \in BOOLEAN
  BY DEF ViewOf
<1>1. PathOfView(view) = p /\ DOMAIN snap = q
  BY <1>0 DEF PathOfView, Node
<1>2. CASE q # p /\ q # c /\ ~ServerCompleteForPath(view, q)
  <2>1. new = view
    BY <1>1, <1>2 DEF ServerOverwrite
  <2>2. ~view.serverFull
    BY <1>2 DEF ServerCompleteForPath
  <2> QED BY <1>0, <1>2, <2>1, <2>2 DEF TookIn
<1>3. CASE ~(q # p /\ q # c /\ ~ServerCompleteForPath(view, q))
  <2>1. new = EventAfterServer(mid, q, writes)
    BY <1>1, <1>3 DEF ServerOverwrite
  <2>2. fresh \in Node(p) /\ \A l \in p : fresh[l] = IF l \in q THEN snap[l] ELSE view.server[l]
    <3>1. CASE q = p
      BY <3>1
    <3>2. CASE q # p
      <4>1. c \in SUBSET p /\ q \in SUBSET c
        BY <3>2, ChildExists
      <4>2. fresh = UpdateChildIn(view.server, UpdateChild(Child(view.server, c), snap), q)
        BY <3>2
      <4> HIDE DEF c, fresh
      <4> QED BY <4>1, <4>2, <1>0, DeepUpdate
    <3> QED BY <3>1, <3>2
  <2> HIDE DEF fresh
  <2>3. /\ mid \in ViewOf(p) /\ mid.server = fresh /\ mid.serverFull = (view.serverFull \/ q = p)
        /\ mid.event = view.event /\ mid.eventFull = view.eventFull
    BY <1>0, <2>2 DEF ViewOf
  <2> HIDE DEF mid
  <2>4. Renewed(mid, new, p, q, writes)
    BY <2>1, <2>3, EventAfter
  <2>5. TookIn(view, new, p, q, snap)
    BY <1>0, <2>2, <2>3, <2>4 DEF Renewed, TookIn
  <2>6. q = p => new.eventFull \/ HasCompleteWrite(writes, p)
    BY <2>4 DEF Renewed
  <2>7. ASSUME Faithful(view, p, writes), new.eventFull, NEW l \in p
        PROVE  new.event[l] = Shown(writes, l, new.server[l])
    <3>1. view.eventFull \/ (q = p /\ ~HasCompleteWrite(writes, q))
      BY <2>3, <2>4, <2>7 DEF Renewed
    <3>2. CASE l \in q /\ ~HasCompleteWrite(writes, q)
      BY <3>1, <3>2, <2>3, <2>4 DEF Renewed
    <3>3. CASE l \notin q
      <4>1. view.eventFull /\ new.server[l] = view.server[l] /\ new.event[l] = view.event[l]
        BY <3>1, <3>3, <2>2, <2>3, <2>4 DEF Renewed
      <4> QED BY <4>1, <2>7 DEF Faithful
    <3>4. CASE l \in q /\ HasCompleteWrite(writes, q)
      <4>1. view.eventFull /\ new.event[l] = view.event[l]
        BY <3>1, <3>4, <2>3, <2>4 DEF Renewed
      <4>2. Shown(writes, l, view.server[l]) = Shown(writes, l, new.server[l])
        BY <3>4, ShownCovered
      <4> QED BY <4>1, <4>2, <2>7 DEF Faithful
    <3> QED BY <3>2, <3>3, <3>4
  <2>8. Refreshed(view, new, p, q, writes)
    BY <2>2, <2>3, <2>4 DEF Renewed, Refreshed
  <2> QED BY <2>5, <2>6, <2>7, <2>8 DEF Faithful
<1> QED
  BY <1>2, <1>3

(* The view is told that all the server has at q was sent.                 *)
Completed(view, new, p, q) ==
  /\ new \in ViewOf(p)
  /\ new.server = view.server
  /\ new.serverFull = (view.serverFull \/ q = p)
  /\ view.eventFull => new.eventFull

(* listenComplete. *)
LEMMA ListenCompleteView ==
  ASSUME NEW writes \in SUBSET Nodes, NEW p \in Paths, NEW view \in ViewOf(p),
         NEW q \in Paths, q \subseteq p, NEW new, new = ListenComplete(view, q, writes)
  PROVE  /\ Completed(view, new, p, q)
         /\ q = p => new.eventFull \/ HasCompleteWrite(writes, p)
         /\ Faithful(view, p, writes) => Faithful(new, p, writes)
<1> DEFINE mid == [view EXCEPT !.serverFull = @ \/ q = p]
<1>0. /\ view.server \in Node(p) /\ view.event \in Node(p)
      /\ view.serverFull \in BOOLEAN /\ view.eventFull \in BOOLEAN
  BY DEF ViewOf
<1>1. PathOfView(view) = p
  BY <1>0 DEF PathOfView, Node
<1>2. new = EventAfterServer(mid, q, writes)
  BY <1>1 DEF ListenComplete
<1>3. /\ mid \in ViewOf(p) /\ mid.server = view.server /\ mid.serverFull = (view.serverFull \/ q = p)
      /\ mid.event = view.event /\ mid.eventFull = view.eventFull
  BY <1>0 DEF ViewOf
<1> HIDE DEF mid
<1>4. Renewed(mid, new, p, q, writes)
  BY <1>2, <1>3, EventAfter
<1>5. Completed(view, new, p, q)
  BY <1>0, <1>3, <1>4 DEF Renewed, Completed
<1>6. q = p => new.eventFull \/ HasCompleteWrite(writes, p)
  BY <1>4 DEF Renewed
<1>7. ASSUME Faithful(view, p, writes), new.eventFull, NEW l \in p
      PROVE  new.event[l] = Shown(writes, l, new.server[l])
  <2>1. CASE l \in q /\ ~HasCompleteWrite(writes, q)
    BY <1>3, <1>4, <1>7, <2>1 DEF Renewed
  <2>2. CASE ~(l \in q /\ ~HasCompleteWrite(writes, q))
    <3>1. view.eventFull /\ new.event[l] = view.event[l]
      BY <1>3, <1>4, <1>7, <2>2 DEF Renewed
    <3> QED BY <3>1, <1>5, <1>7 DEF Faithful, Completed
  <2> QED BY <2>1, <2>2
<1> QED
  BY <1>5, <1>6, <1>7 DEF Faithful

(* The write snap, at q, is shown at once. *)
Wrote(view, new, p, q, snap) ==
  /\ new \in ViewOf(p)
  /\ new.server = view.server /\ new.serverFull = view.serverFull
  /\ new.eventFull = (view.eventFull \/ q = p)
  /\ view.eventFull \/ q = p => \A l \in p :
       new.event[l] = IF l \in q THEN snap[l] ELSE view.event[l]

(* applyUserOverwriteTo. *)
LEMMA UserOverwriteView ==
  ASSUME NEW writes \in SUBSET Nodes, NEW p \in Paths, NEW view \in ViewOf(p),
         NEW q \in Paths, q \subseteq p, NEW snap \in Node(q),
         NEW known, \A n \in known : n \in Node(p),
         NEW new, new = UserOverwrite(view, snap, writes, known)
  PROVE  Wrote(view, new, p, q, snap)
<1>0. /\ view.server \in Node(p) /\ view.event \in Node(p)
      /\ view.serverFull \in BOOLEAN /\ view.eventFull \in BOOLEAN
  BY DEF ViewOf
<1>1. PathOfView(view) = p /\ DOMAIN snap = q
  BY <1>0 DEF PathOfView, Node
<1>2. CASE q = p
  <2>1. new = [view EXCEPT !.event = snap, !.eventFull = TRUE]
    BY <1>1, <1>2 DEF UserOverwrite
  <2>2. /\ new \in ViewOf(p) /\ new.server = view.server /\ new.serverFull = view.serverFull
        /\ new.eventFull = TRUE /\ new.event = snap
    BY <2>1, <1>0, <1>2 DEF ViewOf
  <2> QED BY <2>2, <1>2 DEF Wrote
<1>3. CASE q # p
  <2> DEFINE c == ChildTowards(p, q)
             complete ==
               IF CompleteForChild(view.event, view.eventFull, c) THEN {Child(view.event, c)}
               ELSE IF known # {} THEN CompleteChild(writes, CHOOSE n \in known : TRUE, TRUE, c)
               ELSE CompleteChild(writes, view.server, view.serverFull, c)
             child == CHOOSE n \in complete : TRUE
             m == IF q = c THEN snap
                  ELSE IF complete = {} THEN Empty(c) ELSE UpdateChild(child, snap)
             event == UpdateChildIn(view.event, m, q)
  <2>1. new = [view EXCEPT !.event = event]
    BY <1>1, <1>3 DEF UserOverwrite
  <2>2. c \in SUBSET p /\ q \in SUBSET c
    BY <1>3, ChildExists
  <2>3. Child(view.event, c) \in Node(c) /\ \A l \in c : Child(view.event, c)[l] = view.event[l]
    <3> HIDE DEF c
    <3> QED BY <2>2, <1>0, ChildType
  <2>4. \A n \in complete : n \in Node(c)
    <3> HIDE DEF c
    <3>1. known # {} => (CHOOSE n \in known : TRUE) \in Node(p)
      OBVIOUS
    <3>2. known # {} => \A n \in CompleteChild(writes, CHOOSE x \in known : TRUE, TRUE, c) : n \in Node(c)
      <4> DEFINE kn == CHOOSE x \in known : TRUE
      <4> SUFFICES ASSUME kn \in Node(p) PROVE \A n \in CompleteChild(writes, kn, TRUE, c) : n \in Node(c)
        BY <3>1
      <4> HIDE DEF kn
      <4> QED BY <2>2, CompleteChildType DEF ShownOf
    <3>3. \A n \in CompleteChild(writes, view.server, view.serverFull, c) : n \in Node(c)
      BY <2>2, <1>0, CompleteChildType DEF ShownOf
    <3> QED BY <2>3, <3>2, <3>3
  <2>5. m \in Node(c)
    <3> HIDE DEF c, complete
    <3>1. Empty(c) \in Node(c)
      BY EmptyType
    <3>2. complete # {} => child \in Node(c)
      BY <2>4
    <3> HIDE DEF child
    <3>3. complete # {} => UpdateChild(child, snap) \in Node(c)
      BY <3>2, UpdateChildType
    <3> QED BY <3>1, <3>3
  <2>6. ASSUME view.eventFull
        PROVE  \A l \in c : m[l] = IF l \in q THEN snap[l] ELSE view.event[l]
    <3>1. complete = {Child(view.event, c)}
      BY <2>6 DEF CompleteForChild
    <3>2. CASE q = c
      <4>1. m = snap
        BY <3>2
      <4> HIDE DEF c, m
      <4> QED BY <3>2, <4>1
    <3>3. CASE q # c
      <4>1. m = UpdateChild(Child(view.event, c), snap)
        <5> HIDE DEF c, complete
        <5> QED BY <3>1, <3>3
      <4> HIDE DEF c, m
      <4> QED BY <2>3, <4>1, UpdateChildAt
    <3> QED BY <3>2, <3>3
  <2> HIDE DEF c, m
  <2>7. /\ event \in Node(p) /\ \A l \in q : event[l] = m[l]
        /\ event = view.event \/ \A l \in p : event[l] = IF l \in c THEN m[l] ELSE view.event[l]
    BY <2>2, <2>5, <1>0, UpdateChildInType
  <2>8. view.eventFull => \A l \in p : event[l] = IF l \in q THEN snap[l] ELSE view.event[l]
    <3> HIDE DEF event
    <3> QED BY <2>2, <2>6, <2>7
  <2> HIDE DEF event
  <2>9. /\ new \in ViewOf(p) /\ new.server = view.server /\ new.serverFull = view.serverFull
        /\ new.eventFull = view.eventFull /\ new.event = event
    BY <2>1, <2>7, <1>0 DEF ViewOf
  <2> QED BY <2>8, <2>9, <1>3, <1>0 DEF Wrote
<1> QED
  BY <1>2, <1>3

(* A write at q does not hide the server's node any more. *)
Unhidden(view, new, p, q, writes) ==
  /\ new \in ViewOf(p) /\ new.server = view.server
  /\ new.serverFull /\ new.eventFull
  /\ Refreshed(view, new, p, q, writes)

LEMMA NodesEqual ==
  ASSUME NEW p, NEW n \in Node(p), NEW m \in Node(p), \A l \in p : n[l] = m[l]
  PROVE  n = m
  BY DEF Node

(* ackUserWriteOn, of a complete view. *)
LEMMA AckUserWriteView ==
  ASSUME NEW writes \in SUBSET Nodes, NEW p \in Paths, NEW view \in ViewOf(p),
         view.serverFull, view.eventFull,
         NEW q \in Paths, q \subseteq p, NEW new, new = AckUserWrite(view, q, writes)
  PROVE  Unhidden(view, new, p, q, writes)
<1>0. view.server \in Node(p)
  BY DEF ViewOf
<1>1. CASE HasCompleteWrite(writes, q)
  <2>1. new = view
    BY <1>1 DEF AckUserWrite
  <2> QED BY <2>1, <1>1 DEF Unhidden, Refreshed
<1>2. CASE ~HasCompleteWrite(writes, q)
  <2> DEFINE snap == Child(view.server, q)
  <2>1. new = ServerOverwrite(view, snap, writes)
    BY <1>2 DEF AckUserWrite, ServerCompleteForPath
  <2>2. snap \in Node(q) /\ \A l \in q : snap[l] = view.server[l]
    BY <1>0, ChildType
  <2> HIDE DEF snap
  <2>3. TookIn(view, new, p, q, snap) /\ Refreshed(view, new, p, q, writes)
    BY <2>1, <2>2, ServerOverwriteView
  <2>4. new.server \in Node(p) /\ \A l \in p : new.server[l] = view.server[l]
    BY <2>2, <2>3 DEF TookIn, ViewOf
  <2>5. new.server = view.server
    BY <1>0, <2>4, NodesEqual
  <2> QED BY <2>3, <2>5 DEF TookIn, Unhidden
<1> QED
  BY <1>1, <1>2

(* revertUserWriteOn, of a complete view. *)
LEMMA RevertUserWriteView ==
  ASSUME NEW writes \in SUBSET Nodes, NEW p \in Paths, NEW view \in ViewOf(p),
         view.serverFull, view.eventFull,
         NEW q \in Paths, q \subseteq p, NEW new, new = RevertUserWrite(view, q, writes)
  PROVE  Unhidden(view, new, p, q, writes)
<1>0. view.server \in Node(p) /\ view.event \in Node(p)
  BY DEF ViewOf
<1>1. CASE HasCompleteWrite(writes, q)
  <2>1. new = view
    BY <1>1 DEF RevertUserWrite
  <2> QED BY <2>1, <1>1 DEF Unhidden, Refreshed
<1>2. CASE ~HasCompleteWrite(writes, q)
  <2> DEFINE srv == view.server
             c == ChildTowards(p, q)
             full == view.serverFull
             complete == CompleteChild(writes, srv, full, c)
             m == IF complete = {} THEN Empty(c) ELSE CHOOSE n \in complete : TRUE
             event == IF q # p THEN UpdateChildIn(view.event, m, q)
                      ELSE IF view.serverFull THEN Overlay(writes, srv)
                      ELSE CompleteEventChildren(writes, srv)
  <2>1. new = [view EXCEPT !.event = event, !.eventFull = view.serverFull \/ HasCompleteWrite(writes, p)]
    <3>1. PathOfView(view) = p
      BY <1>0 DEF PathOfView, Node
    <3> QED BY <3>1, <1>2 DEF RevertUserWrite
  <2>1a. srv \in Node(p)
    BY <1>0
  <2>1b. srv = view.server
    OBVIOUS
  <2> HIDE DEF srv
  <2>2. /\ event \in Node(p)
        /\ \A l \in p : \/ event[l] = Shown(writes, l, srv[l])
                        \/ event[l] = view.event[l] /\ l \notin q
    <3>1. CASE q = p
      <4>1. event = Overlay(writes, srv)
        BY <3>1
      <4> HIDE DEF event
      <4>2. event \in Node(p)
        BY <4>1, <1>0, <2>1a, OverlayType
      <4>3. ASSUME NEW l \in p PROVE event[l] = Shown(writes, l, srv[l])
        BY <4>1, <2>1a, OverlayAt
      <4> QED BY <4>2, <4>3
    <3>2. CASE q # p
      <4>1. c \in SUBSET p /\ q \in SUBSET c
        BY <3>2, ChildExists
      <4>2. event = UpdateChildIn(view.event, m, q)
        BY <3>2
      <4>3. m \in complete
        BY DEF CompleteChild, CompleteForChild
      <4> HIDE DEF c
      <4> HIDE DEF m, full
      <4>4. m \in Node(c) /\ \A l \in c : m[l] = Shown(writes, l, srv[l])
        <5>1. ShownOf(writes, m, srv, c)
          BY <4>1, <4>3, <2>1a, CompleteChildType
        <5> QED BY <5>1 DEF ShownOf
      <4> HIDE DEF event
      <4>5. /\ event \in Node(p) /\ \A l \in q : event[l] = m[l]
            /\ event = view.event \/ \A l \in p : event[l] = IF l \in c THEN m[l] ELSE view.event[l]
        BY <4>1, <4>2, <4>4, <1>0, <2>1a, UpdateChildInType
      <4> QED BY <4>1, <4>4, <4>5
    <3> QED BY <3>1, <3>2
  <2> HIDE DEF event
  <2>3. /\ new \in ViewOf(p) /\ new.server = view.server /\ new.serverFull /\ new.eventFull
        /\ new.event = event
    BY <2>1, <2>2 DEF ViewOf
  <2> QED BY <2>1b, <2>2, <2>3 DEF Unhidden, Refreshed
<1> QED
  BY <1>1, <1>2

-----------------------------------------------------------------------------
(* Folds over sequences *)

(* A set of numbers with a bound has a largest one. *)
LEMMA LargestExists ==
  \A n \in Nat : \A s \in SUBSET (1 .. n) : s # {} =>
    Max(s) \in s /\ \A y \in s : Max(s) >= y
<1> DEFINE A == {n \in Nat : \A s \in SUBSET (1 .. n) : s # {} =>
                               \E x \in s : \A y \in s : x >= y}
<1>1. 0 \in A
  <2>1. 1 .. 0 = {}
    OBVIOUS
  <2>2. \A s \in SUBSET (1 .. 0) : s = {}
    BY <2>1
  <2> QED BY <2>2
<1>2. ASSUME NEW n \in Nat, n \in A PROVE n + 1 \in A
  <2> SUFFICES ASSUME NEW s \in SUBSET (1 .. n + 1), s # {}
               PROVE  \E x \in s : \A y \in s : x >= y
    OBVIOUS
  <2>1. CASE n + 1 \in s
    BY <2>1
  <2>2. CASE n + 1 \notin s
    <3>1. s \in SUBSET (1 .. n)
      BY <2>2
    <3> QED BY <3>1, <1>2
  <2> QED BY <2>1, <2>2
<1>3. Nat \subseteq A
  <2> HIDE DEF A
  <2> QED BY <1>1, <1>2, NatInductiveSet
<1>4. ASSUME NEW n \in Nat, NEW s \in SUBSET (1 .. n), s # {}
      PROVE  \E x \in s : \A y \in s : x >= y
  BY <1>3, <1>4
<1> QED
  BY <1>4 DEF Max

LEMMA WithoutLargest ==
  ASSUME NEW n \in Nat, NEW t \in SUBSET (1 .. n + 1), t # {}
  PROVE  t \ {Max(t)} \in SUBSET (1 .. n)
<1>1. n + 1 \in Nat
  OBVIOUS
<1>2. Max(t) \in t /\ \A y \in t : Max(t) >= y
  BY <1>1, LargestExists, Zenon
<1>3. ASSUME NEW y \in t \ {Max(t)} PROVE y \in 1 .. n
  <2>1. /\ y \in 1 .. n + 1 /\ Max(t) \in 1 .. n + 1
        /\ y # Max(t) /\ Max(t) >= y
    BY <1>2
  <2> HIDE <1>2
  <2> QED BY <2>1
<1> QED
  BY <1>3

LEMMA PrefixLargest ==
  ASSUME NEW n \in Nat, NEW m \in 0 .. n - 1
  PROVE  /\ 1 .. m + 1 \in SUBSET (1 .. n) /\ 1 .. m + 1 # {}
         /\ Max(1 .. m + 1) = m + 1 /\ (1 .. m + 1) \ {m + 1} = 1 .. m
<1>1. m \in Nat /\ m + 1 \in Nat /\ m + 1 <= n
  OBVIOUS
<1>2. m + 1 \in 1 .. m + 1 /\ \A y \in 1 .. m + 1 : y \in 1 .. n
  BY <1>1
<1>3. 1 .. m + 1 \in SUBSET (1 .. n) /\ 1 .. m + 1 # {}
  BY <1>2, Zenon
<1>4. 1 .. m + 1 \in SUBSET (1 .. m + 1)
  OBVIOUS
<1>5. Max(1 .. m + 1) \in 1 .. m + 1 /\ \A y \in 1 .. m + 1 : Max(1 .. m + 1) >= y
  BY <1>1, <1>3, <1>4, LargestExists, Zenon
<1>6. Max(1 .. m + 1) = m + 1
  BY <1>1, <1>2, <1>5
<1> QED
  BY <1>1, <1>3, <1>6

(* The equation of layerTreeFromWrites over the first n writes. *)
LayerEquation(allw, n, g) ==
  g = [t \in SUBSET (1 .. n) |->
         IF t = {} THEN {} ELSE AddWrite(g[t \ {Max(t)}], allw[Max(t)].node)]

LEMMA LayerExists == \A allw : \A n \in Nat : \E g : LayerEquation(allw, n, g)
<1> SUFFICES ASSUME NEW allw PROVE \A n \in Nat : \E g : LayerEquation(allw, n, g)
  OBVIOUS
<1> DEFINE A == {n \in Nat : \E g : LayerEquation(allw, n, g)}
<1>1. 0 \in A
  <2>1. LayerEquation(allw, 0, [t \in SUBSET (1 .. 0) |-> {}])
    BY DEF LayerEquation
  <2> QED BY <2>1
<1>2. ASSUME NEW n \in Nat, n \in A PROVE n + 1 \in A
  <2>1. PICK g : LayerEquation(allw, n, g)
    BY <1>2
  <2> DEFINE h == [t \in SUBSET (1 .. n + 1) |->
                     IF t = {} THEN {} ELSE AddWrite(g[t \ {Max(t)}], allw[Max(t)].node)]
  <2>2. ASSUME NEW t \in SUBSET (1 .. n) PROVE h[t] = g[t]
    <3>1. t \in SUBSET (1 .. n + 1)
      OBVIOUS
    <3>2. g[t] = IF t = {} THEN {} ELSE AddWrite(g[t \ {Max(t)}], allw[Max(t)].node)
      BY <2>1 DEF LayerEquation
    <3> QED BY <3>1, <3>2
  <2>3. LayerEquation(allw, n + 1, h)
    <3>1. \A t \in SUBSET (1 .. n + 1) : t # {} => h[t \ {Max(t)}] = g[t \ {Max(t)}]
      <4> HIDE DEF h
      <4> QED BY <2>2, WithoutLargest
    <3>2. h = [t \in SUBSET (1 .. n + 1) |->
                 IF t = {} THEN {} ELSE AddWrite(h[t \ {Max(t)}], allw[Max(t)].node)]
      BY <3>1, Zenon
    <3> QED BY <3>2 DEF LayerEquation
  <2> QED BY <2>3
<1>3. Nat \subseteq A
  <2> HIDE DEF A
  <2> QED BY <1>1, <1>2, NatInductiveSet
<1> QED
  BY <1>3

(* The writes are layered one after the other. *)
LEMMA LayersInTurns ==
  ASSUME NEW allw, NEW n \in Nat, DOMAIN allw = 1 .. n
  PROVE  \E g : /\ Layer(allw) = g[1 .. n]
                /\ g[{}] = {}
                /\ \A m \in 0 .. n - 1 : g[1 .. m + 1] = AddWrite(g[1 .. m], allw[m + 1].node)
<1> DEFINE it == CHOOSE g : LayerEquation(allw, n, g)
<1>1. LayerEquation(allw, n, it)
  BY LayerExists
<1>2. Layer(allw) = it[1 .. n]
  BY DEF Layer, FoldLeft, MapThenFoldSet, LayerEquation
<1>3. it[{}] = {}
  BY <1>1 DEF LayerEquation
<1>4. ASSUME NEW m \in 0 .. n - 1 PROVE it[1 .. m + 1] = AddWrite(it[1 .. m], allw[m + 1].node)
  <2>1. /\ 1 .. m + 1 \in SUBSET (1 .. n) /\ 1 .. m + 1 # {}
        /\ Max(1 .. m + 1) = m + 1 /\ (1 .. m + 1) \ {m + 1} = 1 .. m
    BY PrefixLargest, Zenon
  <2>2. it[1 .. m + 1] = AddWrite(it[(1 .. m + 1) \ {Max(1 .. m + 1)}], allw[Max(1 .. m + 1)].node)
    <3> HIDE DEF it
    <3> QED BY <1>1, <2>1 DEF LayerEquation
  <2> QED BY <2>1, <2>2
<1> QED
  BY <1>2, <1>3, <1>4

(* The equation of ackPuts over the first n acknowledgements. *)
AcksEquation(u, acks, n, g) ==
  g = [t \in SUBSET (1 .. n) |->
         IF t = {} THEN u ELSE ApplyAck(g[t \ {Max(t)}], acks[Max(t)].id, acks[Max(t)].ok)]

LEMMA AcksExist == \A u, acks : \A n \in Nat : \E g : AcksEquation(u, acks, n, g)
<1> SUFFICES ASSUME NEW u, NEW acks PROVE \A n \in Nat : \E g : AcksEquation(u, acks, n, g)
  OBVIOUS
<1> DEFINE A == {n \in Nat : \E g : AcksEquation(u, acks, n, g)}
<1>1. 0 \in A
  <2>1. AcksEquation(u, acks, 0, [t \in SUBSET (1 .. 0) |-> u])
    BY DEF AcksEquation
  <2> QED BY <2>1
<1>2. ASSUME NEW n \in Nat, n \in A PROVE n + 1 \in A
  <2>1. PICK g : AcksEquation(u, acks, n, g)
    BY <1>2
  <2> DEFINE h == [t \in SUBSET (1 .. n + 1) |->
                     IF t = {} THEN u
                     ELSE ApplyAck(g[t \ {Max(t)}], acks[Max(t)].id, acks[Max(t)].ok)]
  <2>2. ASSUME NEW t \in SUBSET (1 .. n) PROVE h[t] = g[t]
    <3>1. t \in SUBSET (1 .. n + 1)
      OBVIOUS
    <3>2. g[t] = IF t = {} THEN u
                 ELSE ApplyAck(g[t \ {Max(t)}], acks[Max(t)].id, acks[Max(t)].ok)
      BY <2>1 DEF AcksEquation
    <3> QED BY <3>1, <3>2
  <2>3. AcksEquation(u, acks, n + 1, h)
    <3>1. \A t \in SUBSET (1 .. n + 1) : t # {} => h[t \ {Max(t)}] = g[t \ {Max(t)}]
      <4> HIDE DEF h
      <4> QED BY <2>2, WithoutLargest
    <3>2. h = [t \in SUBSET (1 .. n + 1) |->
                 IF t = {} THEN u
                 ELSE ApplyAck(h[t \ {Max(t)}], acks[Max(t)].id, acks[Max(t)].ok)]
      BY <3>1, Zenon
    <3> QED BY <3>2 DEF AcksEquation
  <2> QED BY <2>3
<1>3. Nat \subseteq A
  <2> HIDE DEF A
  <2> QED BY <1>1, <1>2, NatInductiveSet
<1> QED
  BY <1>3

(* What is held is acknowledged one write after the other. *)
LEMMA AcksInTurns ==
  ASSUME NEW u, NEW acks, NEW n \in Nat, DOMAIN acks = 1 .. n
  PROVE  \E g : /\ ApplyAcks(u, acks) = g[1 .. n]
                /\ g[{}] = u
                /\ \A m \in 0 .. n - 1 :
                     g[1 .. m + 1] = ApplyAck(g[1 .. m], acks[m + 1].id, acks[m + 1].ok)
<1> DEFINE it == CHOOSE g : AcksEquation(u, acks, n, g)
<1>1. AcksEquation(u, acks, n, it)
  BY AcksExist
<1>2. ApplyAcks(u, acks) = it[1 .. n]
  BY DEF ApplyAcks, FoldLeft, MapThenFoldSet, AcksEquation
<1>3. it[{}] = u
  BY <1>1 DEF AcksEquation
<1>4. ASSUME NEW m \in 0 .. n - 1
      PROVE  it[1 .. m + 1] = ApplyAck(it[1 .. m], acks[m + 1].id, acks[m + 1].ok)
  <2>1. /\ 1 .. m + 1 \in SUBSET (1 .. n) /\ 1 .. m + 1 # {}
        /\ Max(1 .. m + 1) = m + 1 /\ (1 .. m + 1) \ {m + 1} = 1 .. m
    BY PrefixLargest, Zenon
  <2>2. it[1 .. m + 1] = ApplyAck(it[(1 .. m + 1) \ {Max(1 .. m + 1)}],
                                  acks[Max(1 .. m + 1)].id, acks[Max(1 .. m + 1)].ok)
    <3> HIDE DEF it
    <3> QED BY <1>1, <2>1 DEF AcksEquation
  <2> QED BY <2>1, <2>2
<1> QED
  BY <1>2, <1>3, <1>4

-----------------------------------------------------------------------------
(* Sequences *)

LEMMA AppendAt ==
  ASSUME NEW S, NEW s \in Seq(S), NEW e \in S
  PROVE  /\ Append(s, e) \in Seq(S) /\ Len(s) \in Nat
         /\ DOMAIN s = 1 .. Len(s) /\ DOMAIN Append(s, e) = 1 .. Len(s) + 1
         /\ \A k \in 1 .. Len(s) : Append(s, e)[k] = s[k]
         /\ Append(s, e)[Len(s) + 1] = e
  OBVIOUS

LEMMA ConcatAt ==
  ASSUME NEW S, NEW s \in Seq(S), NEW t \in Seq(S)
  PROVE  /\ s \o t \in Seq(S) /\ Len(s) \in Nat /\ Len(t) \in Nat
         /\ DOMAIN s = 1 .. Len(s) /\ DOMAIN t = 1 .. Len(t)
         /\ DOMAIN (s \o t) = 1 .. Len(s) + Len(t)
         /\ \A k \in 1 .. Len(s) : (s \o t)[k] = s[k]
         /\ \A k \in 1 .. Len(t) : (s \o t)[Len(s) + k] = t[k]
  OBVIOUS

LEMMA TailAt ==
  ASSUME NEW S, NEW s \in Seq(S), s # <<>>
  PROVE  /\ Tail(s) \in Seq(S) /\ Len(s) \in Nat \ {0}
         /\ DOMAIN s = 1 .. Len(s) /\ DOMAIN Tail(s) = 1 .. Len(s) - 1
         /\ \A k \in 1 .. Len(s) - 1 : Tail(s)[k] = s[k + 1]
         /\ Head(s) = s[1] /\ Head(s) \in S
  OBVIOUS

LEMMA RemoveAtAt ==
  ASSUME NEW S, NEW s \in Seq(S), NEW k \in DOMAIN s
  PROVE  /\ RemoveAt(s, k) \in Seq(S) /\ Len(s) \in Nat \ {0}
         /\ DOMAIN s = 1 .. Len(s) /\ DOMAIN RemoveAt(s, k) = 1 .. Len(s) - 1
         /\ \A j \in 1 .. Len(s) - 1 : RemoveAt(s, k)[j] = IF j < k THEN s[j] ELSE s[j + 1]
<1>1. DOMAIN s = 1 .. Len(s) /\ Len(s) \in Nat \ {0} /\ k \in 1 .. Len(s)
  BY LenProperties
<1> DEFINE a == SubSeq(s, 1, k - 1)
           b == SubSeq(s, k + 1, Len(s))
<1>2. a \in Seq(S) /\ Len(a) = k - 1 /\ \A j \in 1 .. k - 1 : a[j] = s[j]
  <2>1. \A i \in 1 .. k - 1 : s[i] \in S
    BY <1>1
  <2> QED BY <1>1, <2>1, SubSeqProperties
<1>3. b \in Seq(S) /\ Len(b) = Len(s) - k /\ \A j \in 1 .. Len(s) - k : b[j] = s[j + k]
  <2>1. \A i \in k + 1 .. Len(s) : s[i] \in S
    BY <1>1
  <2>2. /\ b \in Seq(S) /\ Len(b) = IF k + 1 <= Len(s) THEN Len(s) - (k + 1) + 1 ELSE 0
        /\ \A j \in 1 .. Len(s) - (k + 1) + 1 : b[j] = s[(k + 1) + j - 1]
    BY <1>1, <2>1, SubSeqProperties
  <2> QED BY <1>1, <2>2
<1> HIDE DEF a, b
<1>4. RemoveAt(s, k) = a \o b
  BY DEF RemoveAt, a, b
<1>5. /\ a \o b \in Seq(S) /\ Len(a \o b) = Len(s) - 1
      /\ \A j \in 1 .. Len(s) - 1 : (a \o b)[j] = IF j <= k - 1 THEN a[j] ELSE b[j - (k - 1)]
  <2>1. /\ a \o b \in Seq(S) /\ Len(a \o b) = Len(a) + Len(b)
        /\ \A j \in 1 .. Len(a) + Len(b) : (a \o b)[j] = IF j <= Len(a) THEN a[j] ELSE b[j - Len(a)]
    BY <1>2, <1>3, ConcatProperties
  <2>2. Len(a) + Len(b) = Len(s) - 1
    BY <1>1, <1>2, <1>3
  <2> QED BY <1>2, <2>1, <2>2
<1>6. ASSUME NEW j \in 1 .. Len(s) - 1 PROVE (a \o b)[j] = IF j < k THEN s[j] ELSE s[j + 1]
  <2>1. CASE j < k
    BY <1>1, <1>2, <1>5, <2>1
  <2>2. CASE ~(j < k)
    <3>1. j - (k - 1) \in 1 .. Len(s) - k /\ (j - (k - 1)) + k = j + 1 /\ ~(j <= k - 1)
      BY <1>1, <2>2
    <3>2. b[j - (k - 1)] = s[(j - (k - 1)) + k]
      BY <1>3, <3>1
    <3> QED BY <1>5, <2>2, <3>1, <3>2
  <2> QED BY <2>1, <2>2
<1> QED
  BY <1>1, <1>4, <1>5, <1>6, LenProperties

-----------------------------------------------------------------------------
(* Compound writes, and the writes they are made of *)

WriteNodes == UNION {Node(p) : p \in WritePaths}
Pending == [id : 1 .. LastPut, node : WriteNodes]

LEMMA WriteNodeFacts ==
  ASSUME NEW n \in WriteNodes
  PROVE  /\ n \in Nodes /\ DOMAIN n \in WritePaths /\ DOMAIN n \in Paths
         /\ n \in Node(DOMAIN n) /\ DOMAIN n # {}
  BY PathFacts DEF WriteNodes, Node, Nodes

(* The nodes of a compound write are apart. *)
Compound(writes) ==
  /\ writes \in SUBSET WriteNodes
  /\ \A v, w \in writes : DOMAIN v \cap DOMAIN w # {} => v = w

LEMMA CompoundNodes ==
  ASSUME NEW writes, Compound(writes)
  PROVE  writes \in SUBSET Nodes /\ \A w \in writes : w \in WriteNodes
  BY WriteNodeFacts DEF Compound

LEMMA ShownBy ==
  ASSUME NEW writes, Compound(writes), NEW w \in writes, NEW l \in DOMAIN w, NEW v
  PROVE  Shown(writes, l, v) = w[l]
<1>1. w \in Covering(writes, {l})
  BY DEF Covering
<1>2. \A x \in Covering(writes, {l}) : x = w
  BY DEF Covering, Compound
<1> QED
  BY <1>1, <1>2 DEF Shown

LEMMA ShownServer ==
  ASSUME NEW writes, NEW l, \A w \in writes : l \notin DOMAIN w, NEW v
  PROVE  Shown(writes, l, v) = v
  BY DEF Shown, Covering

(* addWrite:atPath: hides what the new write is about, and shows the rest  *)
(* as before.                                                              *)
LEMMA AddWriteInto ==
  ASSUME NEW writes, Compound(writes), NEW node \in WriteNodes,
         HasCompleteWrite(writes, DOMAIN node)
  PROVE  \E w \in writes :
           /\ DOMAIN node \subseteq DOMAIN w
           /\ AddWrite(writes, node) = (writes \ {w}) \cup {UpdateChild(w, node)}
           /\ UpdateChild(w, node) \in WriteNodes /\ DOMAIN UpdateChild(w, node) = DOMAIN w
           /\ \A l \in DOMAIN w : UpdateChild(w, node)[l] = IF l \in DOMAIN node THEN node[l] ELSE w[l]
<1>1. PICK w \in writes : DOMAIN node \subseteq DOMAIN w
  BY DEF HasCompleteWrite, Covering
<1>2. \A x \in writes : DOMAIN node \subseteq DOMAIN x => x = w
  BY <1>1, WriteNodeFacts DEF Compound
<1>3. AddWrite(writes, node) = {IF DOMAIN node \subseteq DOMAIN x THEN UpdateChild(x, node) ELSE x : x \in writes}
  BY DEF AddWrite
<1>4. AddWrite(writes, node) = (writes \ {w}) \cup {UpdateChild(w, node)}
  BY <1>1, <1>2, <1>3
<1>5. /\ w \in WriteNodes /\ w \in Node(DOMAIN w) /\ DOMAIN w \in WritePaths
      /\ node \in Node(DOMAIN node)
  BY <1>1, WriteNodeFacts, CompoundNodes
<1>6. UpdateChild(w, node) \in Node(DOMAIN w)
  BY <1>5, UpdateChildType
<1>7. ASSUME NEW l \in DOMAIN w PROVE UpdateChild(w, node)[l] = IF l \in DOMAIN node THEN node[l] ELSE w[l]
  BY <1>5, UpdateChildAt
<1>8. UpdateChild(w, node) \in WriteNodes /\ DOMAIN UpdateChild(w, node) = DOMAIN w
  BY <1>5, <1>6 DEF WriteNodes, Node
<1> QED
  BY <1>1, <1>4, <1>7, <1>8

LEMMA AddWriteAnew ==
  ASSUME NEW writes, Compound(writes), NEW node \in WriteNodes,
         ~HasCompleteWrite(writes, DOMAIN node)
  PROVE  /\ AddWrite(writes, node) = {w \in writes : ~(DOMAIN w \subseteq DOMAIN node)} \cup {node}
         /\ \A w \in writes : ~(DOMAIN w \subseteq DOMAIN node) => DOMAIN w \cap DOMAIN node = {}
<1>1. AddWrite(writes, node) = {w \in writes : ~(DOMAIN w \subseteq DOMAIN node)} \cup {node}
  BY DEF AddWrite, RemoveWriteAtPath
<1>2. ASSUME NEW w \in writes, ~(DOMAIN w \subseteq DOMAIN node) PROVE DOMAIN w \cap DOMAIN node = {}
  <2>1. ~(DOMAIN node \subseteq DOMAIN w)
    BY DEF HasCompleteWrite, Covering
  <2>2. DOMAIN w \in Paths /\ DOMAIN node \in Paths
    BY WriteNodeFacts, CompoundNodes
  <2> QED BY <1>2, <2>1, <2>2, PathFacts
<1> QED
  BY <1>1, <1>2

LEMMA AddWriteCompound ==
  ASSUME NEW writes, Compound(writes), NEW node \in WriteNodes
  PROVE  Compound(AddWrite(writes, node))
<1>1. CASE HasCompleteWrite(writes, DOMAIN node)
  <2>1. PICK w \in writes :
           /\ AddWrite(writes, node) = (writes \ {w}) \cup {UpdateChild(w, node)}
           /\ UpdateChild(w, node) \in WriteNodes /\ DOMAIN UpdateChild(w, node) = DOMAIN w
    BY <1>1, AddWriteInto
  <2> QED BY <2>1 DEF Compound
<1>2. CASE ~HasCompleteWrite(writes, DOMAIN node)
  BY <1>2, AddWriteAnew DEF Compound
<1> QED
  BY <1>1, <1>2

LEMMA AddWriteShown ==
  ASSUME NEW writes, Compound(writes), NEW node \in WriteNodes, NEW l, NEW v
  PROVE  Shown(AddWrite(writes, node), l, v) = IF l \in DOMAIN node THEN node[l] ELSE Shown(writes, l, v)
<1> DEFINE new == AddWrite(writes, node)
<1>0. Compound(new)
  BY AddWriteCompound
<1>1. CASE HasCompleteWrite(writes, DOMAIN node)
  <2>1. PICK w \in writes :
           /\ DOMAIN node \subseteq DOMAIN w
           /\ new = (writes \ {w}) \cup {UpdateChild(w, node)}
           /\ DOMAIN UpdateChild(w, node) = DOMAIN w
           /\ \A k \in DOMAIN w : UpdateChild(w, node)[k] = IF k \in DOMAIN node THEN node[k] ELSE w[k]
    BY <1>1, AddWriteInto
  <2> HIDE DEF new
  <2>2. CASE l \in DOMAIN w
    <3>1. Shown(new, l, v) = UpdateChild(w, node)[l]
      BY <1>0, <2>1, <2>2, ShownBy
    <3>2. Shown(writes, l, v) = w[l]
      BY <2>2, ShownBy
    <3> QED BY <2>1, <2>2, <3>1, <3>2 DEF new
  <2>3. CASE l \notin DOMAIN w /\ \E x \in writes : l \in DOMAIN x
    <3>1. PICK x \in writes : l \in DOMAIN x
      BY <2>3
    <3>2. x \in new
      BY <2>1, <2>3, <3>1
    <3>3. Shown(new, l, v) = x[l] /\ Shown(writes, l, v) = x[l]
      BY <1>0, <3>1, <3>2, ShownBy
    <3> QED BY <2>1, <2>3, <3>3 DEF new
  <2>4. CASE \A x \in writes : l \notin DOMAIN x
    <3>1. \A x \in new : l \notin DOMAIN x
      BY <2>1, <2>4
    <3>2. Shown(new, l, v) = v /\ Shown(writes, l, v) = v
      BY <2>4, <3>1, ShownServer
    <3> QED BY <2>1, <2>4, <3>2 DEF new
  <2> QED BY <2>2, <2>3, <2>4
<1>2. CASE ~HasCompleteWrite(writes, DOMAIN node)
  <2>1. /\ new = {w \in writes : ~(DOMAIN w \subseteq DOMAIN node)} \cup {node}
        /\ \A w \in writes : ~(DOMAIN w \subseteq DOMAIN node) => DOMAIN w \cap DOMAIN node = {}
    BY <1>2, AddWriteAnew
  <2> HIDE DEF new
  <2>2. CASE l \in DOMAIN node
    <3>1. Shown(new, l, v) = node[l]
      BY <1>0, <2>1, <2>2, ShownBy
    <3> QED BY <2>2, <3>1 DEF new
  <2>3. CASE l \notin DOMAIN node /\ \E x \in writes : l \in DOMAIN x
    <3>1. PICK x \in writes : l \in DOMAIN x
      BY <2>3
    <3>2. x \in new
      BY <2>1, <2>3, <3>1
    <3>3. Shown(new, l, v) = x[l] /\ Shown(writes, l, v) = x[l]
      BY <1>0, <3>1, <3>2, ShownBy
    <3> QED BY <2>3, <3>3 DEF new
  <2>4. CASE l \notin DOMAIN node /\ \A x \in writes : l \notin DOMAIN x
    <3>1. \A x \in new : l \notin DOMAIN x
      BY <2>1, <2>4
    <3>2. Shown(new, l, v) = v /\ Shown(writes, l, v) = v
      BY <2>4, <3>1, ShownServer
    <3> QED BY <2>4, <3>2 DEF new
  <2> QED BY <2>2, <2>3, <2>4
<1> QED
  BY <1>1, <1>2

LEMMA AddWriteComplete ==
  ASSUME NEW writes, Compound(writes), NEW node \in WriteNodes, NEW p,
         HasCompleteWrite(AddWrite(writes, node), p)
  PROVE  p \subseteq DOMAIN node \/ HasCompleteWrite(writes, p)
<1>1. CASE HasCompleteWrite(writes, DOMAIN node)
  <2>1. PICK w \in writes :
           /\ AddWrite(writes, node) = (writes \ {w}) \cup {UpdateChild(w, node)}
           /\ DOMAIN UpdateChild(w, node) = DOMAIN w
    BY <1>1, AddWriteInto
  <2> QED BY <2>1 DEF HasCompleteWrite, Covering
<1>2. CASE ~HasCompleteWrite(writes, DOMAIN node)
  BY <1>2, AddWriteAnew DEF HasCompleteWrite, Covering
<1> QED
  BY <1>1, <1>2

(* The latest of the writes that is about l. *)
LastAt(allw, l, k) ==
  /\ k \in DOMAIN allw /\ l \in DOMAIN allw[k].node
  /\ \A j \in DOMAIN allw : j > k => l \notin DOMAIN allw[j].node

(* writes has a node at each of the root-most paths of allw, with the      *)
(* values written last, but for the leaves in except.                      *)
LayeredBut(writes, allw, except) ==
  /\ Compound(writes)
  /\ \A w \in writes : \E k \in DOMAIN allw : DOMAIN w = DOMAIN allw[k].node
  /\ \A k \in DOMAIN allw : \E w \in writes : DOMAIN allw[k].node \subseteq DOMAIN w
  /\ \A w \in writes : \A l \in DOMAIN w \ except : \A k \in DOMAIN allw :
       LastAt(allw, l, k) => w[l] = allw[k].node[l]

LEMMA PendingAt ==
  ASSUME NEW allw \in Seq(Pending), NEW k \in DOMAIN allw
  PROVE  /\ allw[k] \in Pending /\ allw[k].node \in WriteNodes /\ allw[k].id \in 1 .. LastPut
         /\ DOMAIN allw[k].node \in Paths /\ DOMAIN allw[k].node # {}
<1>1. allw[k] \in Pending
  BY ElementOfSeq, LenProperties
<1>2. allw[k].node \in WriteNodes /\ allw[k].id \in 1 .. LastPut
  BY <1>1 DEF Pending
<1> QED
  BY <1>1, <1>2, WriteNodeFacts

LEMMA LastExists ==
  ASSUME NEW allw \in Seq(Pending), NEW l, \E k \in DOMAIN allw : l \in DOMAIN allw[k].node
  PROVE  \E k : LastAt(allw, l, k)
<1> DEFINE T == {k \in DOMAIN allw : l \in DOMAIN allw[k].node}
<1>1. Len(allw) \in Nat /\ DOMAIN allw = 1 .. Len(allw)
  BY LenProperties
<1>2. T \in SUBSET (1 .. Len(allw)) /\ T # {}
  BY <1>1
<1>3. Max(T) \in T /\ \A y \in T : Max(T) >= y
  <2> HIDE DEF T
  <2> QED BY <1>1, <1>2, LargestExists
<1>4. \A j \in DOMAIN allw : j > Max(T) => l \notin DOMAIN allw[j].node
  <2> SUFFICES ASSUME NEW j \in DOMAIN allw, j > Max(T), l \in DOMAIN allw[j].node PROVE FALSE
    OBVIOUS
  <2>1. j \in T /\ j \in Nat /\ Max(T) \in Nat
    BY <1>1, <1>3
  <2>2. Max(T) >= j
    BY <1>3, <2>1
  <2> HIDE DEF T
  <2> QED BY <2>1, <2>2
<1> QED
  BY <1>3, <1>4 DEF LastAt

LEMMA LastUnique ==
  ASSUME NEW allw \in Seq(Pending), NEW l, NEW k, NEW j, LastAt(allw, l, k), LastAt(allw, l, j)
  PROVE  k = j
<1>1. DOMAIN allw = 1 .. Len(allw)
  BY LenProperties
<1> QED
  BY <1>1 DEF LastAt

(* A compound write shows the value written last. *)
LEMMA LayeredShows ==
  ASSUME NEW allw \in Seq(Pending), NEW writes, NEW except, LayeredBut(writes, allw, except),
         NEW l, l \notin except, NEW k, LastAt(allw, l, k), NEW v
  PROVE  Shown(writes, l, v) = allw[k].node[l]
<1>1. PICK w \in writes : DOMAIN allw[k].node \subseteq DOMAIN w
  BY DEF LayeredBut, LastAt
<1>2. l \in DOMAIN w /\ w[l] = allw[k].node[l]
  BY <1>1 DEF LayeredBut, LastAt
<1> QED
  BY <1>1, <1>2, ShownBy DEF LayeredBut

LEMMA LayeredShowsServer ==
  ASSUME NEW allw, NEW writes, NEW except, LayeredBut(writes, allw, except),
         NEW l, \A k \in DOMAIN allw : l \notin DOMAIN allw[k].node, NEW v
  PROVE  Shown(writes, l, v) = v
<1>1. \A w \in writes : l \notin DOMAIN w
  BY DEF LayeredBut
<1> QED
  BY <1>1, ShownServer

LEMMA LayeredMore ==
  ASSUME NEW allw, NEW writes, NEW except, NEW more, LayeredBut(writes, allw, except),
         except \subseteq more
  PROVE  LayeredBut(writes, allw, more)
  BY DEF LayeredBut

(* addWrite keeps the writes layered. *)
LEMMA LayeredAppend ==
  ASSUME NEW allw \in Seq(Pending), NEW writes, NEW except, LayeredBut(writes, allw, except),
         NEW record \in Pending
  PROVE  LayeredBut(AddWrite(writes, record.node), Append(allw, record), except \ DOMAIN record.node)
<1> DEFINE node == record.node
           new == AddWrite(writes, node)
           more == Append(allw, record)
           n == Len(allw)
<1>1. Compound(writes) /\ node \in WriteNodes
  BY DEF LayeredBut, Pending
<1>2. /\ n \in Nat /\ DOMAIN allw = 1 .. n /\ DOMAIN more = 1 .. n + 1
      /\ \A k \in 1 .. n : more[k] = allw[k]
      /\ more[n + 1] = record
  BY AppendAt
<1>3. Compound(new)
  BY <1>1, AddWriteCompound
<1>4. ASSUME NEW k \in DOMAIN more
      PROVE  (k \in DOMAIN allw /\ more[k] = allw[k]) \/ (k = n + 1 /\ more[k] = record)
  BY <1>2
<1>5. \A k \in DOMAIN allw : k \in DOMAIN more /\ more[k] = allw[k] /\ n + 1 > k
  BY <1>2
<1>6. n + 1 \in DOMAIN more /\ more[n + 1] = record
  BY <1>2
<1>7. ASSUME NEW l, NEW k \in DOMAIN allw, l \notin DOMAIN node, LastAt(more, l, k)
      PROVE  LastAt(allw, l, k)
  BY <1>5, <1>7 DEF LastAt
<1>8. ASSUME NEW l \in DOMAIN node, NEW k, LastAt(more, l, k) PROVE more[k].node = node
  BY <1>4, <1>5, <1>6, <1>8 DEF LastAt
<1> HIDE DEF more, n
<1>9. CASE HasCompleteWrite(writes, DOMAIN node)
  <2>1. PICK w \in writes :
           /\ DOMAIN node \subseteq DOMAIN w
           /\ new = (writes \ {w}) \cup {UpdateChild(w, node)}
           /\ DOMAIN UpdateChild(w, node) = DOMAIN w
           /\ \A k \in DOMAIN w : UpdateChild(w, node)[k] = IF k \in DOMAIN node THEN node[k] ELSE w[k]
    BY <1>1, <1>9, AddWriteInto
  <2> DEFINE u == UpdateChild(w, node)
  <2> HIDE DEF new, u, node
  <2>2. new = (writes \ {w}) \cup {u} /\ DOMAIN u = DOMAIN w
        /\ \A k \in DOMAIN w : u[k] = IF k \in DOMAIN node THEN node[k] ELSE w[k]
    BY <2>1 DEF u
  <2>3. ASSUME NEW x \in new PROVE \E k \in DOMAIN more : DOMAIN x = DOMAIN more[k].node
    BY <2>2, <1>5 DEF LayeredBut
  <2>4. ASSUME NEW k \in DOMAIN more PROVE \E x \in new : DOMAIN more[k].node \subseteq DOMAIN x
    <3>1. CASE k \in DOMAIN allw /\ more[k] = allw[k]
      <4>1. PICK y \in writes : DOMAIN more[k].node \subseteq DOMAIN y
        BY <3>1 DEF LayeredBut
      <4> QED BY <2>2, <4>1
    <3>2. CASE k = n + 1 /\ more[k] = record
      BY <3>2, <2>1, <2>2 DEF node
    <3> QED BY <1>4, <3>1, <3>2
  <2>5. ASSUME NEW x \in new, NEW l \in DOMAIN x \ (except \ DOMAIN node), NEW k \in DOMAIN more,
               LastAt(more, l, k)
        PROVE  x[l] = more[k].node[l]
    <3>1. CASE l \in DOMAIN node
      <4>1. l \in DOMAIN u /\ u \in new
        BY <2>1, <2>2, <3>1
      <4>2. x = u
        BY <1>3, <4>1, <2>5 DEF Compound
      <4>3. more[k].node = node
        BY <1>8, <2>5, <3>1
      <4> QED BY <2>2, <3>1, <4>1, <4>2, <4>3
    <3>2. CASE l \notin DOMAIN node
      <4>1. k \in DOMAIN allw /\ more[k] = allw[k]
        BY <1>4, <2>5, <3>2 DEF LastAt, node
      <4>2. LastAt(allw, l, k) /\ l \notin except
        BY <1>7, <2>5, <3>2, <4>1
      <4>3. PICK y \in writes : l \in DOMAIN y /\ x[l] = y[l]
        BY <2>2, <2>5, <3>2
      <4> QED BY <4>1, <4>2, <4>3 DEF LayeredBut
    <3> QED BY <3>1, <3>2
  <2> QED BY <1>3, <2>3, <2>4, <2>5 DEF LayeredBut, new, more, node
<1>10. CASE ~HasCompleteWrite(writes, DOMAIN node)
  <2>1. /\ new = {w \in writes : ~(DOMAIN w \subseteq DOMAIN node)} \cup {node}
        /\ \A w \in writes : ~(DOMAIN w \subseteq DOMAIN node) => DOMAIN w \cap DOMAIN node = {}
    BY <1>1, <1>10, AddWriteAnew
  <2> HIDE DEF new
  <2>3. ASSUME NEW x \in new PROVE \E k \in DOMAIN more : DOMAIN x = DOMAIN more[k].node
    BY <2>1, <1>5, <1>6 DEF LayeredBut
  <2>4. ASSUME NEW k \in DOMAIN more PROVE \E x \in new : DOMAIN more[k].node \subseteq DOMAIN x
    <3>1. CASE k \in DOMAIN allw /\ more[k] = allw[k]
      <4>1. PICK y \in writes : DOMAIN more[k].node \subseteq DOMAIN y
        BY <3>1 DEF LayeredBut
      <4>2. CASE DOMAIN y \subseteq DOMAIN node
        BY <2>1, <4>1, <4>2
      <4> QED BY <2>1, <4>1, <4>2
    <3>2. CASE k = n + 1 /\ more[k] = record
      BY <3>2, <2>1
    <3> QED BY <1>4, <3>1, <3>2
  <2>5. ASSUME NEW x \in new, NEW l \in DOMAIN x \ (except \ DOMAIN node), NEW k \in DOMAIN more,
               LastAt(more, l, k)
        PROVE  x[l] = more[k].node[l]
    <3>1. CASE l \in DOMAIN node
      <4>1. x = node
        BY <1>3, <2>1, <2>5, <3>1 DEF Compound
      <4> QED BY <1>8, <2>5, <3>1, <4>1
    <3>2. CASE l \notin DOMAIN node
      <4>1. k \in DOMAIN allw /\ more[k] = allw[k]
        BY <1>4, <2>5, <3>2 DEF LastAt
      <4>2. LastAt(allw, l, k) /\ l \notin except
        BY <1>7, <2>5, <3>2, <4>1
      <4>3. x \in writes
        BY <2>1, <2>5, <3>2
      <4> QED BY <2>5, <4>1, <4>2, <4>3 DEF LayeredBut
    <3> QED BY <3>1, <3>2
  <2> QED BY <1>3, <2>3, <2>4, <2>5 DEF LayeredBut, new, more
<1> QED
  BY <1>9, <1>10

(* layerTreeFromWrites. *)
LEMMA LayerIsLayered ==
  ASSUME NEW allw \in Seq(Pending)
  PROVE  LayeredBut(Layer(allw), allw, {})
<1> DEFINE n == Len(allw)
<1>1. n \in Nat /\ DOMAIN allw = 1 .. n
  BY LenProperties
<1>2. PICK g : /\ Layer(allw) = g[1 .. n]
               /\ g[{}] = {}
               /\ \A m \in 0 .. n - 1 : g[1 .. m + 1] = AddWrite(g[1 .. m], allw[m + 1].node)
  <2> HIDE DEF n
  <2> QED BY <1>1, LayersInTurns
<1> DEFINE A == {m \in Nat : m <= n => LayeredBut(g[1 .. m], SubSeq(allw, 1, m), {})}
<1>3. 0 \in A
  <2>1. SubSeq(allw, 1, 0) = <<>> /\ 1 .. 0 = {}
    BY SubSeqEmpty
  <2>2. LayeredBut({}, <<>>, {})
    BY DEF LayeredBut, Compound
  <2> QED BY <1>2, <2>1, <2>2
<1>4. ASSUME NEW m \in Nat, m \in A PROVE m + 1 \in A
  <2> SUFFICES ASSUME m + 1 <= n PROVE LayeredBut(g[1 .. m + 1], SubSeq(allw, 1, m + 1), {})
    OBVIOUS
  <2> DEFINE s == SubSeq(allw, 1, m)
  <2>1. LayeredBut(g[1 .. m], s, {})
    BY <1>1, <1>4
  <2>2. m \in 0 .. n - 1 /\ m + 1 \in 1 .. n /\ allw[m + 1] \in Pending
    BY <1>1, ElementOfSeq
  <2>3. s \in Seq(Pending)
    <3>1. \A i \in 1 .. m : allw[i] \in Pending
      BY <2>2, <1>1, ElementOfSeq
    <3> QED BY <3>1, SubSeqProperties
  <2>4. SubSeq(allw, 1, m + 1) = Append(s, allw[m + 1])
    <3>1. SubSeq(allw, 1, m + 1) = SubSeq(allw, 1, (m + 1) - 1) \o <<allw[m + 1]>>
      BY <2>2, <1>1, SubSeqRecursiveSecond
    <3>2. (m + 1) - 1 = m
      OBVIOUS
    <3> HIDE DEF s
    <3> QED BY <2>2, <2>3, <3>1, <3>2, AppendIsConcat DEF s
  <2>5. LayeredBut(AddWrite(g[1 .. m], allw[m + 1].node), Append(s, allw[m + 1]), {} \ DOMAIN allw[m + 1].node)
    <3> HIDE DEF s
    <3> QED BY <2>1, <2>2, <2>3, LayeredAppend
  <2>6. {} \ DOMAIN allw[m + 1].node = {}
    OBVIOUS
  <2> HIDE DEF s, n
  <2> QED BY <1>2, <2>2, <2>4, <2>5, <2>6
<1>5. Nat \subseteq A
  <2> HIDE DEF A
  <2> QED BY <1>3, <1>4, NatInductiveSet
<1>6. LayeredBut(g[1 .. n], SubSeq(allw, 1, n), {})
  BY <1>1, <1>5
<1>7. SubSeq(allw, 1, n) = allw
  BY SubSeqFull
<1> QED
  BY <1>2, <1>6, <1>7

(* There is only one way to layer the writes. *)
LEMMA LayeredUnique ==
  ASSUME NEW allw \in Seq(Pending), NEW writes, LayeredBut(writes, allw, {})
  PROVE  writes = Layer(allw)
<1>1. ASSUME NEW v, NEW w, LayeredBut(v, allw, {}), LayeredBut(w, allw, {}), NEW x \in v
      PROVE  x \in w
  <2>1. PICK k \in DOMAIN allw : DOMAIN x = DOMAIN allw[k].node
    BY <1>1 DEF LayeredBut
  <2>2. PICK y \in w : DOMAIN x \subseteq DOMAIN y
    BY <1>1, <2>1 DEF LayeredBut
  <2>3. PICK j \in DOMAIN allw : DOMAIN y = DOMAIN allw[j].node
    BY <1>1 DEF LayeredBut
  <2>4. PICK z \in v : DOMAIN y \subseteq DOMAIN z
    BY <1>1, <2>3 DEF LayeredBut
  <2>5. x \in WriteNodes /\ y \in WriteNodes /\ DOMAIN x # {}
    BY <1>1, WriteNodeFacts DEF LayeredBut, Compound
  <2>6. x = z
    BY <1>1, <2>2, <2>4, <2>5 DEF LayeredBut, Compound
  <2>7. DOMAIN x = DOMAIN y
    BY <2>2, <2>4, <2>6
  <2>8. ASSUME NEW l \in DOMAIN x PROVE x[l] = y[l]
    <3>1. PICK i : LastAt(allw, l, i)
      BY <2>1, LastExists
    <3>2. i \in DOMAIN allw
      BY <3>1 DEF LastAt
    <3>3. x[l] = allw[i].node[l]
      BY <1>1, <3>1, <3>2 DEF LayeredBut
    <3>4. y[l] = allw[i].node[l]
      <4>1. y \in w /\ l \in DOMAIN y \ {}
        BY <2>7
      <4> QED BY <1>1, <3>1, <3>2, <4>1 DEF LayeredBut
    <3> QED BY <3>3, <3>4
  <2>9. x \in Node(DOMAIN x) /\ y \in Node(DOMAIN x)
    BY <2>5, <2>7, WriteNodeFacts
  <2>10. x = y
    BY <2>8, <2>9, NodesEqual
  <2> QED BY <2>10
<1>2. LayeredBut(Layer(allw), allw, {})
  BY LayerIsLayered
<1> QED
  BY <1>1, <1>2

(* Pending writes are numbered in their order. *)
Ascending(allw) == \A j, k \in DOMAIN allw : j < k => allw[j].id < allw[k].id

LEMMA IndexOfAt ==
  ASSUME NEW allw, NEW i \in Ids(allw)
  PROVE  IndexOf(allw, i) \in DOMAIN allw /\ allw[IndexOf(allw, i)].id = i
  BY DEF Ids, IndexOf

(* rest is allw without its k-th write. *)
Rest(allw, k, rest) ==
  /\ rest \in Seq(Pending)
  /\ \A j \in DOMAIN rest : \E o \in DOMAIN allw :
       /\ o # k /\ rest[j] = allw[o] /\ (o < k => o = j) /\ (o > k => o = j + 1)
  /\ \A o \in DOMAIN allw : o # k =>
       \E j \in DOMAIN rest :
         /\ rest[j] = allw[o] /\ (o < k => j = o) /\ (o > k => j = o - 1)

LEMMA RestAt ==
  ASSUME NEW allw \in Seq(Pending), NEW k \in DOMAIN allw, NEW rest, rest = RemoveAt(allw, k)
  PROVE  Rest(allw, k, rest)
<1>1. /\ rest \in Seq(Pending) /\ Len(allw) \in Nat \ {0}
      /\ DOMAIN allw = 1 .. Len(allw) /\ DOMAIN rest = 1 .. Len(allw) - 1
      /\ \A j \in 1 .. Len(allw) - 1 : rest[j] = IF j < k THEN allw[j] ELSE allw[j + 1]
  BY RemoveAtAt
<1>2. ASSUME NEW j \in DOMAIN rest
      PROVE  \E o \in DOMAIN allw :
               /\ o # k /\ rest[j] = allw[o] /\ (o < k => o = j) /\ (o > k => o = j + 1)
  <2>1. CASE j < k
    BY <1>1, <2>1
  <2>2. CASE ~(j < k)
    <3>1. j + 1 \in DOMAIN allw /\ j + 1 # k /\ j + 1 > k /\ ~(j + 1 < k)
      BY <1>1, <2>2
    <3> QED BY <1>1, <2>2, <3>1
  <2> QED BY <2>1, <2>2
<1>3. ASSUME NEW o \in DOMAIN allw, o # k
      PROVE  \E j \in DOMAIN rest :
                /\ rest[j] = allw[o] /\ (o < k => j = o) /\ (o > k => j = o - 1)
  <2>1. CASE o < k
    <3>1. o \in DOMAIN rest /\ rest[o] = allw[o] /\ ~(o > k)
      BY <1>1, <2>1
    <3> QED BY <3>1
  <2>2. CASE o > k
    <3>1. o - 1 \in DOMAIN rest /\ ~(o - 1 < k) /\ (o - 1) + 1 = o /\ ~(o < k)
      BY <1>1, <2>2
    <3>2. rest[o - 1] = allw[o]
      BY <1>1, <3>1
    <3> QED BY <3>1, <3>2
  <2> QED BY <1>1, <1>3, <2>1, <2>2
<1> QED
  BY <1>1, <1>2, <1>3 DEF Rest

LEMMA RestOrder ==
  ASSUME NEW allw \in Seq(Pending), NEW i \in Ids(allw), NEW rest,
         rest = RemoveAt(allw, IndexOf(allw, i)), Ascending(allw)
  PROVE  Ascending(rest) /\ Ids(rest) = Ids(allw) \ {i} /\ rest \in Seq(Pending)
<1> DEFINE k == IndexOf(allw, i)
<1>1. k \in DOMAIN allw /\ allw[k].id = i /\ DOMAIN allw = 1 .. Len(allw)
  BY IndexOfAt, LenProperties
<1>2. Rest(allw, k, rest) /\ rest \in Seq(Pending)
  <2>1. Rest(allw, k, rest)
    BY <1>1, RestAt
  <2> QED BY <2>1 DEF Rest
<1> HIDE DEF k
<1>3. DOMAIN rest = 1 .. Len(rest)
  BY <1>2, LenProperties
<1>4. ASSUME NEW j \in DOMAIN rest, NEW m \in DOMAIN rest, j < m PROVE rest[j].id < rest[m].id
  <2>1. PICK a \in DOMAIN allw : a # k /\ rest[j] = allw[a] /\ (a < k => a = j) /\ (a > k => a = j + 1)
    BY <1>2 DEF Rest
  <2>2. PICK b \in DOMAIN allw : b # k /\ rest[m] = allw[b] /\ (b < k => b = m) /\ (b > k => b = m + 1)
    BY <1>2 DEF Rest
  <2>3. a < b
    BY <1>1, <1>3, <1>4, <2>1, <2>2
  <2> QED BY <2>1, <2>2, <2>3 DEF Ascending
<1>5. ASSUME NEW o \in DOMAIN allw, o # k PROVE allw[o].id # i
  <2>1. o < k \/ k < o
    BY <1>1, <1>5
  <2>2. allw[o].id < i \/ i < allw[o].id
    BY <1>1, <2>1 DEF Ascending
  <2>3. allw[o].id \in Int /\ i \in Int
    BY <1>1, PendingAt
  <2> QED BY <2>2, <2>3
<1>6. Ids(rest) \subseteq Ids(allw) \ {i}
  BY <1>2, <1>5 DEF Ids, Rest
<1>7. Ids(allw) \ {i} \subseteq Ids(rest)
  <2> SUFFICES ASSUME NEW o \in DOMAIN allw, allw[o].id # i PROVE allw[o].id \in Ids(rest)
    BY DEF Ids
  <2>1. o # k
    BY <1>1
  <2>2. PICK j \in DOMAIN rest : rest[j] = allw[o]
    BY <1>2, <2>1 DEF Rest
  <2> QED BY <2>2 DEF Ids
<1> QED
  BY <1>2, <1>4, <1>6, <1>7 DEF Ascending

(* What is last after a removal was last before, or stood under the write  *)
(* removed.                                                                *)
LEMMA LastInRest ==
  ASSUME NEW allw \in Seq(Pending), NEW k \in DOMAIN allw, NEW rest, rest = RemoveAt(allw, k),
         NEW l, NEW j, LastAt(rest, l, j), ~LastAt(allw, l, k)
  PROVE  \E o \in DOMAIN allw : o # k /\ rest[j] = allw[o] /\ LastAt(allw, l, o)
<1>1. DOMAIN allw = 1 .. Len(allw)
  BY LenProperties
<1>2. Rest(allw, k, rest)
  BY RestAt
<1>3. DOMAIN rest = 1 .. Len(rest)
  BY <1>2, LenProperties DEF Rest
<1>4. PICK o \in DOMAIN allw : o # k /\ rest[j] = allw[o] /\ (o < k => o = j) /\ (o > k => o = j + 1)
  BY <1>2 DEF LastAt, Rest
<1>5. l \in DOMAIN allw[o].node
  BY <1>4 DEF LastAt
<1>6. ASSUME NEW m \in DOMAIN allw, m # k, m > o PROVE l \notin DOMAIN allw[m].node
  <2>1. PICK n \in DOMAIN rest : rest[n] = allw[m] /\ (m < k => n = m) /\ (m > k => n = m - 1)
    BY <1>2, <1>6 DEF Rest
  <2>2. n > j
    BY <1>1, <1>3, <1>4, <1>6, <2>1 DEF LastAt
  <2> QED BY <2>1, <2>2 DEF LastAt
<1>7. ASSUME k > o, l \in DOMAIN allw[k].node PROVE FALSE
  <2>1. \A m \in DOMAIN allw : m > k => l \notin DOMAIN allw[m].node
    BY <1>1, <1>6, <1>7
  <2> QED BY <1>7, <2>1 DEF LastAt
<1> QED
  BY <1>4, <1>5, <1>6, <1>7 DEF LastAt

(* The three ways to remove the k-th write. *)
Removed(allw, writes, k, rest, new) ==
  /\ new.allWrites = rest
  /\ new.visible =
       ~(\E j \in DOMAIN allw : j > k /\ DOMAIN allw[k].node \subseteq DOMAIN allw[j].node)
  /\ \/ /\ \E j \in DOMAIN allw : j > k /\ DOMAIN allw[k].node \subseteq DOMAIN allw[j].node
        /\ new.visibleWrites = writes
     \/ new.visibleWrites = Layer(rest)
     \/ /\ \A j \in DOMAIN allw : j # k => ~(DOMAIN allw[j].node \subseteq DOMAIN allw[k].node)
        /\ new.visibleWrites = {w \in writes : ~(DOMAIN w \subseteq DOMAIN allw[k].node)}

LEMMA RemoveCases ==
  ASSUME NEW allw, NEW writes, NEW i, NEW k, k = IndexOf(allw, i), NEW rest, rest = RemoveAt(allw, k)
  PROVE  Removed(allw, writes, k, rest, RemoveWriteId(allw, writes, i))
<1>1. PathOf(allw, i) = DOMAIN allw[k].node
  BY DEF PathOf, WriteOf
<1>2. Shadowed(allw, i) <=> \E j \in DOMAIN allw : j > k /\ DOMAIN allw[k].node \subseteq DOMAIN allw[j].node
  BY <1>1 DEF Shadowed
<1>3. Overlaps(allw, i) <=> \E j \in DOMAIN allw : j # k /\ DOMAIN allw[j].node \subseteq DOMAIN allw[k].node
  BY <1>1 DEF Overlaps
<1>4. RemoveWriteId(allw, writes, i) =
        [allWrites |-> rest,
         visibleWrites |->
           IF Shadowed(allw, i) THEN writes
           ELSE IF Overlaps(allw, i) THEN Layer(rest)
           ELSE {w \in writes : ~(DOMAIN w \subseteq DOMAIN allw[k].node)},
         visible |-> ~Shadowed(allw, i)]
  BY <1>1 DEF RemoveWriteId, RemoveWriteAtPath
<1>5. CASE Shadowed(allw, i)
  BY <1>2, <1>4, <1>5 DEF Removed
<1>6. CASE ~Shadowed(allw, i) /\ Overlaps(allw, i)
  BY <1>2, <1>4, <1>6 DEF Removed
<1>7. CASE ~Shadowed(allw, i) /\ ~Overlaps(allw, i)
  BY <1>2, <1>3, <1>4, <1>7 DEF Removed
<1> QED
  BY <1>5, <1>6, <1>7

LEMMA RemoveCompound ==
  ASSUME NEW allw \in Seq(Pending), NEW writes, Compound(writes), NEW i \in Ids(allw)
  PROVE  Compound(RemoveWriteId(allw, writes, i).visibleWrites)
<1> DEFINE k == IndexOf(allw, i)
           rest == RemoveAt(allw, k)
           new == RemoveWriteId(allw, writes, i).visibleWrites
<1>1. k \in DOMAIN allw
  BY IndexOfAt
<1>2. Compound(Layer(rest))
  BY <1>1, RestAt, LayerIsLayered DEF LayeredBut, Rest
<1>3. \/ new = writes
      \/ new = Layer(rest)
      \/ new = {w \in writes : ~(DOMAIN w \subseteq DOMAIN allw[k].node)}
  BY RemoveCases DEF Removed
<1>4. ASSUME new = {w \in writes : ~(DOMAIN w \subseteq DOMAIN allw[k].node)} PROVE Compound(new)
  <2> HIDE DEF new, k, rest
  <2>1. \A w \in new : w \in writes
    BY <1>4
  <2> QED BY <2>1 DEF Compound
<1>5. Compound(new)
  <2> HIDE DEF new, k, rest
  <2> QED BY <1>2, <1>3, <1>4
<1> QED
  BY <1>5

(* removeWriteId: the writes stay layered but for the leaves that were, or *)
(* that were shown with the write removed and have an earlier one.         *)
LEMMA LayeredRemove ==
  ASSUME NEW allw \in Seq(Pending), NEW writes, NEW except, LayeredBut(writes, allw, except),
         NEW i \in Ids(allw), NEW k, k = IndexOf(allw, i), NEW rest, rest = RemoveAt(allw, k),
         NEW more,
         \A l, j : LastAt(rest, l, j) /\ l \notin more => l \notin except /\ ~LastAt(allw, l, k)
  PROVE  LayeredBut(RemoveWriteId(allw, writes, i).visibleWrites, rest, more)
<1> DEFINE new == RemoveWriteId(allw, writes, i).visibleWrites
           P == DOMAIN allw[k].node
<1>1. k \in DOMAIN allw /\ DOMAIN allw = 1 .. Len(allw)
  BY IndexOfAt, LenProperties
<1>2. Compound(writes) /\ Compound(new)
  BY RemoveCompound DEF LayeredBut
<1>3. /\ rest \in Seq(Pending)
      /\ \A j \in DOMAIN rest : \E o \in DOMAIN allw : o # k /\ rest[j] = allw[o]
      /\ \A o \in DOMAIN allw : o # k => \E j \in DOMAIN rest : rest[j] = allw[o]
  <2>1. Rest(allw, k, rest)
    BY <1>1, RestAt
  <2> QED BY <2>1 DEF Rest
<1>4. ASSUME NEW w \in writes, NEW l \in DOMAIN w \ more, NEW j \in DOMAIN rest, LastAt(rest, l, j)
      PROVE  w[l] = rest[j].node[l]
  <2>1. l \notin except /\ ~LastAt(allw, l, k)
    BY <1>4
  <2>2. PICK o \in DOMAIN allw : rest[j] = allw[o] /\ LastAt(allw, l, o)
    BY <1>1, <1>4, <2>1, LastInRest
  <2>3. w[l] = allw[o].node[l]
    BY <1>4, <2>1, <2>2 DEF LayeredBut
  <2> QED BY <2>2, <2>3
<1>5. CASE new = Layer(rest)
  BY <1>3, <1>5, LayerIsLayered, LayeredMore
<1>6. CASE new = writes /\ \E j \in DOMAIN allw : j > k /\ P \subseteq DOMAIN allw[j].node
  <2> HIDE DEF new, P
  <2>1. ASSUME NEW w \in writes PROVE \E j \in DOMAIN rest : DOMAIN w = DOMAIN rest[j].node
    <3>1. PICK o \in DOMAIN allw : DOMAIN w = DOMAIN allw[o].node
      BY DEF LayeredBut
    <3>2. CASE o # k
      BY <1>3, <3>1, <3>2
    <3>3. CASE o = k
      <4>1. PICK j \in DOMAIN allw : j > k /\ P \subseteq DOMAIN allw[j].node
        BY <1>6
      <4>2. PICK v \in writes : DOMAIN allw[j].node \subseteq DOMAIN v
        BY DEF LayeredBut
      <4>3. DOMAIN w # {} /\ DOMAIN w = P
        BY <1>2, <3>1, <3>3, CompoundNodes, WriteNodeFacts DEF P
      <4>4. v = w
        BY <1>2, <4>1, <4>2, <4>3 DEF Compound
      <4>5. DOMAIN allw[j].node = DOMAIN w
        BY <4>1, <4>2, <4>3, <4>4
      <4>6. j # k
        BY <1>1, <4>1
      <4>7. PICK n \in DOMAIN rest : rest[n] = allw[j]
        BY <1>3, <4>6
      <4> QED BY <4>5, <4>7
    <3> QED BY <3>2, <3>3
  <2>2. ASSUME NEW j \in DOMAIN rest PROVE \E w \in writes : DOMAIN rest[j].node \subseteq DOMAIN w
    BY <1>3 DEF LayeredBut
  <2>3. \A w \in writes : \A l \in DOMAIN w \ more : \A j \in DOMAIN rest :
          LastAt(rest, l, j) => w[l] = rest[j].node[l]
    BY <1>4
  <2>4. LayeredBut(writes, rest, more)
    BY <1>2, <2>1, <2>2, <2>3 DEF LayeredBut
  <2>5. new = writes
    BY <1>6
  <2> QED BY <2>4, <2>5 DEF new
<1>7. CASE /\ new = {w \in writes : ~(DOMAIN w \subseteq P)}
           /\ \A j \in DOMAIN allw : j # k => ~(DOMAIN allw[j].node \subseteq P)
  <2> HIDE DEF new
  <2>1. ASSUME NEW w \in new PROVE \E j \in DOMAIN rest : DOMAIN w = DOMAIN rest[j].node
    <3>1. PICK o \in DOMAIN allw : DOMAIN w = DOMAIN allw[o].node
      BY <1>7, <2>1 DEF LayeredBut
    <3>2. o # k
      BY <1>7, <2>1, <3>1
    <3> QED BY <1>3, <3>1, <3>2
  <2> HIDE DEF P
  <2>2. ASSUME NEW j \in DOMAIN rest PROVE \E w \in new : DOMAIN rest[j].node \subseteq DOMAIN w
    <3>1. PICK o \in DOMAIN allw : o # k /\ rest[j] = allw[o]
      BY <1>3
    <3>2. PICK w \in writes : DOMAIN rest[j].node \subseteq DOMAIN w
      BY <3>1 DEF LayeredBut
    <3>3. ~(DOMAIN w \subseteq P)
      BY <1>7, <3>1, <3>2
    <3> QED BY <1>7, <3>2, <3>3
  <2>3. \A w \in new : w \in writes
    BY <1>7
  <2> QED BY <1>2, <1>4, <2>1, <2>2, <2>3 DEF LayeredBut, new
<1>8. \/ new = Layer(rest)
      \/ new = writes /\ \E j \in DOMAIN allw : j > k /\ P \subseteq DOMAIN allw[j].node
      \/ /\ new = {w \in writes : ~(DOMAIN w \subseteq P)}
         /\ \A j \in DOMAIN allw : j # k => ~(DOMAIN allw[j].node \subseteq P)
  BY RemoveCases DEF Removed
<1> QED
  BY <1>5, <1>6, <1>7, <1>8

-----------------------------------------------------------------------------
(* The tree *)

Trees ==
  [allWrites : Seq(Pending), visibleWrites : SUBSET WriteNodes,
   regs : [ViewPaths -> SUBSET Kinds], views : [ViewPaths -> UNION {ViewOf(p) : p \in ViewPaths}],
   raised : [ViewPaths -> (UNION {Node(p) : p \in ViewPaths}) \cup {None}], fired : SUBSET ViewPaths]

WellFormed(t) ==
  /\ t \in Trees
  /\ Ascending(t.allWrites) /\ Compound(t.visibleWrites)
  /\ \A p \in ViewPaths : t.views[p] \in ViewOf(p) /\ t.raised[p] \in Node(p) \cup {None}
  /\ \A p \in t.fired : "once" \in t.regs[p]

(* A view that knows all the server has, or is hidden by a write, is shown *)
(* whole; a view that is full has only full views below it.                *)
Filled(t) ==
  /\ \A p \in Viewed(t.regs) :
       t.views[p].serverFull \/ HasCompleteWrite(t.visibleWrites, p) => t.views[p].eventFull
  /\ \A p, q \in Viewed(t.regs) :
       p \subseteq q /\ t.views[q].serverFull => t.views[p].serverFull

(* Observers were told what is shown. *)
Told(t) ==
  \A p \in Viewed(t.regs) : t.views[p].eventFull => t.raised[p] = t.views[p].event

(* What is shown is the server's node under the pending writes, but for    *)
(* the leaves in except.                                                   *)
FaithfulBut(t, except) ==
  \A p \in Viewed(t.regs) : t.views[p].eventFull =>
    \A l \in p \ except : t.views[p].event[l] = Shown(t.visibleWrites, l, t.views[p].server[l])

Sound(t) == WellFormed(t) /\ Filled(t) /\ Told(t)

(* Every view knows all the server has. *)
AllFull(t) == \A p \in Viewed(t.regs) : t.views[p].serverFull

LEMMA TreeFields ==
  ASSUME NEW t, WellFormed(t)
  PROVE  /\ t.allWrites \in Seq(Pending) /\ t.visibleWrites \in SUBSET WriteNodes
         /\ t.visibleWrites \in SUBSET Nodes
         /\ t.regs \in [ViewPaths -> SUBSET Kinds]
         /\ DOMAIN t.views = ViewPaths /\ DOMAIN t.raised = ViewPaths
         /\ t.fired \in SUBSET ViewPaths
         /\ \A p \in ViewPaths : t.views[p] \in ViewOf(p)
  BY CompoundNodes DEF WellFormed, Trees

LEMMA ViewedPath ==
  ASSUME NEW rs, NEW p \in Viewed(rs)
  PROVE  p \in ViewPaths /\ p \in Paths /\ p # {}
  BY PathFacts DEF Viewed

(* The views an operation at q reaches, and those it does not. *)
LEMMA ReachedPath ==
  ASSUME NEW t, NEW q \in Paths, NEW p \in Viewed(t.regs)
  PROVE  /\ p \in Reached(t, q) => p \cap q \in Paths /\ p \cap q \subseteq p /\ p \cap q \subseteq q
         /\ p \notin Reached(t, q) => p \cap q = {}
  BY ViewedPath, CommonPath, PathFacts DEF Reached

LEMMA UnreachedLeaf ==
  ASSUME NEW t, NEW q \in Paths, NEW p \in Viewed(t.regs), p \notin Reached(t, q), NEW l \in p
  PROVE  l \notin q
  BY ReachedPath

(* The effect of an operation on the views. *)
Effect(s, u, processed) ==
  /\ WellFormed(u)
  /\ u.allWrites = s.allWrites /\ u.visibleWrites = s.visibleWrites /\ u.regs = s.regs
  /\ \A p \in ViewPaths :
       u.views[p] = IF p \in DOMAIN processed THEN processed[p] ELSE s.views[p]
  /\ Told(s) => Told(u)

LEMMA AppliedEffect ==
  ASSUME NEW s, WellFormed(s), NEW processed,
         \A p \in DOMAIN processed : p \in Viewed(s.regs) /\ processed[p] \in ViewOf(p),
         NEW u, u = Applied(s, processed)
  PROVE  Effect(s, u, processed)
<1> DEFINE R == DOMAIN processed
           raising == {p \in R : RaisesValue(s.views[p], processed[p])}
           vs == [p \in ViewPaths |-> IF p \in R THEN processed[p] ELSE s.views[p]]
           rd == [p \in ViewPaths |-> IF p \in raising THEN processed[p].event ELSE s.raised[p]]
           fd == s.fired \cup {p \in raising : "once" \in s.regs[p]}
<1>1. u = [s EXCEPT !.views = vs, !.raised = rd, !.fired = fd]
  BY DEF Applied
<1>2. \A p \in R : p \in ViewPaths
  BY DEF Viewed
<1>3. \A p \in ViewPaths : vs[p] \in ViewOf(p) /\ rd[p] \in Node(p) \cup {None}
  BY DEF WellFormed, ViewOf
<1>4. vs \in [ViewPaths -> UNION {ViewOf(p) : p \in ViewPaths}]
  BY <1>3
<1>5. rd \in [ViewPaths -> (UNION {Node(p) : p \in ViewPaths}) \cup {None}]
  <2> DEFINE T == (UNION {Node(p) : p \in ViewPaths}) \cup {None}
  <2>1. ASSUME NEW p \in ViewPaths PROVE rd[p] \in T
    <3>1. rd[p] \in Node(p) \/ rd[p] = None
      <4> HIDE DEF rd
      <4> QED BY <1>3
    <3> HIDE DEF rd
    <3>2. CASE rd[p] = None
      BY <3>2
    <3>3. CASE rd[p] \in Node(p)
      <4>1. Node(p) \in {Node(x) : x \in ViewPaths}
        OBVIOUS
      <4> QED BY <3>3, <4>1
    <3> QED BY <3>1, <3>2, <3>3
  <2>2. rd = [p \in ViewPaths |-> rd[p]]
    OBVIOUS
  <2> HIDE DEF T, rd
  <2>3. rd \in [ViewPaths -> T]
    BY <2>1, <2>2
  <2> QED BY <2>3 DEF T
<1>6. fd \in SUBSET ViewPaths /\ \A p \in fd : "once" \in s.regs[p]
  BY <1>2 DEF WellFormed, Trees
<1>7. \A p \in ViewPaths : vs[p] = IF p \in R THEN processed[p] ELSE s.views[p]
  OBVIOUS
<1>8. \A p \in ViewPaths : rd[p] = IF p \in raising THEN processed[p].event ELSE s.raised[p]
  OBVIOUS
<1> HIDE DEF vs, rd, fd
<1>9. /\ u \in Trees /\ u.allWrites = s.allWrites /\ u.visibleWrites = s.visibleWrites
      /\ u.regs = s.regs /\ u.views = vs /\ u.raised = rd /\ u.fired = fd
  BY <1>1, <1>4, <1>5, <1>6 DEF WellFormed, Trees
<1>10. WellFormed(u)
  BY <1>3, <1>6, <1>9 DEF WellFormed
<1>11. ASSUME Told(s), NEW p \in Viewed(u.regs), u.views[p].eventFull
       PROVE  u.raised[p] = u.views[p].event
  <2>1. p \in ViewPaths /\ p \in Viewed(s.regs)
    BY <1>9, <1>11 DEF Viewed
  <2>2. CASE p \in raising
    BY <1>7, <1>8, <1>9, <2>1, <2>2
  <2>3. CASE p \in R /\ p \notin raising
    <3>1. vs[p] = processed[p] /\ rd[p] = s.raised[p]
      BY <1>7, <1>8, <2>1, <2>3
    <3>2. processed[p].eventFull
      BY <1>9, <1>11, <3>1
    <3>3. s.views[p].eventFull /\ processed[p].event = s.views[p].event
      BY <2>3, <3>2 DEF RaisesValue
    <3> QED BY <1>9, <1>11, <2>1, <3>1, <3>3 DEF Told
  <2>4. CASE p \notin R
    BY <1>7, <1>8, <1>9, <1>11, <2>1, <2>4 DEF Told
  <2> QED BY <2>2, <2>3, <2>4
<1> QED
  BY <1>7, <1>9, <1>10, <1>11 DEF Effect, Told

(* What complete views above p know there. *)
LEMMA CacheType ==
  ASSUME NEW t, WellFormed(t), NEW p, NEW n \in CompleteServerCache(t, p)
  PROVE  n \in Node(p)
<1>1. PICK q \in Viewed(t.regs) : p \subseteq q /\ n = Child(t.views[q].server, p)
  BY DEF CompleteServerCache
<1>2. t.views[q].server \in Node(q)
  BY ViewedPath DEF WellFormed, ViewOf
<1>3. p \in SUBSET q
  BY <1>1
<1> QED
  BY <1>1, <1>2, <1>3, ChildType

(* FRepo's set: the write is pending and shown. *)
WrittenTree(t, u, i, node) ==
  /\ Sound(u)
  /\ u.allWrites = Append(t.allWrites, [id |-> i, node |-> node])
  /\ u.visibleWrites = AddWrite(t.visibleWrites, node)
  /\ u.regs = t.regs
  /\ \A p \in ViewPaths : u.views[p].serverFull = t.views[p].serverFull
  /\ FaithfulBut(t, {}) => FaithfulBut(u, {})

LEMMA UserOverwriteTree ==
  ASSUME NEW t, Sound(t), NEW i \in 1 .. LastPut, \A j \in Ids(t.allWrites) : j < i,
         NEW node \in WriteNodes, NEW u, u = ApplyUserOverwrite(t, i, node)
  PROVE  WrittenTree(t, u, i, node)
<1> DEFINE q == DOMAIN node
           record == [id |-> i, node |-> node]
           more == Append(t.allWrites, record)
           new == AddWrite(t.visibleWrites, node)
           s == [t EXCEPT !.allWrites = more, !.visibleWrites = new]
           snap(p) == Child(node, p \cap q)
           view(p) == UserOverwrite(s.views[p], snap(p), s.visibleWrites,
                                    CompleteServerCache(s, PathOfView(s.views[p])))
           processed == [p \in Reached(s, q) |-> view(p)]
<1>1. u = Applied(s, processed)
  BY DEF ApplyUserOverwrite
<1>2. WellFormed(t)
  BY DEF Sound
<1>3. /\ node \in Nodes /\ q \in Paths /\ q # {} /\ node \in Node(q)
  BY WriteNodeFacts
<1>4. record \in Pending /\ t.allWrites \in Seq(Pending)
  BY <1>2 DEF Pending, WellFormed, Trees
<1>5. /\ more \in Seq(Pending) /\ DOMAIN more = 1 .. Len(t.allWrites) + 1
      /\ Len(t.allWrites) \in Nat /\ DOMAIN t.allWrites = 1 .. Len(t.allWrites)
      /\ \A k \in 1 .. Len(t.allWrites) : more[k] = t.allWrites[k]
      /\ more[Len(t.allWrites) + 1] = record
  BY <1>4, AppendAt
<1>6. Ascending(more)
  <2> SUFFICES ASSUME NEW j \in DOMAIN more, NEW k \in DOMAIN more, j < k
               PROVE  more[j].id < more[k].id
    BY DEF Ascending
  <2> HIDE DEF more
  <2>1. j \in DOMAIN t.allWrites /\ more[j] = t.allWrites[j]
    BY <1>5
  <2>2. CASE k \in DOMAIN t.allWrites
    BY <1>2, <1>5, <2>1, <2>2 DEF WellFormed, Ascending
  <2>3. CASE k = Len(t.allWrites) + 1
    <3>1. t.allWrites[j].id \in Ids(t.allWrites)
      BY <2>1 DEF Ids
    <3> QED BY <1>5, <2>1, <2>3, <3>1
  <2> QED BY <1>5, <2>2, <2>3
<1>7. Compound(new) /\ Compound(t.visibleWrites)
  BY <1>2, AddWriteCompound DEF WellFormed
<1> HIDE DEF more, new, record
<1>8. /\ s \in Trees /\ s.allWrites = more /\ s.visibleWrites = new /\ s.regs = t.regs
      /\ s.views = t.views /\ s.raised = t.raised /\ s.fired = t.fired
  BY <1>2, <1>5, <1>7 DEF WellFormed, Trees, Compound
<1> HIDE DEF s
<1>9. WellFormed(s) /\ Told(s)
  BY <1>2, <1>6, <1>7, <1>8 DEF WellFormed, Told, Sound
<1>10. ASSUME NEW p \in Reached(s, q)
       PROVE  /\ p \in Viewed(s.regs) /\ p \in ViewPaths
              /\ Wrote(t.views[p], processed[p], p, p \cap q, snap(p))
              /\ processed[p] \in ViewOf(p)
              /\ \A l \in p \cap q : snap(p)[l] = node[l]
  <2>1. p \in Viewed(s.regs) /\ p \in ViewPaths /\ p \in Paths
    BY <1>10, ViewedPath DEF Reached
  <2>2. p \cap q \in Paths /\ p \cap q \subseteq p /\ p \cap q \subseteq q
    BY <1>3, <1>10, <2>1, ReachedPath
  <2>3. snap(p) \in Node(p \cap q) /\ \A l \in p \cap q : snap(p)[l] = node[l]
    BY <1>3, <2>2, ChildType
  <2>4. s.views[p] \in ViewOf(p) /\ s.views[p] = t.views[p]
    BY <1>8, <1>9, <2>1 DEF WellFormed
  <2>5. PathOfView(s.views[p]) = p
    BY <2>4 DEF PathOfView, ViewOf, Node
  <2> DEFINE known == CompleteServerCache(s, p)
  <2>6. \A n \in known : n \in Node(p)
    BY <1>9, CacheType
  <2>7. s.visibleWrites \in SUBSET Nodes
    BY <1>9, TreeFields
  <2>8. processed[p] = UserOverwrite(s.views[p], snap(p), s.visibleWrites, known)
    BY <2>5
  <2> HIDE DEF known, processed, snap
  <2>9. Wrote(s.views[p], processed[p], p, p \cap q, snap(p))
    BY <2>1, <2>2, <2>3, <2>4, <2>6, <2>7, <2>8, UserOverwriteView
  <2> QED BY <2>1, <2>3, <2>4, <2>9 DEF Wrote
<1>11. DOMAIN processed = Reached(s, q)
  OBVIOUS
<1> HIDE DEF processed, snap
<1>12. Effect(s, u, processed)
  BY <1>1, <1>9, <1>10, <1>11, AppliedEffect
<1>13. ASSUME NEW p \in ViewPaths PROVE u.views[p].serverFull = t.views[p].serverFull
  BY <1>8, <1>10, <1>11, <1>12 DEF Effect, Wrote
<1>14. ASSUME NEW p \in Viewed(u.regs)
       PROVE  /\ p \in Viewed(t.regs) /\ p \in ViewPaths
              /\ t.views[p].eventFull => u.views[p].eventFull
              /\ HasCompleteWrite(new, p) => u.views[p].eventFull
  <2>1. p \in Viewed(t.regs) /\ p \in ViewPaths /\ p \in Viewed(s.regs)
    BY <1>8, <1>12 DEF Effect, Viewed
  <2>2. t.views[p].eventFull => u.views[p].eventFull
    <3>1. CASE p \in Reached(s, q)
      <4>1. u.views[p] = processed[p] /\ Wrote(t.views[p], u.views[p], p, p \cap q, snap(p))
        BY <1>10, <1>11, <1>12, <2>1, <3>1 DEF Effect
      <4> QED BY <4>1 DEF Wrote
    <3>2. CASE p \notin Reached(s, q)
      BY <1>8, <1>11, <1>12, <2>1, <3>2 DEF Effect
    <3> QED BY <3>1, <3>2
  <2>3. ASSUME p \subseteq q PROVE u.views[p].eventFull
    <3>1. p \in Reached(s, q) /\ p \cap q = p
      BY <2>1, <2>3 DEF Reached
    <3> QED BY <1>10, <1>11, <1>12, <2>1, <3>1 DEF Effect, Wrote
  <2>4. HasCompleteWrite(new, p) => p \subseteq q \/ HasCompleteWrite(t.visibleWrites, p)
    BY <1>7, AddWriteComplete DEF new
  <2> QED BY <2>1, <2>2, <2>3, <2>4 DEF Sound, Filled
<1>15. Filled(u)
  <2>1. u.visibleWrites = new /\ u.regs = t.regs
    BY <1>8, <1>12 DEF Effect
  <2> QED BY <1>13, <1>14, <2>1 DEF Filled, Sound
<1>16. ASSUME FaithfulBut(t, {}), NEW p \in Viewed(u.regs), u.views[p].eventFull, NEW l \in p
       PROVE  u.views[p].event[l] = Shown(new, l, u.views[p].server[l])
  <2>1. p \in Viewed(t.regs) /\ p \in ViewPaths /\ p \in Viewed(s.regs)
    BY <1>8, <1>12, <1>14, <1>16 DEF Effect
  <2>2. ASSUME NEW v PROVE Shown(new, l, v) = IF l \in q THEN node[l] ELSE Shown(t.visibleWrites, l, v)
    BY <1>7, AddWriteShown DEF new
  <2>3. t.views[p].eventFull => t.views[p].event[l] = Shown(t.visibleWrites, l, t.views[p].server[l])
    BY <1>16, <2>1 DEF FaithfulBut
  <2>4. CASE p \in Reached(s, q)
    <3>1. u.views[p] = processed[p] /\ Wrote(t.views[p], u.views[p], p, p \cap q, snap(p))
          /\ \A k \in p \cap q : snap(p)[k] = node[k]
      BY <1>10, <1>11, <1>12, <2>1, <2>4 DEF Effect
    <3>2. u.views[p].server = t.views[p].server /\ (t.views[p].eventFull \/ p \cap q = p)
          /\ u.views[p].event[l] = IF l \in p \cap q THEN snap(p)[l] ELSE t.views[p].event[l]
      BY <1>16, <3>1 DEF Wrote
    <3>3. CASE l \in q
      BY <2>2, <3>1, <3>2, <3>3
    <3>4. CASE l \notin q
      <4>1. t.views[p].eventFull /\ u.views[p].event[l] = t.views[p].event[l]
        BY <3>2, <3>4
      <4> QED BY <2>2, <2>3, <3>2, <3>4, <4>1
    <3> QED BY <3>3, <3>4
  <2>5. CASE p \notin Reached(s, q)
    <3>1. l \notin q
      BY <1>3, <1>16, <2>1, <2>5, UnreachedLeaf
    <3>2. u.views[p] = t.views[p]
      BY <1>8, <1>11, <1>12, <2>1, <2>5 DEF Effect
    <3> QED BY <1>16, <2>2, <2>3, <3>1, <3>2
  <2> QED BY <2>4, <2>5
<1>17. /\ u.allWrites = more /\ u.visibleWrites = new /\ u.regs = t.regs /\ WellFormed(u) /\ Told(u)
  BY <1>8, <1>9, <1>12 DEF Effect
<1>18. FaithfulBut(t, {}) => FaithfulBut(u, {})
  BY <1>16, <1>17 DEF FaithfulBut
<1> QED
  BY <1>13, <1>15, <1>17, <1>18 DEF WrittenTree, Sound, more, record, new

(* An operation at q that tells a view what the server has. *)
Fills(view, new, p, q, writes) ==
  /\ new \in ViewOf(p)
  /\ new.serverFull = (view.serverFull \/ q = p)
  /\ view.eventFull => new.eventFull
  /\ q = p => new.eventFull \/ HasCompleteWrite(writes, p)
  /\ Faithful(view, p, writes) => Faithful(new, p, writes)

FilledFrom(t, u, q) ==
  /\ Sound(u)
  /\ u.allWrites = t.allWrites /\ u.visibleWrites = t.visibleWrites /\ u.regs = t.regs
  /\ \A p \in Viewed(t.regs) : u.views[p].serverFull = (t.views[p].serverFull \/ p \subseteq q)
  /\ FaithfulBut(t, {}) => FaithfulBut(u, {})

LEMMA FillTree ==
  ASSUME NEW t, Sound(t), NEW q \in Paths, NEW processed, DOMAIN processed = Reached(t, q),
         \A p \in Reached(t, q) : Fills(t.views[p], processed[p], p, p \cap q, t.visibleWrites),
         NEW u, u = Applied(t, processed)
  PROVE  FilledFrom(t, u, q)
<1>1. WellFormed(t) /\ Told(t) /\ Filled(t)
  BY DEF Sound
<1>2. ASSUME NEW p \in DOMAIN processed PROVE p \in Viewed(t.regs) /\ processed[p] \in ViewOf(p)
  BY <1>2 DEF Reached, Fills
<1>3. Effect(t, u, processed)
  BY <1>1, <1>2, AppliedEffect
<1>4. /\ WellFormed(u) /\ Told(u)
      /\ u.allWrites = t.allWrites /\ u.visibleWrites = t.visibleWrites /\ u.regs = t.regs
  BY <1>1, <1>3 DEF Effect
<1>5. ASSUME NEW p \in Viewed(t.regs), p \in Reached(t, q)
      PROVE  Fills(t.views[p], u.views[p], p, p \cap q, t.visibleWrites)
  BY <1>3, <1>5, ViewedPath DEF Effect
<1>6. ASSUME NEW p \in Viewed(t.regs), p \notin Reached(t, q)
      PROVE  u.views[p] = t.views[p] /\ ~(p \subseteq q)
  BY <1>3, <1>6, ViewedPath DEF Effect, Reached
<1>7. ASSUME NEW p \in Viewed(t.regs)
      PROVE  u.views[p].serverFull = (t.views[p].serverFull \/ p \subseteq q)
  <2>1. CASE p \in Reached(t, q)
    <3>1. p \cap q = p <=> p \subseteq q
      OBVIOUS
    <3> QED BY <1>5, <2>1, <3>1 DEF Fills
  <2>2. CASE p \notin Reached(t, q)
    <3>1. t.views[p].serverFull \in BOOLEAN
      BY <1>1, ViewedPath DEF WellFormed, ViewOf
    <3> QED BY <1>6, <2>2, <3>1
  <2> QED BY <2>1, <2>2
<1>8. ASSUME NEW p \in Viewed(t.regs), u.views[p].serverFull \/ HasCompleteWrite(t.visibleWrites, p)
      PROVE  u.views[p].eventFull
  <2>1. t.views[p].serverFull \/ HasCompleteWrite(t.visibleWrites, p) => t.views[p].eventFull
    BY <1>1 DEF Filled
  <2>2. CASE p \in Reached(t, q)
    <3>1. p \cap q = p <=> p \subseteq q
      OBVIOUS
    <3> QED BY <1>5, <1>7, <1>8, <2>1, <2>2, <3>1 DEF Fills
  <2>3. CASE p \notin Reached(t, q)
    BY <1>6, <1>8, <2>1, <2>3
  <2> QED BY <2>2, <2>3
<1>9. ASSUME NEW p \in Viewed(t.regs), NEW r \in Viewed(t.regs), p \subseteq r, u.views[r].serverFull
      PROVE  u.views[p].serverFull
  BY <1>1, <1>7, <1>9 DEF Filled
<1>10. Filled(u)
  BY <1>4, <1>8, <1>9 DEF Filled
<1>11. ASSUME FaithfulBut(t, {}), NEW p \in Viewed(t.regs)
       PROVE  Faithful(u.views[p], p, t.visibleWrites)
  <2>1. Faithful(t.views[p], p, t.visibleWrites)
    BY <1>11 DEF FaithfulBut, Faithful
  <2> QED BY <1>5, <1>6, <2>1 DEF Fills
<1>12. FaithfulBut(t, {}) => FaithfulBut(u, {})
  BY <1>4, <1>11 DEF FaithfulBut, Faithful
<1> QED
  BY <1>4, <1>7, <1>10, <1>12 DEF FilledFrom, Sound

LEMMA ServerOverwriteTree ==
  ASSUME NEW t, Sound(t), NEW node \in Nodes, NEW u, u = ApplyServerOverwrite(t, node)
  PROVE  FilledFrom(t, u, DOMAIN node)
<1> DEFINE q == DOMAIN node
           snap(p) == Child(node, p \cap q)
           processed == [p \in Reached(t, q) |-> ServerOverwrite(t.views[p], snap(p), t.visibleWrites)]
<1>1. u = Applied(t, processed) /\ DOMAIN processed = Reached(t, q)
  BY DEF ApplyServerOverwrite
<1>2. q \in Paths /\ node \in Node(q)
  BY NodeFacts
<1>3. ASSUME NEW p \in Reached(t, q)
      PROVE  Fills(t.views[p], processed[p], p, p \cap q, t.visibleWrites)
  <2>1. p \in Viewed(t.regs) /\ p \in ViewPaths /\ p \in Paths
    BY <1>3, ViewedPath DEF Reached
  <2>2. p \cap q \in Paths /\ p \cap q \subseteq p /\ p \cap q \subseteq q
    BY <1>2, <1>3, <2>1, ReachedPath
  <2>3. snap(p) \in Node(p \cap q)
    BY <1>2, <2>2, ChildType
  <2>4. t.views[p] \in ViewOf(p) /\ t.visibleWrites \in SUBSET Nodes
    BY <2>1, TreeFields DEF Sound
  <2>5. processed[p] = ServerOverwrite(t.views[p], snap(p), t.visibleWrites)
    OBVIOUS
  <2> HIDE DEF processed, snap
  <2>6. /\ TookIn(t.views[p], processed[p], p, p \cap q, snap(p))
        /\ p \cap q = p => processed[p].eventFull \/ HasCompleteWrite(t.visibleWrites, p)
        /\ Faithful(t.views[p], p, t.visibleWrites) => Faithful(processed[p], p, t.visibleWrites)
    BY <2>1, <2>2, <2>3, <2>4, <2>5, ServerOverwriteView
  <2> QED BY <2>6 DEF TookIn, Fills
<1> HIDE DEF processed, q
<1>4. FilledFrom(t, u, q)
  BY <1>1, <1>2, <1>3, FillTree
<1> QED
  BY <1>4 DEF q

LEMMA ListenCompleteTree ==
  ASSUME NEW t, Sound(t), NEW q \in Paths, NEW u, u = ApplyListenComplete(t, q)
  PROVE  FilledFrom(t, u, q)
<1> DEFINE processed == [p \in Reached(t, q) |-> ListenComplete(t.views[p], p \cap q, t.visibleWrites)]
<1>1. u = Applied(t, processed) /\ DOMAIN processed = Reached(t, q)
  BY DEF ApplyListenComplete
<1>3. ASSUME NEW p \in Reached(t, q)
      PROVE  Fills(t.views[p], processed[p], p, p \cap q, t.visibleWrites)
  <2>1. p \in Viewed(t.regs) /\ p \in ViewPaths /\ p \in Paths
    BY <1>3, ViewedPath DEF Reached
  <2>2. p \cap q \in Paths /\ p \cap q \subseteq p /\ p \cap q \subseteq q
    BY <1>3, <2>1, ReachedPath
  <2>4. t.views[p] \in ViewOf(p) /\ t.visibleWrites \in SUBSET Nodes
    BY <2>1, TreeFields DEF Sound
  <2>5. processed[p] = ListenComplete(t.views[p], p \cap q, t.visibleWrites)
    OBVIOUS
  <2> HIDE DEF processed
  <2>6. /\ Completed(t.views[p], processed[p], p, p \cap q)
        /\ p \cap q = p => processed[p].eventFull \/ HasCompleteWrite(t.visibleWrites, p)
        /\ Faithful(t.views[p], p, t.visibleWrites) => Faithful(processed[p], p, t.visibleWrites)
    BY <2>1, <2>2, <2>4, <2>5, ListenCompleteView
  <2> QED BY <2>6 DEF Completed, Fills
<1> HIDE DEF processed
<1> QED
  BY <1>1, <1>3, FillTree

(* The write i is answered: it is pending no more, and where it was shown  *)
(* the server's node is, unless another write hides it.                    *)
AckedTree(t, u, i) ==
  /\ Sound(u) /\ AllFull(u)
  /\ u.regs = t.regs
  /\ u.allWrites = RemoveAt(t.allWrites, IndexOf(t.allWrites, i))
  /\ u.visibleWrites = RemoveWriteId(t.allWrites, t.visibleWrites, i).visibleWrites
  /\ Ids(u.allWrites) = Ids(t.allWrites) \ {i}
  /\ \A p \in Viewed(t.regs) :
       /\ u.views[p].server = t.views[p].server
       /\ \A l \in p :
            \/ u.views[p].event[l] = Shown(u.visibleWrites, l, u.views[p].server[l])
            \/ /\ u.views[p].event[l] = t.views[p].event[l]
               /\ \/ l \notin PathOf(t.allWrites, i)
                  \/ ~RemoveWriteId(t.allWrites, t.visibleWrites, i).visible
                  \/ HasCompleteWrite(u.visibleWrites, p \cap PathOf(t.allWrites, i))

LEMMA AckTree ==
  ASSUME NEW t, Sound(t), AllFull(t), NEW i \in Ids(t.allWrites), NEW ok,
         NEW u, u = ApplyAck(t, i, ok)
  PROVE  AckedTree(t, u, i)
<1> DEFINE q == PathOf(t.allWrites, i)
           removed == RemoveWriteId(t.allWrites, t.visibleWrites, i)
           rest == RemoveAt(t.allWrites, IndexOf(t.allWrites, i))
           s == [t EXCEPT !.allWrites = removed.allWrites, !.visibleWrites = removed.visibleWrites]
           view(p) == IF ok THEN AckUserWrite(s.views[p], p \cap q, s.visibleWrites)
                      ELSE RevertUserWrite(s.views[p], p \cap q, s.visibleWrites)
           processed == [p \in Reached(s, q) |-> view(p)]
<1>1. u = IF ~removed.visible THEN s ELSE Applied(s, processed)
  <2>1. ApplyAck(t, i, ok) =
          IF ~removed.visible THEN s
          ELSE Applied(s, [p \in Reached(s, q) |->
                 IF ok THEN AckUserWrite(s.views[p], p \cap q, s.visibleWrites)
                 ELSE RevertUserWrite(s.views[p], p \cap q, s.visibleWrites)])
    BY DEF ApplyAck
  <2> QED BY <2>1
<1>2. WellFormed(t) /\ Told(t) /\ Filled(t) /\ t.allWrites \in Seq(Pending)
  BY TreeFields DEF Sound
<1>3. q \in Paths
  <2>1. IndexOf(t.allWrites, i) \in DOMAIN t.allWrites
    BY IndexOfAt
  <2> QED BY <1>2, <2>1, PendingAt DEF PathOf, WriteOf
<1>4. rest \in Seq(Pending) /\ Ascending(rest) /\ Ids(rest) = Ids(t.allWrites) \ {i}
  BY <1>2, RestOrder DEF WellFormed
<1>5. removed.allWrites = rest
  BY RemoveCases DEF Removed
<1>6. Compound(removed.visibleWrites)
  BY <1>2, RemoveCompound DEF WellFormed
<1> HIDE DEF removed, rest, q
<1>7. /\ s \in Trees /\ s.allWrites = rest /\ s.visibleWrites = removed.visibleWrites
      /\ s.regs = t.regs /\ s.views = t.views /\ s.raised = t.raised /\ s.fired = t.fired
  BY <1>2, <1>4, <1>5, <1>6 DEF WellFormed, Trees, Compound
<1> HIDE DEF s
<1>8. WellFormed(s) /\ Told(s)
  BY <1>2, <1>4, <1>6, <1>7 DEF WellFormed, Told
<1>9. ASSUME NEW p \in Viewed(t.regs) PROVE t.views[p].serverFull /\ t.views[p].eventFull
  BY <1>2 DEF AllFull, Filled
<1>10. ASSUME NEW p \in Reached(s, q)
       PROVE  p \in Viewed(s.regs) /\ Unhidden(t.views[p], processed[p], p, p \cap q, s.visibleWrites)
  <2>1. p \in Viewed(s.regs) /\ p \in ViewPaths /\ p \in Paths
    BY <1>10, ViewedPath DEF Reached
  <2>2. p \cap q \in Paths /\ p \cap q \subseteq p
    BY <1>3, <1>10, <2>1, ReachedPath
  <2>3. s.views[p] \in ViewOf(p) /\ s.views[p] = t.views[p] /\ s.visibleWrites \in SUBSET Nodes
    BY <1>7, <1>8, <2>1, TreeFields
  <2>4. s.views[p].serverFull /\ s.views[p].eventFull
    BY <1>7, <1>9, <2>1
  <2>5. processed[p] = IF ok THEN AckUserWrite(s.views[p], p \cap q, s.visibleWrites)
                       ELSE RevertUserWrite(s.views[p], p \cap q, s.visibleWrites)
    OBVIOUS
  <2> HIDE DEF processed
  <2>6. Unhidden(s.views[p], processed[p], p, p \cap q, s.visibleWrites)
    <3>1. CASE ok
      BY <2>1, <2>2, <2>3, <2>4, <2>5, <3>1, AckUserWriteView
    <3>2. CASE ~ok
      BY <2>1, <2>2, <2>3, <2>4, <2>5, <3>2, RevertUserWriteView
    <3> QED BY <3>1, <3>2
  <2> QED BY <2>1, <2>3, <2>6
<1>11. DOMAIN processed = Reached(s, q)
  OBVIOUS
<1> HIDE DEF processed
<1>12. CASE ~removed.visible
  <2>1. u = s
    BY <1>1, <1>12
  <2>2. AllFull(u) /\ Filled(u)
    BY <1>7, <1>9, <2>1 DEF AllFull, Filled
  <2> QED BY <1>4, <1>7, <1>8, <1>12, <2>1, <2>2 DEF AckedTree, Sound, removed, rest, q
<1>13. CASE removed.visible
  <2>1. Effect(s, u, processed)
    <3>1. \A p \in DOMAIN processed : p \in Viewed(s.regs) /\ processed[p] \in ViewOf(p)
      BY <1>10, <1>11 DEF Unhidden
    <3> QED BY <1>1, <1>8, <1>13, <3>1, AppliedEffect
  <2>2. /\ WellFormed(u) /\ Told(u) /\ u.regs = t.regs /\ u.allWrites = rest
        /\ u.visibleWrites = removed.visibleWrites /\ s.visibleWrites = removed.visibleWrites
    BY <1>7, <1>8, <2>1 DEF Effect
  <2>3. ASSUME NEW p \in Viewed(t.regs), p \in Reached(s, q)
        PROVE  Unhidden(t.views[p], u.views[p], p, p \cap q, u.visibleWrites)
    <3>1. u.views[p] = processed[p]
      BY <1>11, <2>1, <2>3, ViewedPath DEF Effect
    <3> QED BY <1>10, <2>2, <2>3, <3>1
  <2>4. ASSUME NEW p \in Viewed(t.regs), p \notin Reached(s, q)
        PROVE  u.views[p] = t.views[p] /\ \A l \in p : l \notin q
    <3>1. u.views[p] = t.views[p]
      BY <1>7, <1>11, <2>1, <2>4, ViewedPath DEF Effect
    <3>2. ASSUME NEW l \in p PROVE l \notin q
      BY <1>3, <1>7, <2>4, UnreachedLeaf
    <3> QED BY <3>1, <3>2
  <2>5. ASSUME NEW p \in Viewed(t.regs)
        PROVE  /\ u.views[p].serverFull /\ u.views[p].eventFull
               /\ u.views[p].server = t.views[p].server
               /\ \A l \in p :
                    \/ u.views[p].event[l] = Shown(u.visibleWrites, l, u.views[p].server[l])
                    \/ /\ u.views[p].event[l] = t.views[p].event[l]
                       /\ l \notin q \/ HasCompleteWrite(u.visibleWrites, p \cap q)
    <3>1. CASE p \in Reached(s, q)
      BY <1>9, <2>3, <3>1 DEF Unhidden, Refreshed
    <3>2. CASE p \notin Reached(s, q)
      BY <1>9, <2>4, <3>2
    <3> QED BY <3>1, <3>2
  <2>6. AllFull(u) /\ Filled(u)
    BY <2>2, <2>5 DEF AllFull, Filled
  <2> QED BY <1>4, <2>2, <2>5, <2>6 DEF AckedTree, Sound, removed, rest, q
<1> QED
  BY <1>12, <1>13

(* The views stay faithful where the writes stay layered. *)
LEMMA AckFaithful ==
  ASSUME NEW t, Sound(t), AllFull(t), NEW i \in Ids(t.allWrites), NEW u, AckedTree(t, u, i),
         NEW k, k = IndexOf(t.allWrites, i),
         NEW except, LayeredBut(t.visibleWrites, t.allWrites, except), FaithfulBut(t, except),
         \A l \in except : \E j : LastAt(t.allWrites, l, j),
         NEW more,
         \A l, j : LastAt(u.allWrites, l, j) /\ l \notin more =>
                     l \notin except /\ ~LastAt(t.allWrites, l, k)
  PROVE  LayeredBut(u.visibleWrites, u.allWrites, more) /\ FaithfulBut(u, more)
<1> DEFINE allw == t.allWrites
           rest == u.allWrites
           q == PathOf(allw, i)
           vw == t.visibleWrites
           new == u.visibleWrites
<1>1. allw \in Seq(Pending) /\ rest = RemoveAt(allw, k) /\ k \in DOMAIN allw
  BY TreeFields, IndexOfAt DEF Sound, AckedTree
<1>2. new = RemoveWriteId(allw, vw, i).visibleWrites
  BY DEF AckedTree
<1>3. LayeredBut(new, rest, more)
  BY <1>1, <1>2, LayeredRemove
<1>4. rest \in Seq(Pending) /\ Rest(allw, k, rest)
  <2>1. Rest(allw, k, rest)
    BY <1>1, RestAt
  <2> QED
    BY <2>1 DEF Rest
<1>5. q = DOMAIN allw[k].node
  BY DEF PathOf, WriteOf
<1>6. RemoveWriteId(allw, vw, i).visible =
        ~(\E j \in DOMAIN allw : j > k /\ DOMAIN allw[k].node \subseteq DOMAIN allw[j].node)
  BY <1>1, RemoveCases DEF Removed
<1>7. u.regs = t.regs
  BY DEF AckedTree
<1>8. ASSUME NEW p \in Viewed(u.regs), NEW l \in p, l \notin more
      PROVE  u.views[p].event[l] = Shown(new, l, u.views[p].server[l])
  <2>1. p \in Viewed(t.regs) /\ t.views[p].eventFull /\ u.views[p].server = t.views[p].server
    BY <1>7, <1>8 DEF AckedTree, Sound, Filled, AllFull
  <2>2. SUFFICES ASSUME u.views[p].event[l] = t.views[p].event[l],
                        \/ l \notin q \/ ~RemoveWriteId(allw, vw, i).visible
                        \/ HasCompleteWrite(new, p \cap q)
                 PROVE  u.views[p].event[l] = Shown(new, l, u.views[p].server[l])
    BY <1>8, <2>1 DEF AckedTree
  <2> DEFINE v == t.views[p].server[l]
  <2>3. l \notin except => t.views[p].event[l] = Shown(vw, l, v)
    BY <1>8, <2>1 DEF FaithfulBut
  <2> HIDE DEF v
  <2>4. CASE \E j : LastAt(rest, l, j)
    <3>1. PICK j : LastAt(rest, l, j)
      BY <2>4
    <3>2. l \notin except /\ ~LastAt(allw, l, k)
      BY <1>8, <3>1
    <3>3. PICK o \in DOMAIN allw : rest[j] = allw[o] /\ LastAt(allw, l, o)
      BY <1>1, <3>1, <3>2, LastInRest
    <3>4. Shown(vw, l, v) = allw[o].node[l]
      BY <1>1, <3>2, <3>3, LayeredShows
    <3>5. Shown(new, l, v) = rest[j].node[l]
      BY <1>3, <1>4, <1>8, <3>1, LayeredShows
    <3> QED BY <2>1, <2>2, <2>3, <3>2, <3>3, <3>4, <3>5 DEF v
  <2>5. CASE ~\E j : LastAt(rest, l, j)
    <3>1. \A j \in DOMAIN rest : l \notin DOMAIN rest[j].node
      BY <1>4, <2>5, LastExists
    <3>2. \A o \in DOMAIN allw : o # k => l \notin DOMAIN allw[o].node
      BY <1>4, <3>1 DEF Rest
    <3>3. \A w \in new : l \notin DOMAIN w
      BY <1>3, <3>1 DEF LayeredBut
    <3>4. l \notin q
      <4>1. CASE ~RemoveWriteId(allw, vw, i).visible
        <5>1. PICK j \in DOMAIN allw : j > k /\ DOMAIN allw[k].node \subseteq DOMAIN allw[j].node
          BY <1>6, <4>1
        <5>2. j # k
          BY <1>1, <5>1, LenProperties
        <5> QED BY <1>5, <3>2, <5>1, <5>2
      <4>2. CASE HasCompleteWrite(new, p \cap q)
        <5>1. PICK w \in new : p \cap q \subseteq DOMAIN w
          BY <4>2 DEF HasCompleteWrite, Covering
        <5> QED BY <1>8, <3>3, <5>1
      <4> QED BY <2>2, <4>1, <4>2
    <3>5. \A o \in DOMAIN allw : l \notin DOMAIN allw[o].node
      BY <1>5, <3>2, <3>4
    <3>6. l \notin except
      BY <3>5 DEF LastAt
    <3>7. Shown(vw, l, v) = v
      BY <3>5, LayeredShowsServer
    <3>8. Shown(new, l, v) = v
      BY <3>3, ShownServer
    <3> QED BY <2>1, <2>2, <2>3, <3>6, <3>7, <3>8 DEF v
  <2> QED BY <2>4, <2>5
<1> QED
  BY <1>3, <1>8 DEF FaithfulBut

-----------------------------------------------------------------------------
(* Views come and go *)

(* The view at p is put in place, with its registrations. *)
Replaced(t, u, p, rs, view, told) ==
  /\ WellFormed(u)
  /\ u.allWrites = t.allWrites /\ u.visibleWrites = t.visibleWrites
  /\ u.regs = [t.regs EXCEPT ![p] = rs]
  /\ \A q \in ViewPaths :
       /\ u.regs[q] = IF q = p THEN rs ELSE t.regs[q]
       /\ u.views[q] = IF q = p THEN view ELSE t.views[q]
       /\ u.raised[q] = IF q = p THEN told ELSE t.raised[q]

LEMMA ReplacedAt ==
  ASSUME NEW t, WellFormed(t), NEW p \in ViewPaths, NEW rs \in SUBSET Kinds,
         NEW view \in ViewOf(p), NEW told \in Node(p) \cup {None},
         NEW fd \in SUBSET ViewPaths, \A q \in fd : q \in t.fired \/ q = p,
         p \in fd => "once" \in rs,
         NEW u, u = [t EXCEPT !.regs[p] = rs, !.views[p] = view, !.raised[p] = told, !.fired = fd]
  PROVE  Replaced(t, u, p, rs, view, told)
<1> DEFINE rg == [t.regs EXCEPT ![p] = rs]
           vs == [t.views EXCEPT ![p] = view]
           rd == [t.raised EXCEPT ![p] = told]
           V == UNION {ViewOf(x) : x \in ViewPaths}
           T == (UNION {Node(x) : x \in ViewPaths}) \cup {None}
<1>1. t \in Trees
  BY DEF WellFormed
<1>2. /\ t.regs \in [ViewPaths -> SUBSET Kinds] /\ t.views \in [ViewPaths -> V]
      /\ t.raised \in [ViewPaths -> T]
  BY <1>1 DEF Trees
<1>3. u = [t EXCEPT !.regs = rg, !.views = vs, !.raised = rd, !.fired = fd]
  OBVIOUS
<1>4. view \in V
  <2>1. ViewOf(p) \in {ViewOf(x) : x \in ViewPaths}
    OBVIOUS
  <2> QED BY <2>1
<1>5. told \in T
  <2>1. Node(p) \in {Node(x) : x \in ViewPaths}
    OBVIOUS
  <2> QED BY <2>1
<1> HIDE DEF V, T
<1>6. rg \in [ViewPaths -> SUBSET Kinds] /\ vs \in [ViewPaths -> V] /\ rd \in [ViewPaths -> T]
  BY <1>2, <1>4, <1>5
<1>7. /\ \A q \in ViewPaths : rg[q] = IF q = p THEN rs ELSE t.regs[q]
      /\ \A q \in ViewPaths : vs[q] = IF q = p THEN view ELSE t.views[q]
      /\ \A q \in ViewPaths : rd[q] = IF q = p THEN told ELSE t.raised[q]
  BY <1>2
<1> HIDE DEF rg, vs, rd
<1>8. /\ u \in Trees /\ u.allWrites = t.allWrites /\ u.visibleWrites = t.visibleWrites
      /\ u.regs = rg /\ u.views = vs /\ u.raised = rd /\ u.fired = fd
  BY <1>1, <1>3, <1>6 DEF Trees, V, T
<1>9. WellFormed(u)
  <2>1. \A q \in ViewPaths : u.views[q] \in ViewOf(q)
    BY <1>7, <1>8 DEF WellFormed
  <2>2. \A q \in ViewPaths : u.raised[q] \in Node(q) \cup {None}
    BY <1>7, <1>8 DEF WellFormed
  <2>3. \A q \in t.fired : "once" \in t.regs[q]
    BY DEF WellFormed
  <2>4. ASSUME NEW q \in fd PROVE "once" \in rg[q]
    <3>1. CASE q = p
      BY <1>7, <3>1
    <3>2. CASE q # p
      BY <1>7, <2>3, <3>2
    <3> QED BY <3>1, <3>2
  <2>5. Ascending(u.allWrites) /\ Compound(u.visibleWrites)
    BY <1>8 DEF WellFormed
  <2>6. \A q \in u.fired : "once" \in u.regs[q]
    BY <1>8, <2>4
  <2> QED BY <1>8, <2>1, <2>2, <2>5, <2>6 DEF WellFormed
<1> QED
  BY <1>7, <1>8, <1>9 DEF Replaced, rg

(* A leaf is in one child of p at most. *)
LEMMA ChildUnique ==
  ASSUME NEW p, NEW c \in Children(p), NEW d \in Children(p), NEW l \in c, l \in d
  PROVE  c = d
<1>1. c \in Paths /\ d \in Paths /\ (c \subseteq d \/ d \subseteq c)
  BY PathFacts DEF Children
<1>2. ~(c \subseteq d /\ c # d)
  BY <1>1 DEF Children, Above
<1>3. ~(d \subseteq c /\ c # d)
  BY <1>1 DEF Children, Above
<1> QED
  BY <1>1, <1>2, <1>3

(* A complete view above p knows what the server has at p, and the         *)
(* root-most is one.                                                       *)
LEMMA CacheExists ==
  ASSUME NEW t, NEW p \in Paths
  PROVE  CompleteServerCache(t, p) # {} <=>
           \E q \in Viewed(t.regs) : p \subseteq q /\ t.views[q].serverFull
<1> DEFINE full == {q \in Viewed(t.regs) : p \subseteq q /\ t.views[q].serverFull}
           top == {r \in full : \A s \in full : s \subseteq r}
<1>1. ASSUME full # {} PROVE top # {}
  <2>1. full \subseteq Paths
    BY ViewedPath
  <2>2. IsFiniteSet(full)
    BY <2>1, PathsAssumption, FS_Subset
  <2>3. PICK m \in full : \A s \in full : m \subseteq s => s = m
    <3> HIDE DEF full
    <3> QED BY <1>1, <2>2, MaximalExists
  <2>4. ASSUME NEW s \in full PROVE s \subseteq m
    <3>1. s \in Paths /\ m \in Paths /\ p \subseteq s /\ p \subseteq m /\ p # {}
      BY <2>1, PathFacts
    <3>2. s \subseteq m \/ m \subseteq s
      BY <3>1, PathFacts
    <3> QED BY <2>3, <3>2
  <2> QED BY <2>3, <2>4
<1>2. CompleteServerCache(t, p) = {Child(t.views[q].server, p) : q \in top}
  BY DEF CompleteServerCache
<1>3. CompleteServerCache(t, p) # {} <=> top # {}
  <2> HIDE DEF top
  <2> QED BY <1>2
<1>4. top # {} <=> full # {}
  BY <1>1
<1> QED
  BY <1>3, <1>4

(* serverCacheForQuery: the caches of a new view agree. *)
Fresh(t, p, view) ==
  /\ view \in ViewOf(p)
  /\ view.serverFull <=> \E q \in Viewed(t.regs) : p \subseteq q /\ t.views[q].serverFull
  /\ view.serverFull \/ HasCompleteWrite(t.visibleWrites, p) => view.eventFull
  /\ Faithful(view, p, t.visibleWrites)

LEMMA NewViewFresh ==
  ASSUME NEW t, WellFormed(t), NEW p \in ViewPaths
  PROVE  Fresh(t, p, NewViewAt(t, p))
<1> DEFINE above == CompleteServerCache(t, p)
           writes == t.visibleWrites
           Full(l) == \E c \in Children(p) \cap Viewed(t.regs) : l \in c /\ t.views[c].serverFull
           known == [l \in p |->
                       IF Full(l)
                         THEN t.views[CHOOSE c \in Children(p) : l \in c].server[l]
                         ELSE Nil]
           node == IF above # {} THEN CHOOSE n \in above : TRUE ELSE known
           full == above # {}
           eventFull == above # {} \/ HasCompleteWrite(writes, p)
           event == IF eventFull THEN Overlay(writes, node)
                    ELSE CompleteEventChildren(writes, node)
           view == NewViewAt(t, p)
<1>1. view = NewView(node, full, event, eventFull)
  BY DEF NewViewAt
<1>2. writes \in SUBSET Nodes /\ p \in Paths
  BY TreeFields, PathFacts
<1>3. known \in Node(p)
  <2>1. ASSUME NEW l \in p, Full(l)
        PROVE  t.views[CHOOSE c \in Children(p) : l \in c].server[l] \in Values
    <3>1. PICK c \in Children(p) \cap Viewed(t.regs) : l \in c
      BY <2>1
    <3>2. (CHOOSE d \in Children(p) : l \in d) = c
      BY <3>1, ChildUnique
    <3>3. t.views[c] \in ViewOf(c)
      BY <3>1, ViewedPath DEF WellFormed
    <3>4. t.views[c].server \in [c -> Values]
      BY <3>3 DEF ViewOf, Node
    <3> QED BY <3>1, <3>2, <3>4
  <2>2. Nil \in Values
    BY DEF Values
  <2>3. \A l \in p : known[l] \in Values
    <3>1. ASSUME NEW l \in p PROVE known[l] \in Values
      <4>1. CASE Full(l)
        <5>1. known[l] = t.views[CHOOSE c \in Children(p) : l \in c].server[l]
          BY <4>1
        <5> QED BY <2>1, <4>1, <5>1
      <4>2. CASE ~Full(l)
        <5>1. known[l] = Nil
          BY <4>2
        <5> QED BY <2>2, <5>1
      <4> QED BY <4>1, <4>2
    <3> QED BY <3>1
  <2>4. known = [l \in p |-> known[l]]
    OBVIOUS
  <2> HIDE DEF known
  <2> QED BY <2>3, <2>4 DEF Node
<1> HIDE DEF known
<1>4. node \in Node(p)
  BY <1>3, CacheType
<1> HIDE DEF node
<1>5. Overlay(writes, node) \in Node(p) /\ CompleteEventChildren(writes, node) \in Node(p)
  <2>1. Overlay(writes, node) \in Node(p)
    BY <1>2, <1>4, OverlayType
  <2> DEFINE K == UNION {c \in Children(DOMAIN node) :
                           ~IsEmpty(Child(node, c)) \/ HasCompleteWrite(writes, c)}
             o == Overlay(writes, node)
  <2>2. CompleteEventChildren(writes, node) = [l \in DOMAIN node |-> IF l \in K THEN o[l] ELSE Nil]
    BY DEF CompleteEventChildren
  <2>3. DOMAIN node = p /\ Nil \in Values
    BY <1>4 DEF Node, Values
  <2> HIDE DEF K, o
  <2>4. o \in Node(p)
    BY <2>1 DEF o
  <2>5. CompleteEventChildren(writes, node) \in Node(p)
    BY <2>2, <2>3, <2>4 DEF Node
  <2> QED BY <2>1, <2>5
<1>6. event \in Node(p)
  BY <1>5
<1>7. full \in BOOLEAN /\ eventFull \in BOOLEAN
  OBVIOUS
<1>8. eventFull => event = Overlay(writes, node)
  OBVIOUS
<1>9. /\ full <=> \E q \in Viewed(t.regs) : p \subseteq q /\ t.views[q].serverFull
      /\ full \/ HasCompleteWrite(writes, p) => eventFull
  BY <1>2, CacheExists
<1> HIDE DEF full, event, eventFull, view
<1>10. /\ view \in ViewOf(p) /\ view.server = node /\ view.serverFull = full
       /\ view.event = event /\ view.eventFull = eventFull
  BY <1>1, <1>4, <1>6, <1>7 DEF NewView, ViewOf
<1>11. Faithful(view, p, writes)
  <2>1. ASSUME eventFull, NEW l \in p PROVE event[l] = Shown(writes, l, node[l])
    BY <1>2, <1>4, <1>8, <2>1, OverlayAt
  <2> QED BY <1>10, <2>1 DEF Faithful
<1>12. Fresh(t, p, view)
  BY <1>9, <1>10, <1>11 DEF Fresh
<1> QED
  BY <1>12 DEF view

LEMMA FaithfulNone ==
  ASSUME NEW t
  PROVE  FaithfulBut(t, {}) <=> \A p \in Viewed(t.regs) : Faithful(t.views[p], p, t.visibleWrites)
<1>1. ASSUME FaithfulBut(t, {}), NEW p \in Viewed(t.regs) PROVE Faithful(t.views[p], p, t.visibleWrites)
  <2>1. \A l \in p : l \in p \ {}
    OBVIOUS
  <2> QED BY <1>1, <2>1 DEF FaithfulBut, Faithful
<1>2. ASSUME \A p \in Viewed(t.regs) : Faithful(t.views[p], p, t.visibleWrites),
             NEW p \in Viewed(t.regs), t.views[p].eventFull, NEW l \in p \ {}
      PROVE  t.views[p].event[l] = Shown(t.visibleWrites, l, t.views[p].server[l])
  BY <1>2 DEF Faithful
<1> QED
  BY <1>1, <1>2 DEF FaithfulBut

(* addEventRegistration. *)
RegisteredTree(t, u, p, kind) ==
  /\ Sound(u)
  /\ u.allWrites = t.allWrites /\ u.visibleWrites = t.visibleWrites
  /\ u.regs = [t.regs EXCEPT ![p] = @ \cup {kind}]
  /\ \A q \in Viewed(t.regs) : u.views[q] = t.views[q]
  /\ p \notin Viewed(t.regs) =>
       (u.views[p].serverFull <=> \E q \in Viewed(t.regs) : p \subseteq q /\ t.views[q].serverFull)
  /\ FaithfulBut(t, {}) => FaithfulBut(u, {})

LEMMA RegisteredAt ==
  ASSUME NEW t, Sound(t), NEW p \in ViewPaths, NEW kind \in Kinds,
         NEW u, u = Registered(t, p, kind)
  PROVE  RegisteredTree(t, u, p, kind)
<1> DEFINE new == NewViewAt(t, p)
           view == IF t.regs[p] = {} THEN new ELSE t.views[p]
           rs == t.regs[p] \cup {kind}
           told == IF view.eventFull THEN view.event ELSE t.raised[p]
           fd == IF view.eventFull /\ kind = "once" THEN t.fired \cup {p} ELSE t.fired
           writes == t.visibleWrites
<1>1. WellFormed(t) /\ Filled(t) /\ Told(t)
  BY DEF Sound
<1>2. t.regs \in [ViewPaths -> SUBSET Kinds] /\ t.fired \in SUBSET ViewPaths
  BY <1>1, TreeFields
<1>3. u = [t EXCEPT !.regs[p] = rs, !.views[p] = view, !.raised[p] = told, !.fired = fd]
  BY DEF Registered
<1>4. Fresh(t, p, new)
  BY <1>1, NewViewFresh
<1> HIDE DEF new
<1>5. view \in ViewOf(p)
  BY <1>1, <1>4 DEF Fresh, WellFormed
<1>6. t.regs[p] # {} => view = t.views[p]
  OBVIOUS
<1>7. t.regs[p] = {} => Fresh(t, p, view)
  BY <1>4
<1> HIDE DEF view
<1>8. told \in Node(p) \cup {None}
  BY <1>1, <1>5 DEF WellFormed, ViewOf
<1>9. view.eventFull => told = view.event
  OBVIOUS
<1>10. fd \in SUBSET ViewPaths /\ (\A q \in fd : q \in t.fired \/ q = p) /\ (p \in fd => "once" \in rs)
  BY <1>1, <1>2 DEF WellFormed
<1>11. rs \in SUBSET Kinds /\ rs # {}
  BY <1>2
<1> HIDE DEF told, fd
<1>12. Replaced(t, u, p, rs, view, told)
  BY <1>1, <1>3, <1>5, <1>8, <1>10, <1>11, ReplacedAt
<1>13. /\ WellFormed(u) /\ u.allWrites = t.allWrites /\ u.visibleWrites = writes
       /\ u.regs = [t.regs EXCEPT ![p] = rs]
  BY <1>12 DEF Replaced
<1>14. ASSUME NEW q \in Viewed(u.regs), q # p
       PROVE  q \in Viewed(t.regs) /\ u.views[q] = t.views[q] /\ u.raised[q] = t.raised[q]
  BY <1>12, <1>14 DEF Replaced, Viewed
<1>15. p \in Viewed(u.regs) /\ u.views[p] = view /\ u.raised[p] = told
  BY <1>11, <1>12 DEF Replaced, Viewed
<1>16. p \in Viewed(t.regs) <=> t.regs[p] # {}
  BY DEF Viewed
<1>17. Told(u)
  BY <1>1, <1>9, <1>14, <1>15 DEF Told
<1>18. view.serverFull \/ HasCompleteWrite(writes, p) => view.eventFull
  BY <1>1, <1>6, <1>7, <1>16 DEF Filled, Fresh
<1>19. ASSUME NEW a \in Viewed(u.regs), NEW b \in Viewed(u.regs), a \subseteq b,
              u.views[b].serverFull
       PROVE  u.views[a].serverFull
  <2>1. ASSUME a = p, b # p PROVE view.serverFull
    <3>1. b \in Viewed(t.regs) /\ t.views[b].serverFull
      BY <1>14, <1>19, <2>1
    <3>2. CASE t.regs[p] = {}
      BY <1>7, <1>19, <2>1, <3>1, <3>2 DEF Fresh
    <3>3. CASE t.regs[p] # {}
      BY <1>1, <1>6, <1>16, <1>19, <2>1, <3>1, <3>3 DEF Filled
    <3> QED BY <3>2, <3>3
  <2>2. ASSUME a # p, b = p PROVE t.views[a].serverFull
    <3>1. a \in Viewed(t.regs) /\ view.serverFull
      BY <1>14, <1>15, <1>19, <2>2
    <3>2. CASE t.regs[p] = {}
      <4>1. PICK q \in Viewed(t.regs) : p \subseteq q /\ t.views[q].serverFull
        BY <1>7, <3>1, <3>2 DEF Fresh
      <4>2. a \subseteq q
        BY <1>19, <2>2, <4>1
      <4> QED BY <1>1, <3>1, <4>1, <4>2 DEF Filled
    <3>3. CASE t.regs[p] # {}
      BY <1>1, <1>6, <1>16, <1>19, <2>2, <3>1, <3>3 DEF Filled
    <3> QED BY <3>2, <3>3
  <2>3. ASSUME a # p, b # p PROVE u.views[a].serverFull
    BY <1>1, <1>14, <1>19, <2>3 DEF Filled
  <2> QED BY <1>14, <1>15, <1>19, <2>1, <2>2, <2>3
<1>20. \A a \in Viewed(u.regs) :
         u.views[a].serverFull \/ HasCompleteWrite(u.visibleWrites, a) => u.views[a].eventFull
  BY <1>1, <1>13, <1>14, <1>15, <1>18 DEF Filled
<1>21. Sound(u)
  BY <1>13, <1>17, <1>19, <1>20 DEF Sound, Filled
<1>22. ASSUME FaithfulBut(t, {}) PROVE FaithfulBut(u, {})
  <2>1. Faithful(view, p, writes)
    BY <1>6, <1>7, <1>16, <1>22, FaithfulNone DEF Fresh
  <2>2. ASSUME NEW a \in Viewed(u.regs) PROVE Faithful(u.views[a], a, writes)
    BY <1>14, <1>15, <1>22, <2>1, FaithfulNone
  <2> QED BY <1>13, <2>2, FaithfulNone
<1>23. ASSUME NEW q \in Viewed(t.regs) PROVE u.views[q] = t.views[q]
  BY <1>6, <1>12, <1>16 DEF Replaced, Viewed
<1>24. p \notin Viewed(t.regs) =>
         (u.views[p].serverFull <=> \E q \in Viewed(t.regs) : p \subseteq q /\ t.views[q].serverFull)
  BY <1>7, <1>15, <1>16 DEF Fresh
<1> QED
  BY <1>13, <1>21, <1>22, <1>23, <1>24 DEF RegisteredTree

(* removeEventRegistration. *)
UnregisteredTree(t, u, p, kinds) ==
  /\ Sound(u)
  /\ u.allWrites = t.allWrites /\ u.visibleWrites = t.visibleWrites
  /\ u.regs = [t.regs EXCEPT ![p] = @ \ kinds]
  /\ \A q \in Viewed(u.regs) : q \in Viewed(t.regs) /\ u.views[q] = t.views[q]
  /\ FaithfulBut(t, {}) => FaithfulBut(u, {})

LEMMA UnregisteredAt ==
  ASSUME NEW t, Sound(t), NEW p \in ViewPaths, NEW kinds \in SUBSET Kinds,
         NEW u, u = Unregistered(t, p, kinds)
  PROVE  UnregisteredTree(t, u, p, kinds)
<1> DEFINE rs == t.regs[p] \ kinds
           view == IF rs = {} THEN NoView(p) ELSE t.views[p]
           told == IF rs = {} THEN None ELSE t.raised[p]
           fd == IF "once" \in kinds THEN t.fired \ {p} ELSE t.fired
           writes == t.visibleWrites
<1>1. WellFormed(t) /\ Filled(t) /\ Told(t)
  BY DEF Sound
<1>2. t.regs \in [ViewPaths -> SUBSET Kinds] /\ t.fired \in SUBSET ViewPaths
  BY <1>1, TreeFields
<1>3. u = [t EXCEPT !.regs[p] = rs, !.views[p] = view, !.raised[p] = told, !.fired = fd]
  BY DEF Unregistered
<1>4. view \in ViewOf(p)
  <2>1. NoView(p) \in ViewOf(p)
    BY EmptyType DEF NoView, NewView, ViewOf
  <2> QED BY <1>1, <2>1 DEF WellFormed
<1>5. told \in Node(p) \cup {None}
  BY <1>1 DEF WellFormed
<1>6. \A q \in fd : q \in t.fired
  OBVIOUS
<1>7. fd \in SUBSET ViewPaths /\ (p \in fd => "once" \in rs)
  BY <1>1, <1>2 DEF WellFormed
<1>8. rs \in SUBSET Kinds
  BY <1>2
<1>9. rs # {} => view = t.views[p] /\ told = t.raised[p]
  OBVIOUS
<1> HIDE DEF view, told, fd
<1>10. Replaced(t, u, p, rs, view, told)
  BY <1>1, <1>3, <1>4, <1>5, <1>6, <1>7, <1>8, ReplacedAt
<1>11. /\ WellFormed(u) /\ u.allWrites = t.allWrites /\ u.visibleWrites = writes
       /\ u.regs = [t.regs EXCEPT ![p] = rs]
  BY <1>10 DEF Replaced
<1>12. ASSUME NEW q \in Viewed(u.regs)
       PROVE  q \in Viewed(t.regs) /\ u.views[q] = t.views[q] /\ u.raised[q] = t.raised[q]
  <2>1. q \in ViewPaths /\ u.regs[q] # {}
    BY DEF Viewed
  <2>2. CASE q # p
    BY <1>10, <2>1, <2>2 DEF Replaced, Viewed
  <2>3. CASE q = p
    <3>1. rs # {} /\ u.views[p] = view /\ u.raised[p] = told
      BY <1>10, <2>1, <2>3 DEF Replaced
    <3>2. t.regs[p] # {}
      BY <3>1
    <3> QED BY <1>9, <2>3, <3>1, <3>2 DEF Viewed
  <2> QED BY <2>2, <2>3
<1>13. Told(u) /\ Filled(u)
  <2>1. Told(u)
    BY <1>1, <1>12 DEF Told
  <2>2. \A a \in Viewed(u.regs) :
          u.views[a].serverFull \/ HasCompleteWrite(u.visibleWrites, a) => u.views[a].eventFull
    BY <1>1, <1>11, <1>12 DEF Filled
  <2>3. \A a, b \in Viewed(u.regs) :
          a \subseteq b /\ u.views[b].serverFull => u.views[a].serverFull
    <3>1. ASSUME NEW a \in Viewed(u.regs), NEW b \in Viewed(u.regs), a \subseteq b,
                 u.views[b].serverFull
          PROVE  u.views[a].serverFull
      BY <1>1, <1>12, <3>1 DEF Filled
    <3> QED BY <3>1
  <2> QED BY <2>1, <2>2, <2>3 DEF Filled
<1>14. FaithfulBut(t, {}) => FaithfulBut(u, {})
  BY <1>11, <1>12, FaithfulNone
<1> QED
  BY <1>11, <1>12, <1>13, <1>14 DEF UnregisteredTree, Sound

-----------------------------------------------------------------------------
(* Sets in some order *)

LEMMA InOrderOf ==
  ASSUME NEW S, IsFiniteSet(S), NEW ps \in SetToSeqs(S)
  PROVE  /\ ps \in Seq(S) /\ Len(ps) \in Nat /\ Len(ps) = Cardinality(S)
         /\ DOMAIN ps = 1 .. Len(ps)
         /\ \A k \in DOMAIN ps : ps[k] \in S
         /\ \A x \in S : \E k \in DOMAIN ps : ps[k] = x
         /\ \A j, k \in DOMAIN ps : ps[j] = ps[k] => j = k
<1> DEFINE n == Cardinality(S)
<1>1. n \in Nat
  BY FS_CardinalityType
<1>2. ps \in [1 .. n -> S] /\ \A i, j \in 1 .. n : i # j => ps[i] # ps[j]
  BY DEF SetToSeqs
<1>3. DOMAIN ps = 1 .. n
  BY <1>2
<1>4. ps \in Injection(1 .. n, S)
  BY <1>2, <1>3 DEF Injection, IsInjective
<1>5. Cardinality(1 .. n) = n
  BY <1>1, FS_Interval
<1>6. ps \in Surjection(1 .. n, S)
  BY <1>4, <1>5, FS_Injection
<1>7. \A x \in S : \E k \in 1 .. n : ps[k] = x
  BY <1>6 DEF Surjection
<1> HIDE DEF n
<1>8. ps \in Seq(S) /\ Len(ps) = n
  BY <1>1, <1>2
<1> QED
  BY <1>1, <1>2, <1>3, <1>7, <1>8 DEF n

LEMMA SomeOrder ==
  ASSUME NEW S, IsFiniteSet(S)
  PROVE  SetToSeq(S) \in SetToSeqs(S)
<1> DEFINE n == Cardinality(S)
<1>1. ExistsBijection(1 .. n, S)
  BY FS_CardinalityType
<1>2. PICK f \in Bijection(1 .. n, S) : TRUE
  BY <1>1 DEF ExistsBijection
<1>3. f \in [1 .. n -> S] /\ IsInjective(f)
  BY <1>2 DEF Bijection, Injection, Surjection
<1>4. SetToSeq(S) \in [1 .. n -> S] /\ IsInjective(SetToSeq(S))
  BY <1>3 DEF SetToSeq
<1>5. DOMAIN SetToSeq(S) = 1 .. n
  BY <1>4
<1> QED
  BY <1>4, <1>5 DEF SetToSeqs, IsInjective

-----------------------------------------------------------------------------
(* Requests and messages *)

(* The numbers of the listens, and of the writes, that requests ask for or *)
(* messages answer.                                                        *)
Specs(q) == {q[k].spec : k \in {j \in DOMAIN q : q[j].type = "listen"}}
PutIds(q) == {q[k].id : k \in {j \in DOMAIN q : q[j].type = "put"}}

(* They are all different, and those of writes ascend. *)
Proper(q) ==
  /\ \A j, k \in DOMAIN q :
       q[j].type = "listen" /\ q[k].type = "listen" /\ q[j].spec = q[k].spec => j = k
  /\ \A j, k \in DOMAIN q : q[j].type = "put" /\ q[k].type = "put" /\ j < k => q[j].id < q[k].id

Below(A, B) == \A a \in A, b \in B : a < b

LEMMA SpecsAt ==
  ASSUME NEW q
  PROVE  /\ \A k \in DOMAIN q : q[k].type = "listen" => q[k].spec \in Specs(q)
         /\ \A s \in Specs(q) : \E k \in DOMAIN q : q[k].type = "listen" /\ q[k].spec = s
         /\ \A k \in DOMAIN q : q[k].type = "put" => q[k].id \in PutIds(q)
         /\ \A i \in PutIds(q) : \E k \in DOMAIN q : q[k].type = "put" /\ q[k].id = i
  BY DEF Specs, PutIds

LEMMA NoMessages == Specs(<<>>) = {} /\ PutIds(<<>>) = {} /\ Proper(<<>>)
  BY DEF Specs, PutIds, Proper

(* One after the other. *)
LEMMA ConcatMessages ==
  ASSUME NEW S, NEW s \in Seq(S), NEW t \in Seq(S)
  PROVE  /\ Specs(s \o t) = Specs(s) \cup Specs(t)
         /\ PutIds(s \o t) = PutIds(s) \cup PutIds(t)
         /\ Proper(s) /\ Proper(t) /\ Specs(s) \cap Specs(t) = {} /\ Below(PutIds(s), PutIds(t))
              => Proper(s \o t)
<1> DEFINE u == s \o t
<1>1. /\ Len(s) \in Nat /\ Len(t) \in Nat
      /\ DOMAIN s = 1 .. Len(s) /\ DOMAIN t = 1 .. Len(t) /\ DOMAIN u = 1 .. Len(s) + Len(t)
      /\ \A k \in DOMAIN s : u[k] = s[k]
      /\ \A k \in DOMAIN t : u[Len(s) + k] = t[k]
  BY ConcatAt
<1> HIDE DEF u
<1>2. \A k \in DOMAIN u : k \in DOMAIN s \/ \E j \in DOMAIN t : k = Len(s) + j
  <2>1. ASSUME NEW k \in DOMAIN u, k \notin DOMAIN s
        PROVE  k - Len(s) \in DOMAIN t /\ k = Len(s) + (k - Len(s))
    BY <1>1, <2>1
  <2> QED BY <2>1
<1>3. (\A k \in DOMAIN s : k \in DOMAIN u) /\ (\A j \in DOMAIN t : Len(s) + j \in DOMAIN u)
  BY <1>1
<1>4. ASSUME NEW x PROVE x \in Specs(u) <=> x \in Specs(s) \/ x \in Specs(t)
  BY <1>1, <1>2, <1>3 DEF Specs
<1>5. ASSUME NEW x PROVE x \in PutIds(u) <=> x \in PutIds(s) \/ x \in PutIds(t)
  BY <1>1, <1>2, <1>3 DEF PutIds
<1>6. ASSUME Proper(s), Proper(t), Specs(s) \cap Specs(t) = {}, Below(PutIds(s), PutIds(t))
      PROVE  Proper(u)
  <2>1. ASSUME NEW j \in DOMAIN u, NEW k \in DOMAIN u,
               u[j].type = "listen", u[k].type = "listen", u[j].spec = u[k].spec
        PROVE  j = k
    <3>1. CASE j \in DOMAIN s /\ k \in DOMAIN s
      BY <1>1, <1>6, <2>1, <3>1 DEF Proper
    <3>2. CASE j \in DOMAIN s /\ k \notin DOMAIN s
      <4>1. PICK i \in DOMAIN t : k = Len(s) + i
        BY <1>2, <3>2
      <4>2. s[j].spec \in Specs(s) /\ t[i].spec \in Specs(t) /\ s[j].spec = t[i].spec
        BY <1>1, <2>1, <3>2, <4>1, SpecsAt
      <4> QED BY <1>6, <4>2
    <3>3. CASE j \notin DOMAIN s /\ k \in DOMAIN s
      <4>1. PICK i \in DOMAIN t : j = Len(s) + i
        BY <1>2, <3>3
      <4>2. s[k].spec \in Specs(s) /\ t[i].spec \in Specs(t) /\ s[k].spec = t[i].spec
        BY <1>1, <2>1, <3>3, <4>1, SpecsAt
      <4> QED BY <1>6, <4>2
    <3>4. CASE j \notin DOMAIN s /\ k \notin DOMAIN s
      <4>1. PICK i \in DOMAIN t : j = Len(s) + i
        BY <1>2, <3>4
      <4>2. PICK o \in DOMAIN t : k = Len(s) + o
        BY <1>2, <3>4
      <4>3. i = o
        BY <1>1, <1>6, <2>1, <4>1, <4>2 DEF Proper
      <4> QED BY <4>1, <4>2, <4>3
    <3> QED BY <3>1, <3>2, <3>3, <3>4
  <2>2. ASSUME NEW j \in DOMAIN u, NEW k \in DOMAIN u,
               u[j].type = "put", u[k].type = "put", j < k
        PROVE  u[j].id < u[k].id
    <3>1. CASE j \in DOMAIN s /\ k \in DOMAIN s
      BY <1>1, <1>6, <2>2, <3>1 DEF Proper
    <3>2. CASE j \in DOMAIN s /\ k \notin DOMAIN s
      <4>1. PICK i \in DOMAIN t : k = Len(s) + i
        BY <1>2, <3>2
      <4>2. s[j].id \in PutIds(s) /\ t[i].id \in PutIds(t) /\ u[j] = s[j] /\ u[k] = t[i]
        BY <1>1, <2>2, <3>2, <4>1, SpecsAt
      <4> QED BY <1>6, <4>2 DEF Below
    <3>3. CASE j \notin DOMAIN s /\ k \in DOMAIN s
      BY <1>1, <2>2, <3>3
    <3>4. CASE j \notin DOMAIN s /\ k \notin DOMAIN s
      <4>1. PICK i \in DOMAIN t : j = Len(s) + i
        BY <1>2, <3>4
      <4>2. PICK o \in DOMAIN t : k = Len(s) + o
        BY <1>2, <3>4
      <4>3. i < o
        BY <1>1, <2>2, <4>1, <4>2
      <4> QED BY <1>1, <1>6, <2>2, <4>1, <4>2, <4>3 DEF Proper
    <3> QED BY <3>1, <3>2, <3>3, <3>4
  <2> QED BY <2>1, <2>2 DEF Proper
<1> QED
  BY <1>4, <1>5, <1>6 DEF u

(* One taken out. *)
Without(s, k, t) ==
  /\ s[k].type = "listen" => Specs(t) = Specs(s) \ {s[k].spec} /\ s[k].spec \in Specs(s)
  /\ s[k].type # "listen" => Specs(t) = Specs(s)
  /\ s[k].type = "put" => PutIds(t) = PutIds(s) \ {s[k].id} /\ s[k].id \in PutIds(s)
  /\ s[k].type # "put" => PutIds(t) = PutIds(s)
  /\ Proper(t)
  /\ s[k].type = "put" /\ (\A j \in 1 .. k - 1 : s[j].type # "put") => Below({s[k].id}, PutIds(t))

LEMMA WithoutMessage ==
  ASSUME NEW S, NEW s \in Seq(S), Proper(s), NEW k \in DOMAIN s, NEW t, t = RemoveAt(s, k),
         \A m \in S : m.type = "put" => m.id \in Nat
  PROVE  Without(s, k, t)
<1>1. /\ Len(s) \in Nat \ {0} /\ DOMAIN s = 1 .. Len(s) /\ DOMAIN t = 1 .. Len(s) - 1
      /\ \A j \in 1 .. Len(s) - 1 : t[j] = IF j < k THEN s[j] ELSE s[j + 1]
  BY RemoveAtAt
<1>2. \A j \in DOMAIN t : \E o \in DOMAIN s : o # k /\ t[j] = s[o] /\ o = IF j < k THEN j ELSE j + 1
  <2>1. ASSUME NEW j \in DOMAIN t
        PROVE  \E o \in DOMAIN s : o # k /\ t[j] = s[o] /\ o = IF j < k THEN j ELSE j + 1
    <3>1. CASE j < k
      BY <1>1, <3>1
    <3>2. CASE ~(j < k)
      BY <1>1, <3>2
    <3> QED BY <3>1, <3>2
  <2> QED BY <2>1
<1>3. \A o \in DOMAIN s : o # k => \E j \in DOMAIN t : t[j] = s[o] /\ j = IF o < k THEN o ELSE o - 1
  <2>1. ASSUME NEW o \in DOMAIN s, o # k
        PROVE  \E j \in DOMAIN t : t[j] = s[o] /\ j = IF o < k THEN o ELSE o - 1
    <3>1. CASE o < k
      BY <1>1, <3>1
    <3>2. CASE ~(o < k)
      <4>1. o - 1 \in DOMAIN t /\ ~(o - 1 < k) /\ (o - 1) + 1 = o
        BY <1>1, <2>1, <3>2
      <4> QED BY <1>1, <3>2, <4>1
    <3> QED BY <3>1, <3>2
  <2> QED BY <2>1
<1>4. ASSUME NEW x PROVE x \in Specs(t) <=> \E o \in DOMAIN s : o # k /\ s[o].type = "listen" /\ s[o].spec = x
  BY <1>2, <1>3 DEF Specs
<1>5. ASSUME NEW x PROVE x \in PutIds(t) <=> \E o \in DOMAIN s : o # k /\ s[o].type = "put" /\ s[o].id = x
  BY <1>2, <1>3 DEF PutIds
<1>6. \A o \in DOMAIN s : s[o].type = "put" => s[o].id \in Nat
  OBVIOUS
<1>7. \A i, j \in DOMAIN s :
        s[i].type = "put" /\ s[j].type = "put" /\ s[i].id = s[j].id => i = j
  <2>1. ASSUME NEW i \in DOMAIN s, NEW j \in DOMAIN s, s[i].type = "put", s[j].type = "put",
               s[i].id = s[j].id
        PROVE  i = j
    <3>1. ~(i < j) /\ ~(j < i)
      BY <1>6, <2>1 DEF Proper
    <3> QED BY <1>1, <3>1
  <2> QED BY <2>1
<1>8. ASSUME s[k].type = "listen" PROVE Specs(t) = Specs(s) \ {s[k].spec} /\ s[k].spec \in Specs(s)
  <2>1. ASSUME NEW x PROVE x \in Specs(t) <=> x \in Specs(s) /\ x # s[k].spec
    <3>1. x \in Specs(s) <=> \E o \in DOMAIN s : s[o].type = "listen" /\ s[o].spec = x
      BY DEF Specs
    <3> QED BY <1>4, <1>8, <3>1 DEF Proper
  <2> QED BY <1>8, <2>1, SpecsAt
<1>9. ASSUME s[k].type # "listen" PROVE Specs(t) = Specs(s)
  <2>1. ASSUME NEW x PROVE x \in Specs(t) <=> x \in Specs(s)
    <3>1. x \in Specs(s) <=> \E o \in DOMAIN s : s[o].type = "listen" /\ s[o].spec = x
      BY DEF Specs
    <3> QED BY <1>4, <1>9, <3>1
  <2> QED BY <2>1
<1>10. ASSUME s[k].type = "put" PROVE PutIds(t) = PutIds(s) \ {s[k].id} /\ s[k].id \in PutIds(s)
  <2>1. ASSUME NEW x PROVE x \in PutIds(t) <=> x \in PutIds(s) /\ x # s[k].id
    <3>1. x \in PutIds(s) <=> \E o \in DOMAIN s : s[o].type = "put" /\ s[o].id = x
      BY DEF PutIds
    <3> QED BY <1>5, <1>7, <1>10, <3>1
  <2> QED BY <1>10, <2>1, SpecsAt
<1>11. ASSUME s[k].type # "put" PROVE PutIds(t) = PutIds(s)
  <2>1. ASSUME NEW x PROVE x \in PutIds(t) <=> x \in PutIds(s)
    <3>1. x \in PutIds(s) <=> \E o \in DOMAIN s : s[o].type = "put" /\ s[o].id = x
      BY DEF PutIds
    <3> QED BY <1>5, <1>11, <3>1
  <2> QED BY <2>1
<1>12. ASSUME NEW i \in DOMAIN t, NEW j \in DOMAIN t, t[i].type = "listen", t[j].type = "listen",
              t[i].spec = t[j].spec
       PROVE  i = j
  <2>1. PICK a \in DOMAIN s : t[i] = s[a] /\ a = IF i < k THEN i ELSE i + 1
    BY <1>2
  <2>2. PICK b \in DOMAIN s : t[j] = s[b] /\ b = IF j < k THEN j ELSE j + 1
    BY <1>2
  <2>3. a = b
    BY <1>12, <2>1, <2>2 DEF Proper
  <2> QED BY <1>1, <2>1, <2>2, <2>3
<1>13. ASSUME NEW i \in DOMAIN t, NEW j \in DOMAIN t, t[i].type = "put", t[j].type = "put", i < j
       PROVE  t[i].id < t[j].id
  <2>1. PICK a \in DOMAIN s : t[i] = s[a] /\ a = IF i < k THEN i ELSE i + 1
    BY <1>2
  <2>2. PICK b \in DOMAIN s : t[j] = s[b] /\ b = IF j < k THEN j ELSE j + 1
    BY <1>2
  <2>3. a < b
    BY <1>1, <1>13, <2>1, <2>2
  <2> QED BY <1>13, <2>1, <2>2, <2>3 DEF Proper
<1>14. ASSUME s[k].type = "put", \A j \in 1 .. k - 1 : s[j].type # "put", NEW x \in PutIds(t)
       PROVE  s[k].id < x
  <2>1. PICK o \in DOMAIN s : o # k /\ s[o].type = "put" /\ s[o].id = x
    BY <1>5
  <2>2. ~(o < k)
    BY <1>1, <1>14, <2>1
  <2>3. k < o
    BY <1>1, <2>1, <2>2
  <2> QED BY <1>14, <2>1, <2>3 DEF Proper
<1>15. Proper(t)
  BY <1>12, <1>13 DEF Proper
<1> QED
  BY <1>8, <1>9, <1>10, <1>11, <1>14, <1>15 DEF Without, Below

(* The first one taken out. *)
LEMMA WithoutHead ==
  ASSUME NEW S, NEW s \in Seq(S), s # <<>>, Proper(s), \A m \in S : m.type = "put" => m.id \in Nat
  PROVE  Without(s, 1, Tail(s)) /\ Head(s) = s[1] /\ 1 \in DOMAIN s
         /\ (s[1].type = "put" => Below({s[1].id}, PutIds(Tail(s))))
<1>1. 1 \in DOMAIN s /\ Head(s) = s[1] /\ Len(s) \in Nat \ {0} /\ DOMAIN s = 1 .. Len(s)
      /\ Tail(s) \in Seq(S) /\ DOMAIN Tail(s) = 1 .. Len(s) - 1
      /\ \A k \in 1 .. Len(s) - 1 : Tail(s)[k] = s[k + 1]
  BY TailAt
<1>2. /\ RemoveAt(s, 1) \in Seq(S) /\ DOMAIN RemoveAt(s, 1) = 1 .. Len(s) - 1
      /\ \A j \in 1 .. Len(s) - 1 : RemoveAt(s, 1)[j] = IF j < 1 THEN s[j] ELSE s[j + 1]
  BY <1>1, RemoveAtAt
<1>3. \A j \in 1 .. Len(s) - 1 : RemoveAt(s, 1)[j] = Tail(s)[j]
  BY <1>1, <1>2
<1>4. Tail(s) = RemoveAt(s, 1)
  <2> DEFINE a == Tail(s) b == RemoveAt(s, 1)
  <2>1. a \in Seq(S) /\ b \in Seq(S) /\ DOMAIN a = DOMAIN b /\ \A j \in DOMAIN a : a[j] = b[j]
    BY <1>1, <1>2, <1>3
  <2> HIDE DEF a, b
  <2>2. a = b
    BY <2>1
  <2> QED BY <2>2 DEF a, b
<1>5. Without(s, 1, Tail(s))
  BY <1>1, <1>4, WithoutMessage
<1>6. \A j \in 1 .. 1 - 1 : s[j].type # "put"
  OBVIOUS
<1> QED
  BY <1>1, <1>5, <1>6 DEF Without

-----------------------------------------------------------------------------
(* The root-most views, and what is listened to *)

Roots(rs) == {p \in Viewed(rs) : CoveredBy(rs, p) = {}}

(* The views below p that no other covers. *)
LEMMA BelowRoots ==
  ASSUME NEW rs, NEW p, p \notin Viewed(rs), CoveredBy(rs, p) = {}
  PROVE  DistinctBelow(rs, p) = {q \in Roots(rs) : q \subseteq p}
<1>1. ASSUME NEW q \in DistinctBelow(rs, p) PROVE q \in Roots(rs) /\ q \subseteq p
  <2>1. q \in Viewed(rs) /\ q \subseteq p /\ \A r \in CoveredBy(rs, q) : p \subseteq r
    BY DEF DistinctBelow
  <2>2. ASSUME NEW r \in CoveredBy(rs, q) PROVE FALSE
    <3>1. r \in Viewed(rs) /\ p \subseteq r /\ r # p
      BY <2>1 DEF CoveredBy
    <3>2. r \in CoveredBy(rs, p)
      BY <3>1 DEF CoveredBy
    <3> QED BY <3>2
  <2> QED BY <2>1, <2>2 DEF Roots
<1>2. ASSUME NEW q \in Roots(rs), q \subseteq p PROVE q \in DistinctBelow(rs, p)
  <2>1. q # p
    BY DEF Roots
  <2> QED BY <1>2, <2>1 DEF Roots, DistinctBelow
<1> QED
  BY <1>1, <1>2

(* A view is added at p. *)
RootAdded(rs, p, new) ==
  /\ CoveredBy(rs, p) # {} => Roots(new) = Roots(rs)
  /\ CoveredBy(rs, p) = {} =>
       /\ Roots(new) = (Roots(rs) \ DistinctBelow(rs, p)) \cup {p}
       /\ DistinctBelow(rs, p) \subseteq ViewPaths \ {p}

LEMMA AddRoot ==
  ASSUME NEW rs, NEW p \in ViewPaths, rs[p] = {},
         NEW new, \A q \in ViewPaths : new[q] # {} <=> rs[q] # {} \/ q = p
  PROVE  RootAdded(rs, p, new)
<1>1. p \notin Viewed(rs) /\ Viewed(new) = Viewed(rs) \cup {p}
  BY DEF Viewed
<1>2. \A q : CoveredBy(new, q) = {r \in Viewed(rs) \cup {p} : q \subseteq r /\ r # q}
  BY <1>1 DEF CoveredBy
<1>3. \A q : CoveredBy(new, q) = CoveredBy(rs, q) \cup {r \in {p} : q \subseteq p /\ p # q}
  <2>1. ASSUME NEW q, NEW r
        PROVE  r \in CoveredBy(new, q) <=>
                 r \in CoveredBy(rs, q) \/ (r = p /\ q \subseteq p /\ p # q)
    BY <1>1 DEF CoveredBy
  <2> QED BY <2>1
<1>4. p \in Roots(new) <=> CoveredBy(rs, p) = {}
  BY <1>1, <1>3 DEF Roots
<1>5. \A q : q # p => (q \in Roots(new) <=> q \in Roots(rs) /\ ~(q \subseteq p))
  BY <1>1, <1>3 DEF Roots
<1>6. p \notin Roots(rs)
  BY <1>1 DEF Roots
<1>7. ASSUME CoveredBy(rs, p) # {}, NEW q \in Roots(rs) PROVE ~(q \subseteq p)
  <2>1. PICK r \in CoveredBy(rs, p) : TRUE
    BY <1>7
  <2>2. q \subseteq p => r \in CoveredBy(rs, q)
    BY <2>1 DEF CoveredBy
  <2> QED BY <2>2 DEF Roots
<1>8. ASSUME CoveredBy(rs, p) # {} PROVE Roots(new) = Roots(rs)
  <2>1. \A q : q \in Roots(new) <=> q \in Roots(rs)
    BY <1>4, <1>5, <1>6, <1>7, <1>8
  <2> QED BY <2>1
<1>9. ASSUME CoveredBy(rs, p) = {}
      PROVE  /\ Roots(new) = (Roots(rs) \ DistinctBelow(rs, p)) \cup {p}
             /\ DistinctBelow(rs, p) \subseteq ViewPaths \ {p}
  <2>1. DistinctBelow(rs, p) = {q \in Roots(rs) : q \subseteq p}
    BY <1>1, <1>9, BelowRoots
  <2>2. \A q : q \in Roots(new) <=> q \in (Roots(rs) \ DistinctBelow(rs, p)) \cup {p}
    BY <1>4, <1>5, <1>9, <2>1
  <2>3. Roots(rs) \subseteq ViewPaths
    BY DEF Roots, Viewed
  <2>4. DistinctBelow(rs, p) \subseteq ViewPaths \ {p}
    BY <1>6, <2>1, <2>3
  <2>5. Roots(new) = (Roots(rs) \ DistinctBelow(rs, p)) \cup {p}
    BY <2>2
  <2> QED BY <2>4, <2>5
<1> QED
  BY <1>8, <1>9 DEF RootAdded

(* The view at p goes. *)
LEMMA EndRoot ==
  ASSUME NEW rs \in [ViewPaths -> SUBSET Kinds], NEW p \in Viewed(rs),
         NEW new, new \in [ViewPaths -> SUBSET Kinds],
         \A q \in ViewPaths : new[q] = IF q = p THEN {} ELSE rs[q]
  PROVE  /\ CoveredBy(rs, p) # {} => Roots(new) = Roots(rs)
         /\ CoveredBy(rs, p) = {} =>
              /\ Roots(new) = (Roots(rs) \ {p}) \cup DistinctBelow(new, p)
              /\ DistinctBelow(new, p) \subseteq ViewPaths \ {p}
              /\ p \in Roots(rs)
<1>1. p \notin Viewed(new) /\ Viewed(new) = Viewed(rs) \ {p}
  BY DEF Viewed
<1>2. \A q : CoveredBy(new, q) = CoveredBy(rs, q) \ {p}
  BY <1>1 DEF CoveredBy
<1>3. \A q : p \in CoveredBy(rs, q) <=> q \subseteq p /\ q # p
  BY DEF CoveredBy
<1>4. \A q : q \in Roots(new) /\ ~(q \subseteq p) => q \in Roots(rs)
  BY <1>1, <1>2, <1>3 DEF Roots
<1>5. \A q : q \in Roots(rs) /\ q # p => q \in Roots(new)
  BY <1>1, <1>2 DEF Roots
<1>6. p \notin Roots(new)
  BY <1>1 DEF Roots
<1>7. ASSUME CoveredBy(rs, p) # {} PROVE Roots(new) = Roots(rs)
  <2>1. PICK r \in CoveredBy(rs, p) : TRUE
    BY <1>7
  <2>2. ASSUME NEW q, q \subseteq p, q # p PROVE r \in CoveredBy(new, q)
    <3>1. r \in CoveredBy(rs, q)
      BY <2>1, <2>2 DEF CoveredBy
    <3>2. r # p
      BY <2>1 DEF CoveredBy
    <3> QED BY <1>2, <3>1, <3>2
  <2>3. \A q : q \in Roots(new) => ~(q \subseteq p)
    BY <1>6, <2>2 DEF Roots
  <2>4. p \notin Roots(rs)
    BY <1>7 DEF Roots
  <2>5. \A q : q \in Roots(new) <=> q \in Roots(rs)
    BY <1>4, <1>5, <2>3, <2>4
  <2> QED BY <2>5
<1>8. ASSUME CoveredBy(rs, p) = {}
      PROVE  /\ Roots(new) = (Roots(rs) \ {p}) \cup DistinctBelow(new, p)
             /\ DistinctBelow(new, p) \subseteq ViewPaths \ {p}
             /\ p \in Roots(rs)
  <2>1. CoveredBy(new, p) = {}
    BY <1>2, <1>8
  <2>2. DistinctBelow(new, p) = {q \in Roots(new) : q \subseteq p}
    BY <1>1, <2>1, BelowRoots
  <2>3. \A q : q \in Roots(new) <=> q \in (Roots(rs) \ {p}) \cup DistinctBelow(new, p)
    BY <1>4, <1>5, <1>6, <2>2
  <2>4. Roots(new) \subseteq ViewPaths
    BY DEF Roots, Viewed
  <2> QED BY <1>6, <1>8, <2>2, <2>3, <2>4 DEF Roots
<1> QED
  BY <1>7, <1>8

(* The numbers of the listens that have not ended, of the n made so far.   *)
Listening(ls, n, roots) ==
  /\ n \in Nat /\ ls \in [ViewPaths -> 0 .. n]
  /\ \A p \in ViewPaths : ls[p] # 0 <=> p \in roots
  /\ \A p, q \in ViewPaths : ls[p] # 0 /\ ls[p] = ls[q] => p = q

(* startListening for the paths ps, and stopListening. *)
ListensAfter(ls, n, ps, stopped) ==
  [p \in ViewPaths |->
     IF \E k \in DOMAIN ps : ps[k] = p
       THEN n + CHOOSE k \in DOMAIN ps : ps[k] = p
     ELSE IF p \in stopped THEN 0 ELSE ls[p]]

NewListens(new, ls, n, roots, ps, stopped) ==
  /\ Listening(new, n + Len(ps), (roots \ stopped) \cup {ps[k] : k \in DOMAIN ps})
  /\ \A k \in DOMAIN ps : new[ps[k]] = n + k
  /\ \A p \in ViewPaths : (\A k \in DOMAIN ps : ps[k] # p) =>
       new[p] = IF p \in stopped THEN 0 ELSE ls[p]

LEMMA StartedListens ==
  ASSUME NEW ls, NEW n, NEW roots, Listening(ls, n, roots),
         NEW ps \in Seq(ViewPaths), \A j, k \in DOMAIN ps : ps[j] = ps[k] => j = k,
         NEW stopped, NEW new, new = ListensAfter(ls, n, ps, stopped)
  PROVE  NewListens(new, ls, n, roots, ps, stopped)
<1>1. Len(ps) \in Nat /\ DOMAIN ps = 1 .. Len(ps) /\ \A k \in DOMAIN ps : ps[k] \in ViewPaths
  OBVIOUS
<1>2. n \in Nat /\ ls \in [ViewPaths -> 0 .. n]
  BY DEF Listening
<1>3. ASSUME NEW k \in DOMAIN ps PROVE new[ps[k]] = n + k
  <2>1. (CHOOSE j \in DOMAIN ps : ps[j] = ps[k]) = k
    OBVIOUS
  <2> QED BY <1>1, <2>1 DEF ListensAfter
<1>4. ASSUME NEW p \in ViewPaths, \A k \in DOMAIN ps : ps[k] # p
      PROVE  new[p] = IF p \in stopped THEN 0 ELSE ls[p]
  BY <1>4 DEF ListensAfter
<1>5. ASSUME NEW p \in ViewPaths PROVE new[p] \in 0 .. n + Len(ps)
  <2>1. CASE \E k \in DOMAIN ps : ps[k] = p
    BY <1>1, <1>2, <1>3, <2>1
  <2>2. CASE \A k \in DOMAIN ps : ps[k] # p
    BY <1>1, <1>2, <1>4, <2>2
  <2> QED BY <2>1, <2>2
<1>6. DOMAIN new = ViewPaths /\ new = [p \in ViewPaths |-> new[p]]
  BY DEF ListensAfter
<1>7. new \in [ViewPaths -> 0 .. n + Len(ps)]
  BY <1>5, <1>6
<1>8. ASSUME NEW p \in ViewPaths
      PROVE  new[p] # 0 <=> p \in (roots \ stopped) \cup {ps[k] : k \in DOMAIN ps}
  <2>1. CASE \E k \in DOMAIN ps : ps[k] = p
    <3>1. PICK k \in DOMAIN ps : ps[k] = p
      BY <2>1
    <3>2. new[p] = n + k /\ n + k # 0
      BY <1>1, <1>2, <1>3, <3>1
    <3> QED BY <3>1, <3>2
  <2>2. CASE \A k \in DOMAIN ps : ps[k] # p
    BY <1>4, <2>2 DEF Listening
  <2> QED BY <2>1, <2>2
<1>9. ASSUME NEW p \in ViewPaths, NEW q \in ViewPaths, new[p] # 0, new[p] = new[q] PROVE p = q
  <2>1. ASSUME NEW x \in ViewPaths, NEW y \in ViewPaths, NEW j \in DOMAIN ps, ps[j] = x,
               new[x] = new[y]
        PROVE  x = y
    <3>1. new[x] = n + j /\ j \in 1 .. Len(ps)
      BY <1>1, <1>3, <2>1
    <3>2. CASE \E k \in DOMAIN ps : ps[k] = y
      <4>1. PICK k \in DOMAIN ps : ps[k] = y
        BY <3>2
      <4>2. new[y] = n + k /\ k \in 1 .. Len(ps)
        BY <1>1, <1>3, <4>1
      <4>3. n + j = n + k
        BY <2>1, <3>1, <4>2
      <4>4. j = k
        BY <1>1, <1>2, <3>1, <4>2, <4>3
      <4> QED BY <2>1, <4>1, <4>4
    <3>3. CASE \A k \in DOMAIN ps : ps[k] # y
      <4>1. new[y] \in 0 .. n
        BY <1>2, <1>4, <3>3
      <4> QED BY <1>1, <1>2, <2>1, <3>1, <4>1
    <3> QED BY <3>2, <3>3
  <2>2. CASE \E j \in DOMAIN ps : ps[j] = p
    BY <1>9, <2>1, <2>2
  <2>3. CASE \E j \in DOMAIN ps : ps[j] = q
    BY <1>9, <2>1, <2>3
  <2>4. CASE (\A k \in DOMAIN ps : ps[k] # p) /\ (\A k \in DOMAIN ps : ps[k] # q)
    BY <1>4, <1>9, <2>4 DEF Listening
  <2> QED BY <2>2, <2>3, <2>4
<1>10. n + Len(ps) \in Nat
  BY <1>1, <1>2
<1>11. Listening(new, n + Len(ps), (roots \ stopped) \cup {ps[k] : k \in DOMAIN ps})
  BY <1>7, <1>8, <1>9, <1>10 DEF Listening
<1> QED
  BY <1>3, <1>4, <1>11 DEF NewListens

-----------------------------------------------------------------------------
(* What is on its way *)

LEMMA RequestFacts ==
  ASSUME NEW r \in Request
  PROVE  /\ r.type \in {"listen", "unlisten", "put"}
         /\ r.type = "listen" =>
              r.path \in ViewPaths /\ r.spec \in 1 .. MaxListens /\ r = ListenRequest(r.path, r.spec)
         /\ r.type = "unlisten" => r.path \in ViewPaths
         /\ r.type = "put" => r.id \in 1 .. LastPut /\ r.id \in Nat
  BY BoundsAssumption DEF Request, ListenRequest

LEMMA MessageFacts ==
  ASSUME NEW m \in Message
  PROVE  /\ m.type \in {"data", "listen", "put"}
         /\ m.type = "data" => m.node \in Nodes
         /\ m.type = "listen" => m.path \in ViewPaths /\ m.spec \in 1 .. MaxListens /\ m.ok \in BOOLEAN
         /\ m.type = "put" => m.id \in 1 .. LastPut /\ m.id \in Nat /\ m.ok \in BOOLEAN
  BY BoundsAssumption DEF Message, Nodes

(* A listen to the path p is asked for or answered. *)
Asked(q, p, s) == \E k \in DOMAIN q : q[k].type = "listen" /\ q[k].path = p /\ q[k].spec = s

LEMMA AskedConcat ==
  ASSUME NEW S, NEW s \in Seq(S), NEW t \in Seq(S), NEW p, NEW spec,
         Asked(s, p, spec) \/ Asked(t, p, spec)
  PROVE  Asked(s \o t, p, spec)
<1> DEFINE u == s \o t
<1>1. /\ Len(s) \in Nat /\ Len(t) \in Nat
      /\ DOMAIN s = 1 .. Len(s) /\ DOMAIN t = 1 .. Len(t) /\ DOMAIN u = 1 .. Len(s) + Len(t)
      /\ \A k \in DOMAIN s : u[k] = s[k]
      /\ \A k \in DOMAIN t : u[Len(s) + k] = t[k]
  BY ConcatAt
<1> HIDE DEF u
<1>2. (\A k \in DOMAIN s : k \in DOMAIN u) /\ (\A j \in DOMAIN t : Len(s) + j \in DOMAIN u)
  BY <1>1
<1>3. Asked(u, p, spec)
  BY <1>1, <1>2 DEF Asked
<1> QED
  BY <1>3 DEF u

LEMMA AskedWithout ==
  ASSUME NEW S, NEW s \in Seq(S), NEW k \in DOMAIN s, NEW p, NEW spec, Asked(s, p, spec),
         ~(s[k].type = "listen" /\ s[k].path = p /\ s[k].spec = spec)
  PROVE  Asked(RemoveAt(s, k), p, spec)
<1> DEFINE t == RemoveAt(s, k)
<1>1. /\ Len(s) \in Nat \ {0} /\ DOMAIN s = 1 .. Len(s) /\ DOMAIN t = 1 .. Len(s) - 1
      /\ \A j \in 1 .. Len(s) - 1 : t[j] = IF j < k THEN s[j] ELSE s[j + 1]
  BY RemoveAtAt
<1> HIDE DEF t
<1>2. PICK o \in DOMAIN s : s[o].type = "listen" /\ s[o].path = p /\ s[o].spec = spec
  BY DEF Asked
<1>3. o # k
  BY <1>2
<1>4. \E j \in DOMAIN t : t[j] = s[o]
  <2>1. CASE o < k
    BY <1>1, <2>1
  <2>2. CASE ~(o < k)
    <3>1. o - 1 \in DOMAIN t /\ ~(o - 1 < k) /\ (o - 1) + 1 = o
      BY <1>1, <1>3, <2>2
    <3> QED BY <1>1, <3>1
  <2> QED BY <2>1, <2>2
<1>5. Asked(t, p, spec)
  BY <1>2, <1>4 DEF Asked
<1> QED
  BY <1>5 DEF t

LEMMA AskedTail ==
  ASSUME NEW S, NEW s \in Seq(S), s # <<>>, NEW p, NEW spec, Asked(s, p, spec),
         ~(Head(s).type = "listen" /\ Head(s).path = p /\ Head(s).spec = spec)
  PROVE  Asked(Tail(s), p, spec)
<1> DEFINE t == Tail(s)
<1>1. /\ Len(s) \in Nat \ {0} /\ DOMAIN s = 1 .. Len(s) /\ DOMAIN t = 1 .. Len(s) - 1
      /\ Head(s) = s[1]
      /\ \A k \in 1 .. Len(s) - 1 : t[k] = s[k + 1]
  BY TailAt
<1> HIDE DEF t
<1>2. PICK o \in DOMAIN s : s[o].type = "listen" /\ s[o].path = p /\ s[o].spec = spec
  BY DEF Asked
<1>3. o # 1
  BY <1>1, <1>2
<1>4. \E j \in DOMAIN t : t[j] = s[o]
  <2>1. o - 1 \in DOMAIN t /\ (o - 1) + 1 = o
    BY <1>1, <1>3
  <2> QED BY <1>1, <2>1
<1>5. Asked(t, p, spec)
  BY <1>2, <1>4 DEF Asked
<1> QED
  BY <1>5 DEF t

(* Requests for m listens, numbered from n + 1. *)
Batch(rs, n, m) ==
  /\ rs \in Seq(Request) /\ Proper(rs)
  /\ Specs(rs) = n + 1 .. n + m /\ PutIds(rs) = {}

LEMMA ListenBatch ==
  ASSUME listenCalls \in Nat, NEW ps \in Seq(ViewPaths), listenCalls + Len(ps) <= MaxListens
  PROVE  /\ Batch(ListenRequests(ps), listenCalls, Len(ps))
         /\ \A k \in DOMAIN ps : Asked(ListenRequests(ps), ps[k], listenCalls + k)
<1> DEFINE rs == ListenRequests(ps)
           n == listenCalls
<1>1. Len(ps) \in Nat /\ DOMAIN ps = 1 .. Len(ps) /\ \A k \in DOMAIN ps : ps[k] \in ViewPaths
  OBVIOUS
<1>2. DOMAIN rs = DOMAIN ps /\ \A k \in DOMAIN ps : rs[k] = ListenRequest(ps[k], n + k)
  BY DEF ListenRequests
<1>3. \A k \in DOMAIN ps : rs[k] \in Request
  <2>1. ASSUME NEW k \in DOMAIN ps PROVE ListenRequest(ps[k], n + k) \in Request
    <3>1. n + k \in 1 .. MaxListens
      BY <1>1, BoundsAssumption
    <3> QED BY <1>1, <3>1 DEF ListenRequest, Request
  <2> QED BY <1>2, <2>1
<1>4. rs = [k \in 1 .. Len(ps) |-> rs[k]]
  BY <1>1 DEF ListenRequests
<1>5. \A k \in DOMAIN rs : rs[k].type = "listen" /\ rs[k].spec = n + k /\ rs[k].path = ps[k]
  BY <1>2 DEF ListenRequest
<1> HIDE DEF rs
<1>6. rs \in Seq(Request)
  BY <1>1, <1>2, <1>3, <1>4
<1>7. Proper(rs)
  BY <1>1, <1>2, <1>5 DEF Proper
<1>8. PutIds(rs) = {}
  BY <1>5 DEF PutIds
<1>9. Specs(rs) = n + 1 .. n + Len(ps)
  <2>1. ASSUME NEW x \in n + 1 .. n + Len(ps) PROVE x \in Specs(rs)
    <3>1. x - n \in DOMAIN rs /\ x = n + (x - n)
      BY <1>1, <1>2
    <3> QED BY <1>5, <3>1, SpecsAt
  <2>2. ASSUME NEW x \in Specs(rs) PROVE x \in n + 1 .. n + Len(ps)
    <3>1. PICK k \in DOMAIN rs : rs[k].spec = x
      BY SpecsAt
    <3> QED BY <1>1, <1>2, <1>5, <3>1
  <2> QED BY <2>1, <2>2
<1>10. \A k \in DOMAIN ps : Asked(rs, ps[k], n + k)
  BY <1>2, <1>5 DEF Asked
<1> QED
  BY <1>6, <1>7, <1>8, <1>9, <1>10 DEF Batch, rs

LEMMA UnlistenBatch ==
  ASSUME NEW n \in Nat, NEW ps \in Seq(ViewPaths)
  PROVE  Batch(UnlistenRequests(ps), n, 0)
<1> DEFINE rs == UnlistenRequests(ps)
<1>1. Len(ps) \in Nat /\ DOMAIN ps = 1 .. Len(ps) /\ \A k \in DOMAIN ps : ps[k] \in ViewPaths
  OBVIOUS
<1>2. DOMAIN rs = DOMAIN ps /\ \A k \in DOMAIN ps : rs[k] = UnlistenRequest(ps[k])
  BY DEF UnlistenRequests
<1>3. \A k \in DOMAIN ps : rs[k] \in Request
  BY <1>1, <1>2 DEF UnlistenRequest, Request
<1>4. rs = [k \in 1 .. Len(ps) |-> rs[k]]
  BY <1>1 DEF UnlistenRequests
<1>5. \A k \in DOMAIN rs : rs[k].type = "unlisten"
  BY <1>2 DEF UnlistenRequest
<1> HIDE DEF rs
<1>6. rs \in Seq(Request)
  BY <1>1, <1>2, <1>3, <1>4
<1>7. Proper(rs) /\ PutIds(rs) = {} /\ Specs(rs) = {}
  BY <1>5 DEF PutIds, Proper, Specs
<1>8. n + 1 .. n + 0 = {}
  OBVIOUS
<1> QED
  BY <1>6, <1>7, <1>8 DEF Batch, rs

LEMMA BatchConcat ==
  ASSUME NEW n \in Nat, NEW m \in Nat, NEW rs, Batch(rs, n, m), NEW qs, Batch(qs, n, 0)
  PROVE  Batch(rs \o qs, n, m)
<1>1. n + 1 .. n + 0 = {}
  OBVIOUS
<1>2. rs \in Seq(Request) /\ qs \in Seq(Request) /\ rs \o qs \in Seq(Request)
  BY DEF Batch
<1>3. Below(PutIds(rs), PutIds(qs)) /\ Specs(rs) \cap Specs(qs) = {}
  BY <1>1 DEF Batch, Below
<1> QED
  <2> DEFINE u == rs \o qs
  <2>1. /\ Proper(rs) /\ Proper(qs) /\ Specs(rs) = n + 1 .. n + m /\ Specs(qs) = {}
        /\ PutIds(rs) = {} /\ PutIds(qs) = {}
    BY <1>1 DEF Batch
  <2>2. /\ Specs(u) = Specs(rs) \cup Specs(qs) /\ PutIds(u) = PutIds(rs) \cup PutIds(qs)
        /\ Proper(u)
    <3>1. rs \in Seq(Request) /\ qs \in Seq(Request)
      BY <1>2
    <3>2. Specs(rs \o qs) = Specs(rs) \cup Specs(qs) /\ PutIds(rs \o qs) = PutIds(rs) \cup PutIds(qs)
      BY <3>1, ConcatMessages
    <3>3. Proper(rs \o qs)
      BY <1>3, <2>1, <3>1, ConcatMessages
    <3> QED BY <3>2, <3>3
  <2> HIDE DEF u
  <2>3. Specs(u) = n + 1 .. n + m /\ PutIds(u) = {} /\ Proper(u)
    BY <2>1, <2>2
  <2> QED BY <1>2, <2>3 DEF Batch, u

(* Requests and messages, and the count of the listens without an answer.  *)
Lines(u, d, n, c) ==
  /\ n \in Nat
  /\ u \in Seq(Request) /\ d \in Seq(Message) /\ Proper(u) /\ Proper(d)
  /\ Specs(u) \cap Specs(d) = {}
  /\ Specs(u) \cup Specs(d) \in SUBSET (1 .. n)
  /\ c = Cardinality(Specs(u) \cup Specs(d))

LEMMA LinesCount ==
  ASSUME NEW u, NEW d, NEW n, NEW c, Lines(u, d, n, c)
  PROVE  /\ IsFiniteSet(Specs(u) \cup Specs(d)) /\ c \in 0 .. n
         /\ c = 0 <=> Specs(u) = {} /\ Specs(d) = {}
<1>1. n \in Nat /\ IsFiniteSet(1 .. n) /\ Cardinality(1 .. n) = n
  BY FS_Interval DEF Lines
<1>2. IsFiniteSet(Specs(u) \cup Specs(d)) /\ c <= n
  BY <1>1, FS_Subset DEF Lines
<1>3. c \in Nat
  BY <1>2, FS_CardinalityType DEF Lines
<1> QED
  <2> DEFINE W == Specs(u) \cup Specs(d)
  <2>1. c = Cardinality(W)
    BY DEF Lines
  <2>2. W = {} <=> Specs(u) = {} /\ Specs(d) = {}
    OBVIOUS
  <2> HIDE DEF W
  <2>3. Cardinality(W) = 0 <=> W = {}
    BY <1>2, FS_EmptySet DEF W
  <2>4. c \in 0 .. n
    BY <1>1, <1>2, <1>3
  <2>5. c = 0 <=> Specs(u) = {} /\ Specs(d) = {}
    BY <2>1, <2>2, <2>3
  <2> QED BY <1>2, <2>4, <2>5

LEMMA LinesLost ==
  ASSUME NEW n \in Nat
  PROVE  Lines(<<>>, <<>>, n, 0)
<1> DEFINE e == <<>>
<1>1. e \in Seq(Request) /\ e \in Seq(Message)
  OBVIOUS
<1>2. Specs(e) = {} /\ Proper(e)
  BY NoMessages
<1> HIDE DEF e
<1>3. Specs(e) \cup Specs(e) = {} /\ Specs(e) \cap Specs(e) = {} /\ {} \in SUBSET (1 .. n)
  BY <1>2
<1>4. Cardinality({}) = 0
  BY FS_EmptySet
<1>5. Lines(e, e, n, 0)
  BY <1>1, <1>2, <1>3, <1>4 DEF Lines
<1> QED
  BY <1>5 DEF e

LEMMA LinesSent ==
  ASSUME NEW u, NEW d, NEW n, NEW c, Lines(u, d, n, c), NEW m \in Nat, NEW rs, Batch(rs, n, m)
  PROVE  Lines(u \o rs, d, n + m, c + m) /\ PutIds(u \o rs) = PutIds(u)
<1> DEFINE W == Specs(u) \cup Specs(d)
           B == n + 1 .. n + m
<1>1. n \in Nat /\ u \in Seq(Request) /\ rs \in Seq(Request) /\ u \o rs \in Seq(Request)
  BY DEF Lines, Batch
<1>2. W \cap B = {}
  BY <1>1 DEF Lines
<1>3. Specs(u) \cap Specs(rs) = {} /\ Below(PutIds(u), PutIds(rs))
  BY <1>2 DEF Batch, Below
<1>4. Specs(u \o rs) = Specs(u) \cup B /\ PutIds(u \o rs) = PutIds(u) /\ Proper(u \o rs)
  <2> DEFINE v == u \o rs
  <2>1. Proper(u) /\ Proper(rs) /\ Specs(rs) = B /\ PutIds(rs) = {}
    BY DEF Lines, Batch
  <2>2. /\ Specs(v) = Specs(u) \cup Specs(rs) /\ PutIds(v) = PutIds(u) \cup PutIds(rs)
        /\ Proper(v)
    <3>1. u \in Seq(Request) /\ rs \in Seq(Request)
      BY <1>1
    <3>2. Specs(u \o rs) = Specs(u) \cup Specs(rs) /\ PutIds(u \o rs) = PutIds(u) \cup PutIds(rs)
      BY <3>1, ConcatMessages
    <3>3. Proper(u \o rs)
      BY <1>3, <2>1, <3>1, ConcatMessages
    <3> QED BY <3>2, <3>3
  <2> HIDE DEF v
  <2>3. Specs(v) = Specs(u) \cup B /\ PutIds(v) = PutIds(u) /\ Proper(v)
    BY <2>1, <2>2
  <2> QED BY <2>3 DEF v
<1>5. Cardinality(B) = m /\ IsFiniteSet(B)
  BY <1>1, FS_Interval
<1>6. IsFiniteSet(W) /\ c = Cardinality(W) /\ c \in Nat
  <2>1. IsFiniteSet(W) /\ c \in 0 .. n
    BY LinesCount
  <2>2. c = Cardinality(W)
    BY DEF Lines
  <2> QED BY <1>1, <2>1, <2>2
<1>7. Cardinality(W \cup B) = c + m
  <2> HIDE DEF W, B
  <2>1. Cardinality(W \cup B) = Cardinality(W) + Cardinality(B) - Cardinality({})
    BY <1>2, <1>5, <1>6, FS_Union
  <2>2. Cardinality({}) = 0
    BY FS_EmptySet
  <2> QED BY <1>5, <1>6, <2>1, <2>2
<1>8. Specs(u \o rs) \cup Specs(d) = W \cup B
  BY <1>4
<1>9. W \cup B \in SUBSET (1 .. n + m)
  BY <1>1 DEF Lines
<1>10. Specs(u \o rs) \cap Specs(d) = {}
  BY <1>2, <1>4 DEF Lines
<1> HIDE DEF W, B
<1>11. n + m \in Nat
  BY <1>1
<1> QED
  BY <1>1, <1>4, <1>7, <1>8, <1>9, <1>10, <1>11 DEF Lines

LEMMA LinesPut ==
  ASSUME NEW u, NEW d, NEW n, NEW c, Lines(u, d, n, c), NEW i \in 1 .. LastPut,
         Below(PutIds(u), {i})
  PROVE  Lines(u \o <<PutRequest(i)>>, d, n, c) /\ PutIds(u \o <<PutRequest(i)>>) = PutIds(u) \cup {i}
<1> DEFINE rs == <<PutRequest(i)>>
<1>1. PutRequest(i) \in Request
  BY DEF PutRequest, Request
<1>2. rs \in Seq(Request) /\ DOMAIN rs = {1} /\ rs[1].type = "put" /\ rs[1].id = i
  BY <1>1 DEF PutRequest
<1> HIDE DEF rs
<1>3. Specs(rs) = {} /\ PutIds(rs) = {i} /\ Proper(rs)
  BY <1>2 DEF Specs, PutIds, Proper
<1>4. u \in Seq(Request) /\ u \o rs \in Seq(Request)
  BY <1>2 DEF Lines
<1>5. Specs(u \o rs) = Specs(u) /\ PutIds(u \o rs) = PutIds(u) \cup {i} /\ Proper(u \o rs)
  <2>1. Proper(u) /\ Specs(u) \cap Specs(rs) = {} /\ Below(PutIds(u), PutIds(rs))
    BY <1>3 DEF Lines
  <2> DEFINE v == u \o rs
  <2>2. /\ Specs(v) = Specs(u) \cup Specs(rs) /\ PutIds(v) = PutIds(u) \cup PutIds(rs)
        /\ Proper(v)
    <3>1. u \in Seq(Request) /\ rs \in Seq(Request)
      BY <1>2, <1>4
    <3>2. Specs(u \o rs) = Specs(u) \cup Specs(rs) /\ PutIds(u \o rs) = PutIds(u) \cup PutIds(rs)
      BY <3>1, ConcatMessages
    <3>3. Proper(u \o rs)
      BY <1>3, <2>1, <3>1, ConcatMessages
    <3> QED BY <3>2, <3>3
  <2> HIDE DEF v
  <2>3. Specs(v) = Specs(u) /\ PutIds(v) = PutIds(u) \cup {i} /\ Proper(v)
    BY <1>3, <2>2
  <2> QED BY <2>3 DEF v
<1>6. Lines(u \o rs, d, n, c)
  BY <1>4, <1>5 DEF Lines
<1> QED
  BY <1>5, <1>6 DEF rs

(* The server takes the k-th request and answers with t. *)
Handled(u, d, n, c, k, t) ==
  /\ Lines(RemoveAt(u, k), d \o t, n, c)
  /\ Below(PutIds(d \o t), PutIds(RemoveAt(u, k)))
  /\ PutIds(RemoveAt(u, k)) \cup PutIds(d \o t) = PutIds(u) \cup PutIds(d)

LEMMA LinesHandled ==
  ASSUME NEW u, NEW d, NEW n, NEW c, Lines(u, d, n, c), Below(PutIds(d), PutIds(u)),
         NEW k \in DOMAIN u, u[k].type = "put" => \A j \in 1 .. k - 1 : u[j].type # "put",
         NEW t \in Seq(Message), Proper(t),
         u[k].type = "listen" => Specs(t) = {u[k].spec} /\ PutIds(t) = {},
         u[k].type = "put" => Specs(t) = {} /\ PutIds(t) = {u[k].id},
         u[k].type = "unlisten" => Specs(t) = {} /\ PutIds(t) = {}
  PROVE  Handled(u, d, n, c, k, t)
<1> DEFINE v == RemoveAt(u, k)
           e == d \o t
<1>1. u \in Seq(Request) /\ d \in Seq(Message) /\ e \in Seq(Message) /\ v \in Seq(Request)
  BY RemoveAtAt DEF Lines
<1>2. u[k] \in Request
  BY <1>1
<1>3. u[k].type \in {"listen", "unlisten", "put"}
  BY <1>2, RequestFacts
<1>4. Without(u, k, v)
  BY <1>1, RequestFacts, WithoutMessage DEF Lines
<1>5. Specs(e) = Specs(d) \cup Specs(t) /\ PutIds(e) = PutIds(d) \cup PutIds(t)
  BY <1>1, ConcatMessages
<1>6. Specs(d) \cap Specs(t) = {} /\ Below(PutIds(d), PutIds(t))
  BY <1>3, <1>4 DEF Lines, Without, Below
<1>7. Proper(e)
  BY <1>1, <1>6, ConcatMessages DEF Lines
<1> HIDE DEF v, e
<1>8. Specs(v) \cup Specs(e) = Specs(u) \cup Specs(d)
  BY <1>3, <1>4, <1>5 DEF Without
<1>9. PutIds(v) \cup PutIds(e) = PutIds(u) \cup PutIds(d)
  BY <1>3, <1>4, <1>5 DEF Without
<1>10. Specs(v) \cap Specs(e) = {}
  BY <1>3, <1>4, <1>5 DEF Without, Lines
<1>11. Below(PutIds(e), PutIds(v))
  <2>1. PutIds(v) \subseteq PutIds(u)
    BY <1>3, <1>4 DEF Without
  <2>2. Below(PutIds(t), PutIds(v))
    BY <1>3, <1>4 DEF Without, Below
  <2> QED BY <1>5, <2>1, <2>2 DEF Below
<1>12. Lines(v, e, n, c)
  BY <1>1, <1>4, <1>7, <1>8, <1>10 DEF Lines, Without
<1> QED
  BY <1>9, <1>11, <1>12 DEF Handled, v, e

(* The first message is received. *)
LEMMA LinesReceived ==
  ASSUME NEW u, NEW d, NEW n, NEW c, Lines(u, d, n, c), d # <<>>
  PROVE  /\ Head(d) \in Message
         /\ Lines(u, Tail(d), n, IF Head(d).type = "listen" THEN c - 1 ELSE c)
         /\ Head(d).type = "put" =>
              PutIds(d) = PutIds(Tail(d)) \cup {Head(d).id} /\ Below({Head(d).id}, PutIds(Tail(d)))
         /\ Head(d).type # "put" => PutIds(Tail(d)) = PutIds(d)
<1> DEFINE v == Tail(d)
           m == d[1]
           W == Specs(u) \cup Specs(d)
<1>1. d \in Seq(Message) /\ v \in Seq(Message) /\ Head(d) \in Message
  BY DEF Lines
<1>2. /\ Without(d, 1, v) /\ Head(d) = m /\ 1 \in DOMAIN d
      /\ m.type = "put" => Below({m.id}, PutIds(v))
  BY <1>1, MessageFacts, WithoutHead DEF Lines
<1> HIDE DEF v
<1>3. IsFiniteSet(W) /\ c = Cardinality(W)
  BY LinesCount DEF Lines
<1>4. CASE m.type = "listen"
  <2>1. Specs(u) \cup Specs(v) = W \ {m.spec} /\ m.spec \in W
    BY <1>2, <1>4 DEF Without, Lines
  <2>2. Cardinality(W \ {m.spec}) = c - 1
    BY <1>3, <2>1, FS_RemoveElement
  <2>3. Lines(u, v, n, c - 1)
    BY <1>1, <1>2, <1>4, <2>1, <2>2 DEF Lines, Without
  <2> QED BY <1>1, <1>2, <1>4, <2>3 DEF Without, v
<1>5. CASE m.type # "listen"
  <2>1. Lines(u, v, n, c)
    BY <1>1, <1>2, <1>5 DEF Lines, Without
  <2> QED BY <1>1, <1>2, <1>5, <2>1 DEF Without, v
<1> QED
  BY <1>4, <1>5

-----------------------------------------------------------------------------
(* The pending writes, and the acknowledgements held back *)

Acks == [id : 1 .. LastPut, ok : BOOLEAN]
Held(acks) == {acks[k].id : k \in DOMAIN acks}

(* The leaves whose last write is one of those in held. *)
LastIn(allw, held) == {l \in Leaves : \E k \in DOMAIN allw : LastAt(allw, l, k) /\ allw[k].id \in held}

(* Where the shortcuts of removeWriteId may have left a value too old: the *)
(* last write is held back and a later one was acknowledged.               *)
Stale(allw, acks, w) ==
  {l \in Leaves : \E k \in DOMAIN allw :
     /\ LastAt(allw, l, k) /\ allw[k].id \in Held(acks)
     /\ \E x \in DOMAIN w : x > allw[k].id /\ x \notin Ids(allw)}

(* The acknowledgements held back are those of the first writes, in order. *)
HeldFirst(allw, acks) ==
  /\ acks \in Seq(Acks)
  /\ \A j, k \in DOMAIN acks : j < k => acks[j].id < acks[k].id
  /\ Held(acks) \subseteq Ids(allw)
  /\ Below(Held(acks), Ids(allw) \ Held(acks))

(* The tree, with what is held back, after the writes w. *)
Consistent(t, acks, w) ==
  /\ Sound(t) /\ FaithfulBut(t, {})
  /\ w \in Seq(WritePaths) /\ Ids(t.allWrites) \subseteq 1 .. Len(w)
  /\ HeldFirst(t.allWrites, acks)
  /\ LayeredBut(t.visibleWrites, t.allWrites, Stale(t.allWrites, acks, w))

LEMMA IdsAt ==
  ASSUME NEW allw \in Seq(Pending)
  PROVE  /\ \A k \in DOMAIN allw : allw[k].id \in Ids(allw)
         /\ \A i \in Ids(allw) : i \in 1 .. LastPut /\ i \in Nat /\ \E k \in DOMAIN allw : allw[k].id = i
<1>1. LastPut \in Nat
  BY BoundsAssumption
<1> QED
  BY <1>1, PendingAt DEF Ids

LEMMA LastLeaf ==
  ASSUME NEW allw \in Seq(Pending), NEW l, NEW k, LastAt(allw, l, k)
  PROVE  l \in Leaves /\ k \in DOMAIN allw
<1>1. k \in DOMAIN allw /\ l \in DOMAIN allw[k].node
  BY DEF LastAt
<1>2. DOMAIN allw[k].node \in Paths
  BY <1>1, PendingAt
<1> QED
  BY <1>1, <1>2, PathFacts

(* Nothing else changes the writes. *)
LEMMA ConsistentSame ==
  ASSUME NEW t, NEW acks, NEW w, Consistent(t, acks, w), NEW u, Sound(u), FaithfulBut(u, {}),
         u.allWrites = t.allWrites, u.visibleWrites = t.visibleWrites
  PROVE  Consistent(u, acks, w)
  BY DEF Consistent

LEMMA ConsistentFilled ==
  ASSUME NEW t, NEW acks, NEW w, Consistent(t, acks, w), NEW u, NEW q, FilledFrom(t, u, q)
  PROVE  Consistent(u, acks, w)
<1>1. FaithfulBut(t, {})
  BY DEF Consistent
<1>2. /\ Sound(u) /\ FaithfulBut(u, {})
      /\ u.allWrites = t.allWrites /\ u.visibleWrites = t.visibleWrites
  BY <1>1 DEF FilledFrom
<1> QED
  BY <1>2, ConsistentSame

(* FRepo's set. *)
SetTree(t, u, acks, v, i) ==
  /\ Consistent(u, acks, v)
  /\ u.regs = t.regs /\ Ids(u.allWrites) = Ids(t.allWrites) \cup {i}
  /\ Below(Ids(t.allWrites), {i})
  /\ \A q \in ViewPaths : u.views[q].serverFull = t.views[q].serverFull

LEMMA ConsistentSet ==
  ASSUME NEW t, NEW acks, NEW w, Consistent(t, acks, w), NEW p \in WritePaths,
         NEW i, i = Len(w) + 1, i \in 1 .. LastPut, NEW node \in Node(p),
         NEW u, u = ApplyUserOverwrite(t, i, node)
  PROVE  SetTree(t, u, acks, Append(w, p), i)
<1> DEFINE allw == t.allWrites
           new == u.allWrites
           record == [id |-> i, node |-> node]
           v == Append(w, p)
<1>1. /\ Sound(t) /\ FaithfulBut(t, {}) /\ w \in Seq(WritePaths) /\ Ids(allw) \subseteq 1 .. Len(w)
      /\ HeldFirst(allw, acks)
      /\ LayeredBut(t.visibleWrites, allw, Stale(allw, acks, w))
  BY DEF Consistent
<1>2. node \in WriteNodes /\ DOMAIN node = p
  <2>1. Node(p) \in {Node(x) : x \in WritePaths}
    OBVIOUS
  <2> QED BY <2>1 DEF WriteNodes, Node
<1>3. Len(w) \in Nat /\ DOMAIN w = 1 .. Len(w) /\ DOMAIN v = 1 .. Len(w) + 1 /\ v \in Seq(WritePaths)
      /\ Len(v) = Len(w) + 1
  BY <1>1
<1>4. \A j \in Ids(allw) : j < i /\ j \in Nat
  BY <1>1, <1>3
<1>5. WrittenTree(t, u, i, node)
  BY <1>1, <1>2, <1>4, UserOverwriteTree
<1>6. /\ Sound(u) /\ FaithfulBut(u, {}) /\ new = Append(allw, record)
      /\ u.visibleWrites = AddWrite(t.visibleWrites, node) /\ u.regs = t.regs
      /\ \A q \in ViewPaths : u.views[q].serverFull = t.views[q].serverFull
  BY <1>1, <1>5 DEF WrittenTree
<1>7. record \in Pending /\ record.node = node /\ record.id = i
  BY <1>2 DEF Pending
<1>8. allw \in Seq(Pending)
  BY <1>1, TreeFields DEF Sound
<1> HIDE DEF record
<1>9. /\ Len(allw) \in Nat /\ DOMAIN allw = 1 .. Len(allw) /\ DOMAIN new = 1 .. Len(allw) + 1
      /\ \A k \in 1 .. Len(allw) : new[k] = allw[k]
      /\ new[Len(allw) + 1] = record
      /\ new \in Seq(Pending)
  <2> DEFINE z == Append(allw, record)
  <2>1. /\ Len(allw) \in Nat /\ DOMAIN allw = 1 .. Len(allw) /\ DOMAIN z = 1 .. Len(allw) + 1
        /\ \A k \in 1 .. Len(allw) : z[k] = allw[k]
        /\ z[Len(allw) + 1] = record
        /\ z \in Seq(Pending)
    BY <1>7, <1>8, AppendAt
  <2>2. new = z
    BY <1>6
  <2> HIDE DEF z, new
  <2> QED BY <2>1, <2>2
<1> HIDE DEF new, v
<1>10. Ids(new) = Ids(allw) \cup {i}
  <2>1. ASSUME NEW x PROVE x \in Ids(new) <=> x \in Ids(allw) \/ x = i
    <3>1. Len(allw) + 1 \in DOMAIN new /\ \A k \in DOMAIN allw : k \in DOMAIN new
      BY <1>9
    <3>2. \A k \in DOMAIN new : k \in DOMAIN allw \/ k = Len(allw) + 1
      BY <1>9
    <3> QED BY <1>7, <1>9, <3>1, <3>2 DEF Ids
  <2> QED BY <2>1
<1>11. HeldFirst(new, acks)
  <2>1. Held(acks) \subseteq Ids(new)
    BY <1>1, <1>10 DEF HeldFirst
  <2>2. Below(Held(acks), Ids(new) \ Held(acks))
    <3>1. ASSUME NEW a \in Held(acks), NEW b \in Ids(new) \ Held(acks) PROVE a < b
      <4>1. a \in Ids(allw)
        BY <1>1 DEF HeldFirst
      <4>2. CASE b = i
        BY <1>4, <4>1, <4>2
      <4>3. CASE b # i
        BY <1>1, <1>10, <4>3 DEF HeldFirst, Below
      <4> QED BY <4>2, <4>3
    <3> QED BY <3>1 DEF Below
  <2> QED BY <1>1, <2>1, <2>2 DEF HeldFirst
<1>12. LayeredBut(u.visibleWrites, new, Stale(allw, acks, w) \ DOMAIN node)
  <2> DEFINE stale == Stale(allw, acks, w)
  <2>1. LayeredBut(t.visibleWrites, allw, stale)
    BY <1>1
  <2> HIDE DEF stale
  <2>2. LayeredBut(AddWrite(t.visibleWrites, record.node), Append(allw, record), stale \ DOMAIN record.node)
    BY <1>7, <1>8, <2>1, LayeredAppend
  <2>3. LayeredBut(AddWrite(t.visibleWrites, node), Append(allw, record), stale \ DOMAIN node)
    BY <1>7, <2>2
  <2>4. u.visibleWrites = AddWrite(t.visibleWrites, node) /\ new = Append(allw, record)
    BY <1>6 DEF new
  <2> QED BY <2>3, <2>4 DEF stale
<1>13. ASSUME NEW l \in Stale(allw, acks, w) \ DOMAIN node PROVE l \in Stale(new, acks, v)
  <2>1. PICK k : /\ LastAt(allw, l, k) /\ allw[k].id \in Held(acks)
                 /\ \E x \in DOMAIN w : x > allw[k].id /\ x \notin Ids(allw)
    BY DEF Stale
  <2>2. PICK x \in DOMAIN w : x > allw[k].id /\ x \notin Ids(allw)
    BY <2>1
  <2>3. k \in DOMAIN allw /\ new[k] = allw[k] /\ k \in DOMAIN new
    BY <1>9, <2>1 DEF LastAt
  <2>4. LastAt(new, l, k)
    <3>1. ASSUME NEW j \in DOMAIN new, j > k PROVE l \notin DOMAIN new[j].node
      <4>1. CASE j \in DOMAIN allw
        BY <1>9, <2>1, <3>1, <4>1 DEF LastAt
      <4>2. CASE j \notin DOMAIN allw
        <5>1. new[j] = record
          BY <1>9, <4>2
        <5> QED BY <1>7, <5>1
      <4> QED BY <4>1, <4>2
    <3> QED BY <2>1, <2>3, <3>1 DEF LastAt
  <2>5. x \in DOMAIN v /\ x # i
    BY <1>3
  <2>6. x \notin Ids(new)
    BY <1>10, <2>2, <2>5
  <2>7. l \in Leaves
    BY DEF Stale
  <2> QED BY <2>1, <2>2, <2>3, <2>4, <2>5, <2>6, <2>7 DEF Stale
<1>14. LayeredBut(u.visibleWrites, new, Stale(new, acks, v))
  <2>1. Stale(allw, acks, w) \ DOMAIN node \subseteq Stale(new, acks, v)
    BY <1>13
  <2> QED BY <1>12, <2>1, LayeredMore
<1>15. Ids(new) \subseteq 1 .. Len(v)
  BY <1>1, <1>3, <1>10
<1>16. Consistent(u, acks, v)
  BY <1>3, <1>6, <1>11, <1>14, <1>15 DEF Consistent, new
<1>17. Below(Ids(allw), {i})
  BY <1>4 DEF Below
<1> QED
  BY <1>6, <1>10, <1>16, <1>17 DEF new, v, SetTree

(* The first pending write is acknowledged. *)
LEMMA AckFirst ==
  ASSUME NEW t, Sound(t), AllFull(t), NEW i \in Ids(t.allWrites),
         \A j \in Ids(t.allWrites) : i <= j,
         NEW held, i \notin held,
         LayeredBut(t.visibleWrites, t.allWrites, LastIn(t.allWrites, held \cup {i})),
         FaithfulBut(t, LastIn(t.allWrites, held \cup {i})),
         NEW u, AckedTree(t, u, i)
  PROVE  /\ LayeredBut(u.visibleWrites, u.allWrites, LastIn(u.allWrites, held))
         /\ FaithfulBut(u, LastIn(u.allWrites, held))
<1> DEFINE allw == t.allWrites
           rest == u.allWrites
           k == IndexOf(allw, i)
           except == LastIn(allw, held \cup {i})
           more == LastIn(rest, held)
<1>1. allw \in Seq(Pending) /\ Ascending(allw)
  BY TreeFields DEF Sound, WellFormed
<1>2. k \in DOMAIN allw /\ allw[k].id = i
  BY IndexOfAt
<1>3. rest = RemoveAt(allw, k)
  BY DEF AckedTree
<1>4. Rest(allw, k, rest)
  BY <1>1, <1>2, <1>3, RestAt
<1>5. rest \in Seq(Pending)
  BY <1>4 DEF Rest
<1> HIDE DEF k
<1>6. \A l \in except : \E j : LastAt(allw, l, j)
  BY DEF LastIn
<1>7. \A o \in DOMAIN allw : o # k => o > k /\ allw[o].id # i
  <2>1. ASSUME NEW o \in DOMAIN allw, o # k PROVE o > k /\ allw[o].id # i
    <3>1. o \in Nat /\ k \in Nat /\ allw[o].id \in Nat /\ allw[o].id \in Ids(allw) /\ i \in Nat
      BY <1>1, <1>2, IdsAt
    <3>2. ~(allw[o].id < i)
      BY <3>1
    <3>3. ~(o < k)
      BY <1>1, <1>2, <3>2 DEF Ascending
    <3>4. o > k
      BY <2>1, <3>1, <3>3
    <3>5. i < allw[o].id
      BY <1>1, <1>2, <3>4 DEF Ascending
    <3> QED BY <3>1, <3>4, <3>5
  <2> QED BY <2>1
<1>8. ASSUME NEW l, NEW j, LastAt(rest, l, j), l \notin more
      PROVE  l \notin except /\ ~LastAt(allw, l, k)
  <2>1. j \in DOMAIN rest /\ l \in DOMAIN rest[j].node
    BY <1>8 DEF LastAt
  <2>2. PICK a \in DOMAIN allw : a # k /\ rest[j] = allw[a]
    BY <1>4, <2>1 DEF Rest
  <2>3. ~LastAt(allw, l, k)
    BY <1>7, <2>1, <2>2 DEF LastAt
  <2>4. PICK o \in DOMAIN allw : o # k /\ rest[j] = allw[o] /\ LastAt(allw, l, o)
    BY <1>1, <1>2, <1>3, <1>8, <2>3, LastInRest
  <2>5. l \in Leaves
    BY <1>5, <1>8, LastLeaf
  <2>6. rest[j].id \notin held
    BY <1>8, <2>1, <2>5 DEF LastIn
  <2>7. allw[o].id \notin held \cup {i}
    BY <1>7, <2>4, <2>6
  <2>8. ASSUME l \in except PROVE FALSE
    <3>1. PICK b : LastAt(allw, l, b) /\ allw[b].id \in held \cup {i}
      BY <2>8 DEF LastIn
    <3>2. b = o
      BY <1>1, <2>4, <3>1, LastUnique
    <3> QED BY <2>7, <3>1, <3>2
  <2> QED BY <2>3, <2>8
<1> HIDE DEF except, more
<1>9. \A l, j : LastAt(rest, l, j) /\ l \notin more => l \notin except /\ ~LastAt(allw, l, k)
  BY <1>8
<1>10. LayeredBut(t.visibleWrites, allw, except) /\ FaithfulBut(t, except)
  BY DEF except
<1>11. LayeredBut(u.visibleWrites, rest, more) /\ FaithfulBut(u, more)
  BY <1>6, <1>9, <1>10, AckFaithful DEF k
<1> QED
  BY <1>11 DEF more

LEMMA HeldAt ==
  ASSUME NEW acks \in Seq(Acks)
  PROVE  /\ \A k \in DOMAIN acks : acks[k].id \in Held(acks) /\ acks[k].id \in 1 .. LastPut
         /\ \A k \in DOMAIN acks : acks[k].id \in Nat /\ acks[k].ok \in BOOLEAN
         /\ \A x \in Held(acks) : x \in Nat /\ \E k \in DOMAIN acks : acks[k].id = x
         /\ Len(acks) \in Nat /\ DOMAIN acks = 1 .. Len(acks)
<1>1. Len(acks) \in Nat /\ DOMAIN acks = 1 .. Len(acks) /\ \A k \in DOMAIN acks : acks[k] \in Acks
  OBVIOUS
<1>2. \A k \in DOMAIN acks : acks[k].id \in 1 .. LastPut /\ acks[k].id \in Nat /\ acks[k].ok \in BOOLEAN
  BY <1>1, BoundsAssumption DEF Acks
<1> QED
  BY <1>1, <1>2 DEF Held

LEMMA NoneHeld ==
  ASSUME NEW allw, NEW w
  PROVE  HeldFirst(allw, <<>>) /\ Stale(allw, <<>>, w) = {} /\ LastIn(allw, {}) = {}
<1>1. <<>> \in Seq(Acks) /\ DOMAIN <<>> = {}
  OBVIOUS
<1>2. Held(<<>>) = {}
  BY <1>1 DEF Held
<1>3. HeldFirst(allw, <<>>)
  BY <1>1, <1>2 DEF HeldFirst, Below
<1>4. Stale(allw, <<>>, w) = {}
  BY <1>2 DEF Stale
<1>5. LastIn(allw, {}) = {}
  BY DEF LastIn
<1> QED
  BY <1>3, <1>4, <1>5

LEMMA FaithfulMore ==
  ASSUME NEW t, NEW except, NEW more, except \subseteq more, FaithfulBut(t, except)
  PROVE  FaithfulBut(t, more)
  BY DEF FaithfulBut

(* The acknowledgements after the m-th. *)
After(acks, m) == {acks[j].id : j \in {x \in DOMAIN acks : x > m}}

(* The first m are applied. *)
Turn(t, s, acks, m) ==
  /\ Sound(s) /\ AllFull(s) /\ s.regs = t.regs
  /\ Ids(s.allWrites) = Ids(t.allWrites) \ {acks[j].id : j \in {x \in DOMAIN acks : x <= m}}
  /\ LayeredBut(s.visibleWrites, s.allWrites, LastIn(s.allWrites, After(acks, m)))
  /\ FaithfulBut(s, LastIn(s.allWrites, After(acks, m)))

LEMMA FirstTurn ==
  ASSUME NEW t, NEW acks, NEW w, Consistent(t, acks, w), AllFull(t)
  PROVE  Turn(t, t, acks, 0)
<1> DEFINE allw == t.allWrites
<1>1. HeldFirst(allw, acks) /\ Sound(t) /\ FaithfulBut(t, {})
      /\ LayeredBut(t.visibleWrites, allw, Stale(allw, acks, w))
  BY DEF Consistent
<1>2. acks \in Seq(Acks)
  BY <1>1 DEF HeldFirst
<1>3. Len(acks) \in Nat /\ DOMAIN acks = 1 .. Len(acks)
  BY <1>2, HeldAt
<1>4. {acks[j].id : j \in {x \in DOMAIN acks : x <= 0}} = {}
  BY <1>3
<1>5. Held(acks) \subseteq After(acks, 0)
  BY <1>3 DEF Held, After
<1>6. Stale(allw, acks, w) \subseteq LastIn(allw, After(acks, 0))
  BY <1>5 DEF Stale, LastIn
<1>7. LayeredBut(t.visibleWrites, allw, LastIn(allw, After(acks, 0)))
  BY <1>1, <1>6, LayeredMore
<1>8. FaithfulBut(t, LastIn(allw, After(acks, 0)))
  BY <1>1, FaithfulMore
<1> QED
  BY <1>1, <1>4, <1>7, <1>8 DEF Turn

LEMMA NextTurn ==
  ASSUME NEW t, NEW acks, NEW w, Consistent(t, acks, w), NEW m \in Nat, m + 1 \in DOMAIN acks,
         NEW s, Turn(t, s, acks, m),
         NEW u, u = ApplyAck(s, acks[m + 1].id, acks[m + 1].ok)
  PROVE  Turn(t, u, acks, m + 1)
<1> DEFINE i == acks[m + 1].id
           held == After(acks, m + 1)
           before(n) == {acks[j].id : j \in {x \in DOMAIN acks : x <= n}}
<1>1. HeldFirst(t.allWrites, acks)
  BY DEF Consistent
<1>2. acks \in Seq(Acks) /\ \A j, k \in DOMAIN acks : j < k => acks[j].id < acks[k].id
  BY <1>1 DEF HeldFirst
<1>3. /\ Len(acks) \in Nat /\ DOMAIN acks = 1 .. Len(acks) /\ \A k \in DOMAIN acks : acks[k].id \in Nat
      /\ \A k \in DOMAIN acks : acks[k].id \in Held(acks)
      /\ \A x \in Held(acks) : \E k \in DOMAIN acks : acks[k].id = x
  BY <1>2, HeldAt
<1>4. Sound(s) /\ AllFull(s) /\ Ids(s.allWrites) = Ids(t.allWrites) \ before(m) /\ s.regs = t.regs
  BY DEF Turn
<1>5. \A j \in DOMAIN acks : acks[j].id = i => j = m + 1
  <2>1. ASSUME NEW j \in DOMAIN acks, acks[j].id = i PROVE ~(j < m + 1) /\ ~(m + 1 < j)
    BY <1>2, <1>3, <2>1
  <2> QED BY <1>3, <2>1
<1>6. i \in Ids(s.allWrites)
  <2>1. i \in Ids(t.allWrites)
    BY <1>1, <1>3 DEF HeldFirst
  <2>2. i \notin before(m)
    BY <1>3, <1>5
  <2> QED BY <1>4, <2>1, <2>2
<1>7. ASSUME NEW x \in Ids(s.allWrites) PROVE i <= x
  <2>1. x \in Ids(t.allWrites) /\ x \notin before(m)
    BY <1>4, <1>7
  <2>2. CASE x \in Held(acks)
    <3>1. PICK k \in DOMAIN acks : acks[k].id = x
      BY <1>3, <2>2
    <3>2. ~(k <= m)
      BY <2>1, <3>1
    <3>3. k = m + 1 \/ m + 1 < k
      BY <1>3, <3>1, <3>2
    <3> QED BY <1>2, <1>3, <3>1, <3>3
  <2>3. CASE x \notin Held(acks)
    <3>1. i \in Held(acks)
      BY <1>3
    <3>2. i < x
      BY <1>1, <2>1, <2>3, <3>1 DEF HeldFirst, Below
    <3>3. x \in Nat
      BY <1>4, <1>7, IdsAt, TreeFields DEF Sound
    <3> QED BY <1>3, <3>2, <3>3
  <2> QED BY <2>2, <2>3
<1>8. After(acks, m) = held \cup {i}
  <2>1. ASSUME NEW j \in DOMAIN acks PROVE j > m <=> j = m + 1 \/ j > m + 1
    BY <1>3
  <2> QED BY <2>1 DEF After
<1>9. i \notin held
  BY <1>3, <1>5 DEF After
<1>10. before(m + 1) = before(m) \cup {i}
  <2>1. ASSUME NEW j \in DOMAIN acks PROVE j <= m + 1 <=> j = m + 1 \/ j <= m
    BY <1>3
  <2> QED BY <2>1
<1>11. AckedTree(s, u, i)
  BY <1>4, <1>6, AckTree
<1> HIDE DEF i, held, before
<1>12. LayeredBut(s.visibleWrites, s.allWrites, LastIn(s.allWrites, held \cup {i}))
       /\ FaithfulBut(s, LastIn(s.allWrites, held \cup {i}))
  BY <1>8 DEF Turn
<1>13. /\ LayeredBut(u.visibleWrites, u.allWrites, LastIn(u.allWrites, held))
       /\ FaithfulBut(u, LastIn(u.allWrites, held))
  BY <1>4, <1>6, <1>7, <1>9, <1>11, <1>12, AckFirst
<1>14. Sound(u) /\ AllFull(u) /\ u.regs = t.regs /\ Ids(u.allWrites) = Ids(t.allWrites) \ before(m + 1)
  BY <1>4, <1>10, <1>11 DEF AckedTree
<1> QED
  BY <1>13, <1>14 DEF Turn, held, before

(* ackPuts, when every listen has its answer. *)
LEMMA ConsistentBatch ==
  ASSUME NEW t, NEW acks, NEW w, Consistent(t, acks, w), AllFull(t),
         NEW u, u = ApplyAcks(t, acks)
  PROVE  /\ Consistent(u, <<>>, w) /\ AllFull(u) /\ u.regs = t.regs
         /\ Ids(u.allWrites) = Ids(t.allWrites) \ Held(acks)
<1> DEFINE n == Len(acks)
<1>1. HeldFirst(t.allWrites, acks)
  BY DEF Consistent
<1>2. acks \in Seq(Acks)
  BY <1>1 DEF HeldFirst
<1>3. n \in Nat /\ DOMAIN acks = 1 .. n
  BY <1>2, HeldAt
<1> HIDE DEF n
<1>4. PICK g : /\ ApplyAcks(t, acks) = g[1 .. n]
               /\ g[{}] = t
               /\ \A m \in 0 .. n - 1 :
                    g[1 .. m + 1] = ApplyAck(g[1 .. m], acks[m + 1].id, acks[m + 1].ok)
  BY <1>3, AcksInTurns
<1> DEFINE A == {m \in Nat : m <= n => Turn(t, g[1 .. m], acks, m)}
<1>5. 0 \in A
  <2>1. 1 .. 0 = {}
    OBVIOUS
  <2> QED BY <1>4, <2>1, FirstTurn
<1>6. ASSUME NEW m \in Nat, m \in A, m + 1 <= n PROVE Turn(t, g[1 .. m + 1], acks, m + 1)
  <2>1. m \in 0 .. n - 1 /\ m + 1 \in DOMAIN acks /\ m <= n
    BY <1>3, <1>6
  <2>2. g[1 .. m + 1] = ApplyAck(g[1 .. m], acks[m + 1].id, acks[m + 1].ok)
    BY <1>4, <2>1
  <2>3. Turn(t, g[1 .. m], acks, m)
    BY <1>6, <2>1
  <2> QED BY <2>1, <2>2, <2>3, NextTurn
<1>7. \A m \in Nat : m \in A => m + 1 \in A
  BY <1>6
<1>8. Nat \subseteq A
  <2> HIDE DEF A
  <2> QED BY <1>5, <1>7, NatInductiveSet
<1>9. n \in A
  BY <1>3, <1>8
<1>10. Turn(t, u, acks, n)
  BY <1>3, <1>4, <1>9
<1>11. After(acks, n) = {} /\ {acks[j].id : j \in {x \in DOMAIN acks : x <= n}} = Held(acks)
  BY <1>3 DEF After, Held
<1>12. /\ Sound(u) /\ AllFull(u) /\ u.regs = t.regs
       /\ Ids(u.allWrites) = Ids(t.allWrites) \ Held(acks)
       /\ LayeredBut(u.visibleWrites, u.allWrites, LastIn(u.allWrites, {}))
       /\ FaithfulBut(u, LastIn(u.allWrites, {}))
  BY <1>10, <1>11 DEF Turn
<1>13. HeldFirst(u.allWrites, <<>>) /\ Stale(u.allWrites, <<>>, w) = {} /\ LastIn(u.allWrites, {}) = {}
  BY NoneHeld
<1>14. w \in Seq(WritePaths) /\ Ids(u.allWrites) \subseteq 1 .. Len(w)
  BY <1>12 DEF Consistent
<1>15. Consistent(u, <<>>, w)
  BY <1>12, <1>13, <1>14 DEF Consistent
<1> QED
  BY <1>12, <1>15

(* A write is acknowledged as soon as it is answered. *)
LEMMA ConsistentAck ==
  ASSUME NEW t, NEW acks, NEW w, Consistent(t, acks, w), AllFull(t),
         acks = <<>> \/ Viewed(t.regs) = {},
         NEW i \in Ids(t.allWrites) \ Held(acks), \A j \in Ids(t.allWrites) \ Held(acks) : i <= j,
         NEW ok, NEW u, u = ApplyAck(t, i, ok)
  PROVE  /\ Consistent(u, acks, w) /\ AllFull(u) /\ u.regs = t.regs
         /\ Ids(u.allWrites) = Ids(t.allWrites) \ {i}
<1> DEFINE allw == t.allWrites
           rest == u.allWrites
           k == IndexOf(allw, i)
<1>1. /\ Sound(t) /\ FaithfulBut(t, {}) /\ HeldFirst(allw, acks)
      /\ w \in Seq(WritePaths) /\ Ids(allw) \subseteq 1 .. Len(w)
      /\ LayeredBut(t.visibleWrites, allw, Stale(allw, acks, w))
  BY DEF Consistent
<1>2. AckedTree(t, u, i)
  BY <1>1, AckTree
<1>3. Sound(u) /\ AllFull(u) /\ u.regs = t.regs /\ Ids(rest) = Ids(allw) \ {i}
      /\ rest = RemoveAt(allw, k)
      /\ u.visibleWrites = RemoveWriteId(allw, t.visibleWrites, i).visibleWrites
  BY <1>2 DEF AckedTree
<1>4. HeldFirst(rest, acks)
  BY <1>1, <1>3 DEF HeldFirst, Below
<1>5. LayeredBut(u.visibleWrites, rest, Stale(rest, acks, w)) /\ FaithfulBut(u, {})
  <2>1. CASE acks = <<>>
    <3>1. Held(acks) = {}
      BY <2>1 DEF Held
    <3>2. Stale(allw, acks, w) = {} /\ Stale(rest, acks, w) = {} /\ LastIn(rest, {}) = {}
      BY <2>1, NoneHeld
    <3>3. LayeredBut(t.visibleWrites, allw, LastIn(allw, {} \cup {i}))
      BY <1>1, <3>2, LayeredMore
    <3>4. FaithfulBut(t, LastIn(allw, {} \cup {i}))
      BY <1>1, FaithfulMore
    <3>5. i \notin {} /\ \A j \in Ids(allw) : i <= j
      BY <3>1
    <3>6. LayeredBut(u.visibleWrites, rest, LastIn(rest, {})) /\ FaithfulBut(u, LastIn(rest, {}))
      BY <1>1, <1>2, <3>3, <3>4, <3>5, AckFirst
    <3> QED BY <3>2, <3>6
  <2>2. CASE Viewed(t.regs) = {}
    <3>1. FaithfulBut(u, {})
      BY <1>3, <2>2 DEF FaithfulBut
    <3> DEFINE except == Stale(allw, acks, w)
               more == Stale(rest, acks, w)
    <3>2. allw \in Seq(Pending) /\ Ascending(allw) /\ rest \in Seq(Pending)
      BY <1>1, <1>3, TreeFields DEF Sound, WellFormed
    <3>3. k \in DOMAIN allw /\ allw[k].id = i
      BY IndexOfAt
    <3>4. i \in DOMAIN w /\ i \in Nat
      BY <1>1, <3>2, IdsAt
    <3>5. Rest(allw, k, rest)
      BY <1>3, <3>2, <3>3, RestAt
    <3> HIDE DEF k
    <3>6. ASSUME NEW l, NEW j, LastAt(rest, l, j), l \notin more
          PROVE  l \notin except /\ ~LastAt(allw, l, k)
      <4>1. j \in DOMAIN rest /\ l \in DOMAIN rest[j].node /\ l \in Leaves
        BY <3>2, <3>6, LastLeaf DEF LastAt
      <4>2. rest[j].id \in Ids(rest) /\ rest[j].id \in Nat
        BY <3>2, <4>1, IdsAt
      <4>3. rest[j].id \notin Held(acks)
        <5>1. ASSUME rest[j].id \in Held(acks) PROVE FALSE
          <6>1. i > rest[j].id
            BY <1>1, <3>4, <4>2, <5>1 DEF HeldFirst, Below
          <6>2. i \notin Ids(rest)
            BY <1>3
          <6>3. l \in more
            BY <3>4, <3>6, <4>1, <5>1, <6>1, <6>2 DEF Stale
          <6> QED BY <3>6, <6>3
        <5> QED BY <5>1
      <4>4. i < rest[j].id
        BY <1>3, <3>4, <4>2, <4>3
      <4>5. PICK a \in DOMAIN allw : a # k /\ rest[j] = allw[a]
        BY <3>5, <4>1 DEF Rest
      <4>6. a > k
        <5>1. ~(a < k)
          BY <3>2, <3>3, <3>4, <4>2, <4>4, <4>5 DEF Ascending
        <5> QED BY <3>2, <3>3, <4>5, <5>1
      <4>7. ~LastAt(allw, l, k)
        BY <4>1, <4>5, <4>6 DEF LastAt
      <4>8. PICK o \in DOMAIN allw : o # k /\ rest[j] = allw[o] /\ LastAt(allw, l, o)
        BY <1>3, <3>2, <3>3, <3>6, <4>7, LastInRest
      <4>9. ASSUME l \in except PROVE FALSE
        <5>1. PICK b : LastAt(allw, l, b) /\ allw[b].id \in Held(acks)
          BY <4>9 DEF Stale
        <5>2. b = o
          BY <3>2, <4>8, <5>1, LastUnique
        <5> QED BY <4>3, <4>8, <5>1, <5>2
      <4> QED BY <4>7, <4>9
    <3> HIDE DEF except, more
    <3>7. LayeredBut(t.visibleWrites, allw, except)
      BY <1>1 DEF except
    <3>8. \A l, j : LastAt(rest, l, j) /\ l \notin more => l \notin except /\ ~LastAt(allw, l, k)
      BY <3>6
    <3>9. LayeredBut(RemoveWriteId(allw, t.visibleWrites, i).visibleWrites, rest, more)
      BY <1>3, <3>2, <3>7, <3>8, LayeredRemove DEF k
    <3> QED BY <1>3, <3>1, <3>9 DEF more
  <2> QED BY <2>1, <2>2
<1>6. Consistent(u, acks, w)
  BY <1>1, <1>3, <1>4, <1>5 DEF Consistent
<1> QED
  BY <1>3, <1>6

(* An acknowledgement is held back. *)
HeldBack(t, more, w, held) == Consistent(t, more, w) /\ Held(more) = held

LEMMA ConsistentHold ==
  ASSUME NEW t, NEW acks, NEW w, Consistent(t, acks, w),
         NEW a \in Acks, a.id \in Ids(t.allWrites) \ Held(acks),
         \A j \in Ids(t.allWrites) \ Held(acks) : a.id <= j
  PROVE  HeldBack(t, Append(acks, a), w, Held(acks) \cup {a.id})
<1> DEFINE allw == t.allWrites
           i == a.id
           more == Append(acks, a)
<1>1. /\ Sound(t) /\ HeldFirst(allw, acks)
      /\ LayeredBut(t.visibleWrites, allw, Stale(allw, acks, w))
  BY DEF Consistent
<1>2. acks \in Seq(Acks) /\ allw \in Seq(Pending)
  BY <1>1, TreeFields DEF HeldFirst, Sound
<1>3. \A x \in Ids(allw) : x \in 1 .. LastPut /\ x \in Nat
  BY <1>2, IdsAt
<1>4. a \in Acks /\ a.id = i /\ i \in Ids(allw) \ Held(acks) /\ \A j \in Ids(allw) \ Held(acks) : i <= j
  OBVIOUS
<1>5. /\ more \in Seq(Acks) /\ Len(acks) \in Nat /\ DOMAIN acks = 1 .. Len(acks)
      /\ DOMAIN more = 1 .. Len(acks) + 1
      /\ \A k \in 1 .. Len(acks) : more[k] = acks[k]
      /\ more[Len(acks) + 1] = a
  BY <1>2, <1>4, AppendAt
<1> HIDE DEF more, i
<1>6. Held(more) = Held(acks) \cup {i}
  <2>1. Len(acks) + 1 \in DOMAIN more /\ \A k \in DOMAIN acks : k \in DOMAIN more
    BY <1>5
  <2>2. \A k \in DOMAIN more : k \in DOMAIN acks \/ k = Len(acks) + 1
    BY <1>5
  <2>3. ASSUME NEW x PROVE x \in Held(more) <=> x \in Held(acks) \/ x = i
    BY <1>4, <1>5, <2>1, <2>2 DEF Held
  <2> QED BY <2>3
<1>7. \A x \in Held(acks) : x < i
  BY <1>1, <1>4 DEF HeldFirst, Below
<1>8. ASSUME NEW j \in DOMAIN more, NEW k \in DOMAIN more, j < k PROVE more[j].id < more[k].id
  <2>1. CASE k \in DOMAIN acks
    BY <1>1, <1>5, <1>8, <2>1 DEF HeldFirst
  <2>2. CASE k \notin DOMAIN acks
    <3>1. more[k] = a /\ j \in DOMAIN acks
      BY <1>5, <1>8, <2>2
    <3>2. more[j].id \in Held(acks)
      BY <1>5, <3>1 DEF Held
    <3> QED BY <1>4, <1>7, <3>1, <3>2
  <2> QED BY <2>1, <2>2
<1>9. Below(Held(more), Ids(allw) \ Held(more))
  <2>1. ASSUME NEW y \in Ids(allw) \ Held(more) PROVE i < y
    BY <1>3, <1>4, <1>6, <2>1
  <2> QED BY <1>1, <1>6, <2>1 DEF HeldFirst, Below
<1>10. HeldFirst(allw, more)
  BY <1>1, <1>4, <1>5, <1>6, <1>8, <1>9 DEF HeldFirst
<1>11. Stale(allw, acks, w) \subseteq Stale(allw, more, w)
  BY <1>6 DEF Stale
<1>12. LayeredBut(t.visibleWrites, allw, Stale(allw, more, w))
  BY <1>1, <1>11, LayeredMore
<1> QED
  BY <1>6, <1>10, <1>12 DEF Consistent, HeldBack, more, i

-----------------------------------------------------------------------------
(* The inductive invariant *)

(* While connected, a view that is listened to and does not know all the   *)
(* server has waits for the answer of its current listen.                  *)
Waits(ls, vs, u, d, on) ==
  on => \A q \in ViewPaths : ls[q] # 0 /\ ~vs[q].serverFull => Asked(u, q, ls[q]) \/ Asked(d, q, ls[q])

(* Writes on their way are the pending ones that have no acknowledgement,  *)
(* and those answered come first.                                          *)
PutsOut(allw, acks, u, d, on) ==
  /\ Below(PutIds(d), PutIds(u))
  /\ on => PutIds(u) \cup PutIds(d) = Ids(allw) \ Held(acks)

(* An acknowledgement stays held back, though no listen waits, only while  *)
(* nothing is observed.                                                    *)
Quiet(rs, c, acks, on) == on /\ c = 0 /\ acks # <<>> => Viewed(rs) = {}

Wire ==
  /\ Listening(listens, listenCalls, Roots(regs)) /\ listenCalls <= MaxListens
  /\ Lines(up, down, listenCalls, unackedListensCount)
  /\ ~connected => up = <<>> /\ down = <<>>
  /\ PutsOut(allWrites, putsToAck, up, down, connected)
  /\ Waits(listens, views, up, down, connected)
  /\ Quiet(regs, unackedListensCount, putsToAck, connected)

Others ==
  /\ connected \in BOOLEAN /\ observeCalls \in 0 .. MaxObserves /\ troubles \in 0 .. MaxTroubles
  /\ db \in Node(Leaves) /\ watched \subseteq ViewPaths /\ denied \subseteq 1 .. LastPut
  /\ ~connected => watched = {}

IInv == Consistent(Tree, putsToAck, written) /\ Wire /\ Others

LEMMA TreeNext ==
  ASSUME NEW t, t \in Trees, TreeBecomes(t)
  PROVE  Tree' = t
<1>1. t = [allWrites |-> t.allWrites, visibleWrites |-> t.visibleWrites, regs |-> t.regs,
           views |-> t.views, raised |-> t.raised, fired |-> t.fired]
  BY DEF Trees
<1> QED
  BY <1>1 DEF TreeBecomes, Tree

LEMMA TreeAt ==
  /\ Tree.allWrites = allWrites /\ Tree.visibleWrites = visibleWrites /\ Tree.regs = regs
  /\ Tree.views = views /\ Tree.raised = raised /\ Tree.fired = fired
  BY DEF Tree

LEMMA ConsistentParts ==
  ASSUME NEW t, NEW acks, NEW w, Consistent(t, acks, w)
  PROVE  /\ Sound(t) /\ t \in Trees /\ WellFormed(t) /\ Filled(t) /\ t.allWrites \in Seq(Pending)
         /\ t.regs \in [ViewPaths -> SUBSET Kinds] /\ HeldFirst(t.allWrites, acks)
  BY TreeFields DEF Consistent, Sound, WellFormed

(* A root-most view is at or above every view. *)
LEMMA RootAbove ==
  ASSUME NEW rs, NEW p \in Viewed(rs)
  PROVE  \E r \in Roots(rs) : p \subseteq r
<1> DEFINE S == {q \in Viewed(rs) : p \subseteq q}
<1>1. S \subseteq Paths /\ p \in S
  BY ViewedPath
<1>2. IsFiniteSet(S)
  BY <1>1, PathsAssumption, FS_Subset
<1>3. PICK m \in S : \A s \in S : m \subseteq s => s = m
  <2> HIDE DEF S
  <2> QED BY <1>1, <1>2, MaximalExists
<1>4. ASSUME NEW q \in CoveredBy(rs, m) PROVE FALSE
  <2>1. q \in Viewed(rs) /\ m \subseteq q /\ q # m
    BY DEF CoveredBy
  <2>2. p \subseteq q
    BY <2>1
  <2> QED BY <1>3, <2>1, <2>2
<1> QED
  BY <1>3, <1>4 DEF Roots

(* When no listen waits, every view knows all the server has. *)
LEMMA AllAnswered ==
  ASSUME NEW t, Filled(t), NEW ls, NEW n, Listening(ls, n, Roots(t.regs)),
         NEW u, NEW d, Waits(ls, t.views, u, d, TRUE), Specs(u) = {}, Specs(d) = {}
  PROVE  AllFull(t)
<1>1. ASSUME NEW p \in Viewed(t.regs) PROVE t.views[p].serverFull
  <2>1. PICK r \in Roots(t.regs) : p \subseteq r
    BY RootAbove
  <2>2. r \in Viewed(t.regs) /\ r \in ViewPaths
    BY DEF Roots, Viewed
  <2>3. ls[r] # 0
    BY <2>1, <2>2 DEF Listening
  <2>4. \A q, s : ~Asked(u, q, s) /\ ~Asked(d, q, s)
    BY SpecsAt DEF Asked
  <2>5. t.views[r].serverFull
    BY <2>2, <2>3, <2>4 DEF Waits
  <2> QED BY <2>1, <2>2, <2>5 DEF Filled
<1> QED
  BY <1>1 DEF AllFull

LEMMA LinesMore ==
  ASSUME NEW u, NEW d, NEW n, NEW c, Lines(u, d, n, c), NEW m \in Nat
  PROVE  Lines(u, d, n + m, c)
<1>1. n \in Nat /\ n + m \in Nat /\ 1 .. n \subseteq 1 .. n + m
  BY DEF Lines
<1> QED
  BY <1>1 DEF Lines

(* Requests are sent while connected. *)
LinesOut(rs, m) ==
  /\ Lines(Sent(rs), down, listenCalls + m, unackedListensCount + Counted(m))
  /\ PutIds(Sent(rs)) = PutIds(up)
  /\ \A q, s : Asked(up, q, s) => Asked(Sent(rs), q, s)
  /\ connected => \A q, s : Asked(rs, q, s) => Asked(Sent(rs), q, s)
  /\ ~connected => Sent(rs) = up

LEMMA SentLines ==
  ASSUME Lines(up, down, listenCalls, unackedListensCount), NEW m \in Nat, NEW rs,
         Batch(rs, listenCalls, m)
  PROVE  LinesOut(rs, m)
<1> DEFINE u == Sent(rs)
           n == listenCalls
           c == unackedListensCount
<1>1. up \in Seq(Request) /\ rs \in Seq(Request) /\ n \in Nat
  BY DEF Lines, Batch
<1>2. CASE connected
  <2>1. u = up \o rs /\ Counted(m) = m
    BY <1>2 DEF Sent, Counted
  <2>2. Lines(up \o rs, down, n + m, c + m) /\ PutIds(up \o rs) = PutIds(up)
    BY LinesSent
  <2>3. \A q, s : Asked(up, q, s) \/ Asked(rs, q, s) => Asked(up \o rs, q, s)
    BY <1>1, AskedConcat
  <2> QED BY <1>2, <2>1, <2>2, <2>3 DEF LinesOut
<1>3. CASE ~connected
  <2>1. u = up /\ Counted(m) = 0
    BY <1>3 DEF Sent, Counted
  <2>2. Lines(up, down, n + m, c)
    BY LinesMore
  <2>3. c + 0 = c
    <3>1. c \in 0 .. n
      BY LinesCount
    <3> QED BY <1>1, <3>1
  <2> QED BY <1>3, <2>1, <2>2, <2>3 DEF LinesOut
<1> QED
  BY <1>2, <1>3

(* Data is pushed. *)
Pushed(t) == t \in Seq(Message) /\ Proper(t) /\ Specs(t) = {} /\ PutIds(t) = {}

LEMMA DataPushed ==
  ASSUME NEW t \in Seq(Message), \A k \in DOMAIN t : t[k].type = "data"
  PROVE  Pushed(t)
  BY DEF Pushed, Proper, Specs, PutIds

LEMMA PushesData ==
  ASSUME watched \subseteq ViewPaths, NEW node \in Nodes
  PROVE  Pushed(Pushes(node))
<1> DEFINE q == DOMAIN node
           P == {p \in watched : p \cap q # {}}
           push(p) == [type |-> "data", node |-> Child(node, q \cap p)]
           S == {push(p) : p \in P}
           t == Pushes(node)
<1>1. P \subseteq Paths /\ q \in Paths /\ node \in Node(q)
  BY PathFacts, NodeFacts
<1>2. \A p \in P : push(p) \in Message /\ push(p).type = "data"
  <2>1. ASSUME NEW p \in P PROVE push(p) \in Message
    <3>1. p \subseteq q \/ q \subseteq p
      BY <1>1, PathFacts
    <3>2. q \cap p \in Paths /\ q \cap p \in SUBSET q
      BY <1>1, <3>1, CommonPath
    <3>3. Child(node, q \cap p) \in Node(q \cap p)
      BY <1>1, <3>2, ChildType
    <3>4. Child(node, q \cap p) \in UNION {Node(x) : x \in Paths}
      <4>1. Node(q \cap p) \in {Node(x) : x \in Paths}
        BY <3>2
      <4> QED BY <3>3, <4>1
    <3> QED BY <3>4 DEF Message
  <2> QED BY <2>1
<1>3. IsFiniteSet(P)
  BY <1>1, PathsAssumption, FS_Subset
<1>4. IsFiniteSet(S)
  <2> HIDE DEF P, push
  <2>1. [p \in P |-> push(p)] \in Surjection(P, S)
    BY DEF Surjection
  <2> HIDE DEF S
  <2> QED BY <1>3, <2>1, FS_Surjection
<1>5. t = SetToSeq(S)
  BY DEF Pushes
<1>6. \A m \in S : m \in Message /\ m.type = "data"
  <2> HIDE DEF P, push
  <2> QED BY <1>2
<1> HIDE DEF S, t
<1>7. t \in SetToSeqs(S)
  BY <1>4, <1>5, SomeOrder
<1>8. /\ t \in Seq(S) /\ DOMAIN t = 1 .. Len(t) /\ Len(t) \in Nat
      /\ \A k \in DOMAIN t : t[k] \in S
  BY <1>4, <1>7, InOrderOf
<1>9. t \in Seq(Message)
  BY <1>6, <1>8
<1>10. \A k \in DOMAIN t : t[k].type = "data"
  BY <1>6, <1>8
<1> QED
  BY <1>9, <1>10, DataPushed DEF t

LEMMA LinesPushed ==
  ASSUME NEW u, NEW d, NEW n, NEW c, Lines(u, d, n, c), NEW t, Pushed(t)
  PROVE  Lines(u, d \o t, n, c) /\ PutIds(d \o t) = PutIds(d)
<1> DEFINE e == d \o t
<1>1. d \in Seq(Message) /\ t \in Seq(Message) /\ e \in Seq(Message)
  BY DEF Lines, Pushed
<1>2. Proper(d) /\ Proper(t) /\ Specs(d) \cap Specs(t) = {} /\ Below(PutIds(d), PutIds(t))
      /\ Specs(t) = {} /\ PutIds(t) = {}
  BY DEF Lines, Pushed, Below
<1>3. Specs(e) = Specs(d) \cup Specs(t) /\ PutIds(e) = PutIds(d) \cup PutIds(t)
  BY <1>1, ConcatMessages
<1>4. Proper(e)
  BY <1>1, <1>2, ConcatMessages
<1> HIDE DEF e
<1>5. Specs(e) = Specs(d) /\ PutIds(e) = PutIds(d)
  BY <1>2, <1>3
<1>6. Lines(u, e, n, c)
  BY <1>1, <1>4, <1>5 DEF Lines
<1> QED
  BY <1>5, <1>6 DEF e

-----------------------------------------------------------------------------
(* Each action keeps the invariant *)

LEMMA IInvParts ==
  ASSUME IInv
  PROVE  /\ Consistent(Tree, putsToAck, written) /\ Sound(Tree) /\ Filled(Tree)
         /\ allWrites \in Seq(Pending) /\ regs \in [ViewPaths -> SUBSET Kinds]
         /\ HeldFirst(allWrites, putsToAck)
         /\ Listening(listens, listenCalls, Roots(regs)) /\ listenCalls <= MaxListens
         /\ listenCalls \in Nat
         /\ Lines(up, down, listenCalls, unackedListensCount)
         /\ up \in Seq(Request) /\ down \in Seq(Message)
         /\ ~connected => up = <<>> /\ down = <<>>
         /\ PutsOut(allWrites, putsToAck, up, down, connected)
         /\ Waits(listens, views, up, down, connected)
         /\ Quiet(regs, unackedListensCount, putsToAck, connected)
         /\ Others
<1>1. Consistent(Tree, putsToAck, written) /\ Wire /\ Others
  BY DEF IInv
<1>2. /\ Sound(Tree) /\ Filled(Tree) /\ Tree.allWrites \in Seq(Pending)
      /\ Tree.regs \in [ViewPaths -> SUBSET Kinds] /\ HeldFirst(Tree.allWrites, putsToAck)
  BY <1>1, ConsistentParts
<1>3. up \in Seq(Request) /\ down \in Seq(Message) /\ listenCalls \in Nat
  BY <1>1 DEF Wire, Lines
<1> QED
  BY <1>1, <1>2, <1>3, TreeAt DEF Wire

(* FRepo's set. *)
LEMMA SetStep ==
  ASSUME IInv, NEW p \in WritePaths, NEW remove \in BOOLEAN, Set(p, remove), UNCHANGED troubles
  PROVE  IInv'
<1> DEFINE i == Len(written) + 1
           node == [l \in p |-> IF remove THEN Nil ELSE i]
           u == ApplyUserOverwrite(Tree, i, node)
           rs == <<PutRequest(i)>>
<1>1. /\ i \in 1 .. LastPut /\ written' = Append(written, p) /\ TreeBecomes(u)
      /\ up' = Sent(rs)
      /\ UNCHANGED <<listens, listenCalls, unackedListensCount, putsToAck, observeCalls,
                     connected, down, server>>
  BY DEF Set
<1>2. node \in Node(p)
  <2>1. \A l \in p : (IF remove THEN Nil ELSE i) \in Values
    BY <1>1 DEF Values
  <2> HIDE DEF i
  <2> QED BY <2>1 DEF Node
<1>3. /\ Consistent(Tree, putsToAck, written) /\ Waits(listens, views, up, down, connected)
      /\ Lines(up, down, listenCalls, unackedListensCount)
      /\ PutsOut(allWrites, putsToAck, up, down, connected)
      /\ Quiet(regs, unackedListensCount, putsToAck, connected)
      /\ HeldFirst(allWrites, putsToAck)
      /\ up \in Seq(Request) /\ (~connected => up = <<>> /\ down = <<>>)
      /\ Listening(listens, listenCalls, Roots(regs)) /\ listenCalls <= MaxListens
      /\ Others
  BY IInvParts
<1> HIDE DEF node, rs
<1>4. /\ Consistent(u, putsToAck, Append(written, p))
      /\ u.regs = regs /\ Ids(u.allWrites) = Ids(allWrites) \cup {i}
      /\ Below(Ids(allWrites), {i})
      /\ \A q \in ViewPaths : u.views[q].serverFull = views[q].serverFull
  <2>1. SetTree(Tree, u, putsToAck, Append(written, p), i)
    <3>1. Consistent(Tree, putsToAck, written) /\ i \in 1 .. LastPut
      BY <1>1, <1>3
    <3> QED BY <1>2, <3>1, ConsistentSet
  <2> QED BY <2>1, TreeAt DEF SetTree
<1> HIDE DEF u
<1>5. Tree' = u
  BY <1>1, <1>4, TreeNext, ConsistentParts
<1>6. /\ allWrites' = u.allWrites /\ regs' = regs /\ views' = u.views
  BY <1>1, <1>4 DEF TreeBecomes
<1>7. Consistent(Tree, putsToAck, written)'
  BY <1>1, <1>4, <1>5
<1>8. PutIds(up) \subseteq Ids(allWrites) /\ i \notin Held(putsToAck)
  <2>1. PutIds(up) \subseteq Ids(allWrites)
    BY <1>3, NoMessages DEF PutsOut
  <2>2. ASSUME i \in Held(putsToAck) PROVE FALSE
    <3>1. i \in Ids(allWrites) /\ i < i
      BY <1>3, <1>4, <2>2 DEF HeldFirst, Below
    <3>2. i \in Nat
      BY <1>1, BoundsAssumption
    <3> QED BY <3>1, <3>2
  <2> QED BY <2>1, <2>2
<1>9. Below(PutIds(up), {i}) /\ Below(PutIds(down), {i})
  <2>1. PutIds(down) \subseteq Ids(allWrites)
    BY <1>3, NoMessages DEF PutsOut
  <2> QED BY <1>4, <1>8, <2>1 DEF Below
<1>10. CASE connected
  <2>1. up' = up \o rs
    BY <1>1, <1>10 DEF Sent
  <2>2. Lines(up \o rs, down, listenCalls, unackedListensCount)
        /\ PutIds(up \o rs) = PutIds(up) \cup {i}
    BY <1>1, <1>3, <1>9, LinesPut DEF rs
  <2>3. rs \in Seq(Request)
    <3>1. PutRequest(i) \in Request
      BY <1>1 DEF PutRequest, Request
    <3> HIDE DEF i
    <3> QED BY <3>1 DEF rs
  <2>4. \A q, s : Asked(up, q, s) => Asked(up', q, s)
    BY <1>3, <2>1, <2>3, AskedConcat
  <2>5. Waits(listens', views', up', down', connected')
    BY <1>1, <1>3, <1>4, <1>6, <2>4 DEF Waits
  <2>6. Lines(up', down', listenCalls', unackedListensCount')
    BY <1>1, <2>1, <2>2
  <2>7. PutsOut(allWrites', putsToAck', up', down', connected')
    <3>1. PutIds(up') = PutIds(up) \cup {i}
      BY <2>1, <2>2
    <3>2. Below(PutIds(down), PutIds(up'))
      BY <1>3, <1>9, <3>1 DEF PutsOut, Below
    <3>3. PutIds(up') \cup PutIds(down) = Ids(allWrites') \ Held(putsToAck)
      BY <1>3, <1>4, <1>6, <1>8, <1>10, <3>1 DEF PutsOut
    <3> QED BY <1>1, <3>2, <3>3 DEF PutsOut
  <2>8. Listening(listens', listenCalls', Roots(regs')) /\ listenCalls' <= MaxListens
    BY <1>1, <1>3, <1>6
  <2>9. Quiet(regs', unackedListensCount', putsToAck', connected')
    BY <1>1, <1>3, <1>6
  <2> QED
    BY <1>1, <1>7, <1>10, <2>5, <2>6, <2>7, <2>8, <2>9, <1>3 DEF IInv, Wire, Others, server
<1>11. CASE ~connected
  <2>1. up' = up
    BY <1>1, <1>11 DEF Sent
  <2>2. Waits(listens', views', up', down', connected')
    BY <1>1, <1>11 DEF Waits
  <2>3. PutsOut(allWrites', putsToAck', up', down', connected')
    BY <1>1, <1>3, <1>11, <2>1 DEF PutsOut
  <2>4. Lines(up', down', listenCalls', unackedListensCount')
    BY <1>1, <1>3, <2>1
  <2>5. Listening(listens', listenCalls', Roots(regs')) /\ listenCalls' <= MaxListens
    BY <1>1, <1>3, <1>6
  <2>6. Quiet(regs', unackedListensCount', putsToAck', connected')
    BY <1>1, <1>3, <1>6
  <2>7. up' = <<>> /\ down' = <<>>
    BY <1>1, <1>3, <1>11, <2>1
  <2> QED
    BY <1>1, <1>7, <2>2, <2>3, <2>4, <2>5, <2>6, <2>7, <1>3 DEF IInv, Wire, Others, server
<1> QED
  BY <1>10, <1>11

(* The requests of listens that start, and of those that end, are sent. *)
Relistens(ps, stopped, rs) ==
  /\ Listening(listens', listenCalls', (Roots(regs) \ stopped) \cup {ps[k] : k \in DOMAIN ps})
  /\ listenCalls' <= MaxListens /\ listenCalls' = listenCalls + Len(ps)
  /\ \A q \in ViewPaths : (\A k \in DOMAIN ps : ps[k] # q) =>
       listens'[q] = IF q \in stopped THEN 0 ELSE listens[q]
  /\ LinesOut(rs, Len(ps))
  /\ connected => \A k \in DOMAIN ps : Asked(Sent(rs), ps[k], listens'[ps[k]])

LEMMA ListensSent ==
  ASSUME IInv, NEW ps \in Seq(ViewPaths), \A j, k \in DOMAIN ps : ps[j] = ps[k] => j = k,
         NEW stopped, Started(ps, stopped), NEW qs \in Seq(ViewPaths),
         NEW rs, rs = ListenRequests(ps) \o UnlistenRequests(qs) \/ rs = ListenRequests(ps)
  PROVE  Relistens(ps, stopped, rs)
<1> DEFINE n == listenCalls
<1>1. /\ n + Len(ps) <= MaxListens /\ listenCalls' = n + Len(ps)
      /\ listens' = ListensAfter(listens, n, ps, stopped)
  BY DEF Started, ListensAfter
<1>2. Listening(listens, n, Roots(regs)) /\ n \in Nat
      /\ Lines(up, down, n, unackedListensCount) /\ up \in Seq(Request)
  BY IInvParts
<1>3. /\ Listening(listens', n + Len(ps), (Roots(regs) \ stopped) \cup {ps[k] : k \in DOMAIN ps})
      /\ \A k \in DOMAIN ps : listens'[ps[k]] = n + k
      /\ \A p \in ViewPaths : (\A k \in DOMAIN ps : ps[k] # p) =>
           listens'[p] = IF p \in stopped THEN 0 ELSE listens[p]
  <2>1. NewListens(listens', listens, n, Roots(regs), ps, stopped)
    BY <1>1, <1>2, StartedListens
  <2> QED BY <2>1 DEF NewListens
<1>4. /\ Batch(ListenRequests(ps), n, Len(ps))
      /\ \A k \in DOMAIN ps : Asked(ListenRequests(ps), ps[k], n + k)
  BY <1>1, <1>2, ListenBatch
<1>5. Batch(UnlistenRequests(qs), n, 0)
  BY <1>2, UnlistenBatch
<1>6. Len(ps) \in Nat
  OBVIOUS
<1>7. Batch(rs, n, Len(ps))
  BY <1>2, <1>4, <1>5, <1>6, BatchConcat
<1>8. \A k \in DOMAIN ps : Asked(rs, ps[k], n + k)
  <2>1. ListenRequests(ps) \in Seq(Request) /\ UnlistenRequests(qs) \in Seq(Request)
    BY <1>4, <1>5 DEF Batch
  <2> QED BY <1>4, <2>1, AskedConcat
<1>9. LinesOut(rs, Len(ps))
  BY <1>2, <1>6, <1>7, SentLines
<1>10. ASSUME connected, NEW k \in DOMAIN ps PROVE Asked(Sent(rs), ps[k], listens'[ps[k]])
  BY <1>3, <1>8, <1>9, <1>10 DEF LinesOut
<1> QED
  BY <1>1, <1>3, <1>9, <1>10 DEF Relistens

(* The listens follow the views. *)
Kept(u) ==
  /\ Consistent(u, putsToAck, written) /\ u.allWrites = allWrites
  /\ \A q \in Viewed(regs) \cap Viewed(u.regs) : u.views[q] = views[q]

Aside ==
  /\ observeCalls' \in 0 .. MaxObserves
  /\ UNCHANGED <<putsToAck, written, connected, down, server, troubles>>

LEMMA Relistened ==
  ASSUME IInv, NEW u, TreeBecomes(u), Kept(u), Aside,
         NEW ps \in Seq(ViewPaths), \A j, k \in DOMAIN ps : ps[j] = ps[k] => j = k,
         NEW stopped, Started(ps, stopped), NEW qs \in Seq(ViewPaths),
         up' = Sent(ListenRequests(ps) \o UnlistenRequests(qs)),
         unackedListensCount' = unackedListensCount + Counted(Len(ps)),
         Roots(u.regs) = (Roots(regs) \ stopped) \cup {ps[k] : k \in DOMAIN ps},
         Len(ps) = 0 => Viewed(u.regs) \subseteq Viewed(regs)
  PROVE  IInv'
<1> DEFINE rs == ListenRequests(ps) \o UnlistenRequests(qs)
<1>1. up' = Sent(rs) /\ Len(ps) \in Nat /\ DOMAIN ps = 1 .. Len(ps)
  OBVIOUS
<1>2. /\ Lines(up, down, listenCalls, unackedListensCount)
      /\ PutsOut(allWrites, putsToAck, up, down, connected)
      /\ Waits(listens, views, up, down, connected)
      /\ Quiet(regs, unackedListensCount, putsToAck, connected)
      /\ (~connected => up = <<>> /\ down = <<>>)
      /\ listenCalls \in Nat /\ Others
  BY IInvParts
<1>3. /\ Listening(listens', listenCalls', Roots(u.regs))
      /\ listenCalls' <= MaxListens /\ listenCalls' = listenCalls + Len(ps)
      /\ \A q \in ViewPaths : (\A k \in DOMAIN ps : ps[k] # q) =>
           listens'[q] = IF q \in stopped THEN 0 ELSE listens[q]
      /\ LinesOut(rs, Len(ps))
      /\ connected => \A k \in DOMAIN ps : Asked(Sent(rs), ps[k], listens'[ps[k]])
  <2> HIDE DEF rs
  <2>1. rs = ListenRequests(ps) \o UnlistenRequests(qs)
    BY DEF rs
  <2>2. Relistens(ps, stopped, rs)
    BY <2>1, ListensSent
  <2> QED BY <2>2 DEF Relistens
<1> HIDE DEF rs
<1>4. /\ Consistent(u, putsToAck, written) /\ u.allWrites = allWrites
      /\ \A q \in Viewed(regs) \cap Viewed(u.regs) : u.views[q] = views[q]
  BY DEF Kept
<1>5. /\ UNCHANGED <<putsToAck, written, connected, down, troubles>> /\ Others'
  BY <1>2 DEF Aside, Others, server
<1>6. Tree' = u /\ allWrites' = allWrites /\ regs' = u.regs /\ views' = u.views
  <2>1. Tree' = u
    BY <1>4, TreeNext, ConsistentParts
  <2> QED BY <1>4, <2>1 DEF TreeBecomes
<1>7. Consistent(Tree, putsToAck, written)'
  BY <1>4, <1>5, <1>6
<1>8. /\ Lines(up', down', listenCalls', unackedListensCount')
      /\ PutIds(up') = PutIds(up)
      /\ \A q, s : Asked(up, q, s) => Asked(up', q, s)
      /\ (~connected => up' = up)
  BY <1>1, <1>3, <1>5 DEF LinesOut
<1>9. PutsOut(allWrites', putsToAck', up', down', connected')
  BY <1>2, <1>5, <1>6, <1>8 DEF PutsOut
<1>10. Waits(listens', views', up', down', connected')
  <2>1. ASSUME connected, NEW q \in ViewPaths, listens'[q] # 0, ~views'[q].serverFull
        PROVE  Asked(up', q, listens'[q]) \/ Asked(down, q, listens'[q])
    <3>1. CASE \E k \in DOMAIN ps : ps[k] = q
      BY <1>1, <1>3, <2>1, <3>1
    <3>2. CASE \A k \in DOMAIN ps : ps[k] # q
      <4>1. q \in Roots(u.regs)
        BY <1>3, <2>1 DEF Listening
      <4>2. q \in Roots(regs) /\ q \notin stopped
        BY <3>2, <4>1
      <4>3. listens'[q] = listens[q]
        BY <1>3, <3>2, <4>2
      <4>4. q \in Viewed(regs) \cap Viewed(u.regs)
        BY <4>1, <4>2 DEF Roots
      <4>5. ~views[q].serverFull
        BY <1>4, <1>6, <2>1, <4>4
      <4>6. Asked(up, q, listens[q]) \/ Asked(down, q, listens[q])
        BY <1>2, <2>1, <4>3, <4>5 DEF Waits
      <4> QED BY <1>8, <4>3, <4>6
    <3> QED BY <3>1, <3>2
  <2> QED BY <1>5, <2>1 DEF Waits
<1>11. Quiet(regs', unackedListensCount', putsToAck', connected')
  <2>1. ASSUME connected, unackedListensCount' = 0, putsToAck # <<>> PROVE Viewed(u.regs) = {}
    <3>1. unackedListensCount \in Nat
      <4>1. unackedListensCount \in 0 .. listenCalls
        BY <1>2, LinesCount
      <4> QED BY <1>2, <4>1
    <3>2. unackedListensCount = 0 /\ Len(ps) = 0
      BY <1>1, <2>1, <3>1 DEF Counted
    <3> QED BY <1>2, <2>1, <3>2 DEF Quiet
  <2> QED BY <1>5, <1>6, <2>1 DEF Quiet
<1>12. (~connected => up = <<>> /\ down = <<>>)'
  BY <1>2, <1>5, <1>8
<1>13. Wire'
  BY <1>3, <1>6, <1>8, <1>9, <1>10, <1>11, <1>12 DEF Wire
<1> QED
  BY <1>5, <1>7, <1>13 DEF IInv

LEMMA NotRelistened ==
  ASSUME IInv, NEW u, TreeBecomes(u), Kept(u), Aside,
         UNCHANGED <<listens, listenCalls, unackedListensCount, up>>, Roots(u.regs) = Roots(regs)
  PROVE  IInv'
<1>1. /\ Lines(up, down, listenCalls, unackedListensCount)
      /\ PutsOut(allWrites, putsToAck, up, down, connected)
      /\ Waits(listens, views, up, down, connected)
      /\ Quiet(regs, unackedListensCount, putsToAck, connected)
      /\ (~connected => up = <<>> /\ down = <<>>)
      /\ Listening(listens, listenCalls, Roots(regs)) /\ listenCalls <= MaxListens
      /\ Others
  BY IInvParts
<1>2. /\ Consistent(u, putsToAck, written) /\ u.allWrites = allWrites
      /\ \A q \in Viewed(regs) \cap Viewed(u.regs) : u.views[q] = views[q]
  BY DEF Kept
<1>3. /\ UNCHANGED <<putsToAck, written, connected, down, troubles>> /\ Others'
  BY <1>1 DEF Aside, Others, server
<1>4. Tree' = u /\ allWrites' = allWrites /\ regs' = u.regs /\ views' = u.views
  <2>1. Tree' = u
    BY <1>2, TreeNext, ConsistentParts
  <2> QED BY <1>2, <2>1 DEF TreeBecomes
<1>5. Consistent(Tree, putsToAck, written)'
  BY <1>2, <1>3, <1>4
<1>6. Waits(listens', views', up', down', connected')
  <2>1. ASSUME connected, NEW q \in ViewPaths, listens[q] # 0, ~views'[q].serverFull
        PROVE  Asked(up, q, listens[q]) \/ Asked(down, q, listens[q])
    <3>1. q \in Roots(regs) /\ q \in Roots(u.regs)
      BY <1>1, <2>1 DEF Listening
    <3>2. ~views[q].serverFull
      BY <1>2, <1>4, <2>1, <3>1 DEF Roots
    <3> QED BY <1>1, <2>1, <3>2 DEF Waits
  <2> QED BY <1>3, <2>1 DEF Waits
<1>7. Quiet(regs', unackedListensCount', putsToAck', connected')
  <2>1. ASSUME Viewed(regs) = {} PROVE Viewed(u.regs) = {}
    <3>1. Roots(regs) = {}
      BY <2>1 DEF Roots
    <3> QED BY <3>1, RootAbove
  <2> QED BY <1>1, <1>3, <1>4, <2>1 DEF Quiet
<1>8. Wire'
  BY <1>1, <1>3, <1>4, <1>6, <1>7 DEF Wire
<1> QED
  BY <1>3, <1>5, <1>8 DEF IInv

(* addEventRegistration. *)
LEMMA ObserveStep ==
  ASSUME IInv, NEW p \in ViewPaths, NEW kind \in Kinds, Observe(p, kind), UNCHANGED troubles
  PROVE  IInv'
<1> DEFINE u == Registered(Tree, p, kind)
           below == DistinctBelow(regs, p)
<1>1. /\ observeCalls < MaxObserves /\ observeCalls' = observeCalls + 1
      /\ TreeBecomes(u)
      /\ UNCHANGED <<putsToAck, written, connected, down, server>>
  BY DEF Observe
<1>2. Consistent(Tree, putsToAck, written) /\ Sound(Tree) /\ regs \in [ViewPaths -> SUBSET Kinds]
      /\ Others
  BY IInvParts
<1>3. RegisteredTree(Tree, u, p, kind)
  BY <1>2, RegisteredAt
<1> HIDE DEF u
<1>4. /\ u.allWrites = allWrites /\ u.regs = [regs EXCEPT ![p] = @ \cup {kind}]
      /\ \A q \in Viewed(regs) : u.views[q] = views[q]
  BY <1>3, TreeAt DEF RegisteredTree
<1>5. Consistent(u, putsToAck, written)
  <2>1. FaithfulBut(Tree, {})
    BY <1>2 DEF Consistent
  <2>2. Sound(u) /\ FaithfulBut(u, {}) /\ u.allWrites = Tree.allWrites
        /\ u.visibleWrites = Tree.visibleWrites
    BY <1>3, <2>1 DEF RegisteredTree
  <2> QED BY <1>2, <2>2, ConsistentSame
<1>6. Kept(u)
  BY <1>4, <1>5 DEF Kept
<1>7. Aside
  <2>1. observeCalls + 1 \in 0 .. MaxObserves
    BY <1>1, <1>2, BoundsAssumption DEF Others
  <2> QED BY <1>1, <2>1 DEF Aside
<1>8. CASE regs[p] = {} /\ CoveredBy(regs, p) = {}
  <2>1. /\ Started(<<p>>, below)
        /\ \E qs \in SetToSeqs(below) :
             up' = Sent(ListenRequests(<<p>>) \o UnlistenRequests(qs))
        /\ unackedListensCount' = unackedListensCount + Counted(1)
    BY <1>8 DEF Observe
  <2>2. Roots(u.regs) = (Roots(regs) \ below) \cup {p} /\ below \subseteq ViewPaths
    <3>1. \A q \in ViewPaths : u.regs[q] # {} <=> regs[q] # {} \/ q = p
      BY <1>2, <1>4
    <3>2. RootAdded(regs, p, u.regs)
      BY <1>8, <3>1, AddRoot
    <3> QED BY <1>8, <3>2 DEF RootAdded
  <2> HIDE DEF below
  <2>3. IsFiniteSet(below)
    <3>1. below \subseteq Paths
      BY <2>2, PathFacts
    <3> QED BY <3>1, PathsAssumption, FS_Subset
  <2>4. PICK qs \in SetToSeqs(below) : up' = Sent(ListenRequests(<<p>>) \o UnlistenRequests(qs))
    BY <2>1
  <2>5. qs \in Seq(ViewPaths)
    <3>1. qs \in Seq(below)
      BY <2>3, InOrderOf
    <3> QED BY <2>2, <3>1
  <2> DEFINE ps == <<p>>
  <2>6. ps \in Seq(ViewPaths) /\ DOMAIN ps = {1} /\ ps[1] = p /\ Len(ps) = 1
    OBVIOUS
  <2>7. /\ Started(ps, below) /\ up' = Sent(ListenRequests(ps) \o UnlistenRequests(qs))
        /\ unackedListensCount' = unackedListensCount + Counted(Len(ps))
    BY <2>1, <2>4, <2>6
  <2> HIDE DEF ps
  <2>8. /\ \A j, k \in DOMAIN ps : ps[j] = ps[k] => j = k
        /\ Roots(u.regs) = (Roots(regs) \ below) \cup {ps[k] : k \in DOMAIN ps}
        /\ Len(ps) # 0
    BY <2>2, <2>6
  <2> QED BY <1>1, <1>6, <1>7, <2>5, <2>6, <2>7, <2>8, Relistened
<1>9. CASE ~(regs[p] = {} /\ CoveredBy(regs, p) = {})
  <2>1. UNCHANGED <<listens, listenCalls, unackedListensCount, up>>
    BY <1>9 DEF Observe
  <2>2. Roots(u.regs) = Roots(regs)
    <3>1. CASE regs[p] = {}
      <4>1. \A q \in ViewPaths : u.regs[q] # {} <=> regs[q] # {} \/ q = p
        BY <1>2, <1>4
      <4>2. RootAdded(regs, p, u.regs)
        BY <3>1, <4>1, AddRoot
      <4> QED BY <1>9, <3>1, <4>2 DEF RootAdded
    <3>2. CASE regs[p] # {}
      <4>1. \A q \in ViewPaths : u.regs[q] # {} <=> regs[q] # {}
        BY <1>2, <1>4, <3>2
      <4>2. Viewed(u.regs) = Viewed(regs)
        BY <4>1 DEF Viewed
      <4> QED BY <4>2 DEF Roots, CoveredBy
    <3> QED BY <3>1, <3>2
  <2> QED BY <1>1, <1>6, <1>7, <2>1, <2>2, NotRelistened
<1> QED
  BY <1>8, <1>9

(* removeEventRegistration. *)
LEMMA RemoveObserverStep ==
  ASSUME IInv, NEW p \in ViewPaths, NEW kind \in Kinds, RemoveObserver(p, kind), UNCHANGED troubles
  PROVE  IInv'
<1> DEFINE u == Unregistered(Tree, p, {kind})
           below == StartBelow(u, p)
<1>1. /\ kind \in regs[p] /\ TreeBecomes(u)
      /\ UNCHANGED <<putsToAck, observeCalls, written, connected, down, server>>
  BY DEF RemoveObserver
<1>2. Consistent(Tree, putsToAck, written) /\ Sound(Tree) /\ regs \in [ViewPaths -> SUBSET Kinds]
      /\ Others
  BY IInvParts
<1>3. UnregisteredTree(Tree, u, p, {kind})
  BY <1>2, UnregisteredAt
<1>4. /\ u.allWrites = allWrites /\ u.regs = [regs EXCEPT ![p] = @ \ {kind}]
      /\ \A q \in Viewed(u.regs) : q \in Viewed(regs) /\ u.views[q] = views[q]
  BY <1>3, TreeAt DEF UnregisteredTree
<1>5. Consistent(u, putsToAck, written)
  <2>1. FaithfulBut(Tree, {})
    BY <1>2 DEF Consistent
  <2>2. Sound(u) /\ FaithfulBut(u, {}) /\ u.allWrites = Tree.allWrites
        /\ u.visibleWrites = Tree.visibleWrites
    BY <1>3, <2>1 DEF UnregisteredTree
  <2> QED BY <1>2, <2>2, ConsistentSame
<1>6. Kept(u)
  BY <1>4, <1>5 DEF Kept
<1>7. Aside
  BY <1>1, <1>2 DEF Aside, Others
<1>8. p \in Viewed(regs)
  BY <1>1 DEF Viewed
<1>9. CASE u.regs[p] = {} /\ CoveredBy(regs, p) = {}
  <2>1. \E ps \in SetToSeqs(below) :
          /\ Started(ps, {p})
          /\ up' = Sent(ListenRequests(ps) \o UnlistenRequests(<<p>>))
          /\ unackedListensCount' = unackedListensCount + Counted(Len(ps))
    BY <1>9 DEF RemoveObserver
  <2> HIDE DEF u
  <2>2. \A q \in ViewPaths : u.regs[q] = IF q = p THEN {} ELSE regs[q]
    BY <1>2, <1>4, <1>9
  <2>3. u.regs \in [ViewPaths -> SUBSET Kinds]
    BY <1>2, <1>4
  <2>4. /\ Roots(u.regs) = (Roots(regs) \ {p}) \cup DistinctBelow(u.regs, p)
        /\ DistinctBelow(u.regs, p) \subseteq ViewPaths \ {p}
    BY <1>2, <1>8, <1>9, <2>2, <2>3, EndRoot
  <2>5. below = DistinctBelow(u.regs, p)
    BY DEF StartBelow
  <2> HIDE DEF below
  <2>6. IsFiniteSet(below)
    <3>1. below \subseteq Paths
      BY <2>4, <2>5, PathFacts
    <3> QED BY <3>1, PathsAssumption, FS_Subset
  <2>7. PICK ps \in SetToSeqs(below) :
          /\ Started(ps, {p})
          /\ up' = Sent(ListenRequests(ps) \o UnlistenRequests(<<p>>))
          /\ unackedListensCount' = unackedListensCount + Counted(Len(ps))
    BY <2>1
  <2>8. /\ ps \in Seq(below)
        /\ \A k \in DOMAIN ps : ps[k] \in below
        /\ \A x \in below : \E k \in DOMAIN ps : ps[k] = x
        /\ \A j, k \in DOMAIN ps : ps[j] = ps[k] => j = k
    BY <2>6, InOrderOf
  <2>9. ps \in Seq(ViewPaths) /\ below = {ps[k] : k \in DOMAIN ps}
    <3>1. below \subseteq ViewPaths
      BY <2>4, <2>5
    <3>2. ps \in Seq(ViewPaths)
      BY <2>8, <3>1
    <3>3. below = {ps[k] : k \in DOMAIN ps}
      BY <2>8
    <3> QED BY <3>2, <3>3
  <2>10. Roots(u.regs) = (Roots(regs) \ {p}) \cup {ps[k] : k \in DOMAIN ps}
    BY <2>4, <2>5, <2>9
  <2>11. Viewed(u.regs) \subseteq Viewed(regs)
    BY <1>4
  <2> DEFINE qs == <<p>>
  <2>12. qs \in Seq(ViewPaths) /\ up' = Sent(ListenRequests(ps) \o UnlistenRequests(qs))
    BY <2>7
  <2> HIDE DEF qs
  <2> QED BY <1>1, <1>6, <1>7, <2>7, <2>8, <2>9, <2>10, <2>11, <2>12, Relistened
<1>10. CASE ~(u.regs[p] = {} /\ CoveredBy(regs, p) = {})
  <2>1. UNCHANGED <<listens, listenCalls, unackedListensCount, up>>
    BY <1>10 DEF RemoveObserver
  <2> HIDE DEF u
  <2>2. Roots(u.regs) = Roots(regs)
    <3>1. CASE u.regs[p] = {}
      <4>1. \A q \in ViewPaths : u.regs[q] = IF q = p THEN {} ELSE regs[q]
        BY <1>2, <1>4, <3>1
      <4>2. u.regs \in [ViewPaths -> SUBSET Kinds]
        BY <1>2, <1>4
      <4> QED BY <1>2, <1>8, <1>10, <3>1, <4>1, <4>2, EndRoot
    <3>2. CASE u.regs[p] # {}
      <4>1. \A q \in ViewPaths : u.regs[q] # {} <=> regs[q] # {}
        BY <1>1, <1>2, <1>4, <3>2
      <4>2. Viewed(u.regs) = Viewed(regs)
        BY <4>1 DEF Viewed
      <4> QED BY <4>2 DEF Roots, CoveredBy
    <3> QED BY <3>1, <3>2
  <2> QED BY <1>1, <1>6, <1>7, <2>1, <2>2, NotRelistened
<1> QED
  BY <1>9, <1>10

(* onDataUpdate. *)
LEMMA OnDataStep ==
  ASSUME IInv, OnData, UNCHANGED troubles
  PROVE  IInv'
<1> DEFINE m == Head(down)
           u == ApplyServerOverwrite(Tree, m.node)
<1>1. /\ down # <<>> /\ m.type = "data" /\ down' = Tail(down) /\ TreeBecomes(u)
      /\ UNCHANGED <<wire, observeCalls, written, connected, server>>
  BY DEF OnData, Receive
<1>2. /\ Consistent(Tree, putsToAck, written) /\ Sound(Tree)
      /\ Lines(up, down, listenCalls, unackedListensCount)
      /\ PutsOut(allWrites, putsToAck, up, down, connected)
      /\ Waits(listens, views, up, down, connected)
      /\ Quiet(regs, unackedListensCount, putsToAck, connected)
      /\ (~connected => up = <<>> /\ down = <<>>) /\ down \in Seq(Message)
      /\ Listening(listens, listenCalls, Roots(regs)) /\ listenCalls <= MaxListens
      /\ Others
  BY IInvParts
<1>3. /\ m \in Message /\ Lines(up, Tail(down), listenCalls, unackedListensCount)
      /\ PutIds(Tail(down)) = PutIds(down)
  <2>1. m.type # "listen" /\ m.type # "put"
    BY <1>1
  <2> HIDE DEF m
  <2>2. m = Head(down)
    BY DEF m
  <2> QED BY <1>1, <1>2, <2>1, <2>2, LinesReceived
<1>4. m.node \in Nodes
  <2> HIDE DEF m
  <2> QED BY <1>1, <1>3, MessageFacts
<1> HIDE DEF m
<1>5. FilledFrom(Tree, u, DOMAIN m.node)
  BY <1>2, <1>4, ServerOverwriteTree
<1> HIDE DEF u
<1>6. /\ u.allWrites = allWrites /\ u.regs = regs
      /\ \A q \in Viewed(regs) : views[q].serverFull => u.views[q].serverFull
  BY <1>5, TreeAt DEF FilledFrom
<1>7. Consistent(u, putsToAck, written)
  BY <1>2, <1>5, ConsistentFilled
<1>8. /\ listens' = listens /\ listenCalls' = listenCalls /\ up' = up
      /\ unackedListensCount' = unackedListensCount
      /\ putsToAck' = putsToAck /\ written' = written /\ connected' = connected
  BY <1>1 DEF wire
<1>9. Others'
  BY <1>1, <1>2 DEF Others, server
<1>10. Tree' = u /\ allWrites' = allWrites /\ regs' = regs /\ views' = u.views
  <2>1. Tree' = u
    BY <1>1, <1>7, TreeNext, ConsistentParts
  <2> QED BY <1>1, <1>6, <2>1 DEF TreeBecomes
<1>11. Consistent(Tree, putsToAck, written)'
  BY <1>7, <1>8, <1>10
<1>12. Waits(listens', views', up', down', connected')
  <2>1. ASSUME connected, NEW q \in ViewPaths, listens[q] # 0, ~views'[q].serverFull
        PROVE  Asked(up, q, listens[q]) \/ Asked(Tail(down), q, listens[q])
    <3>1. q \in Viewed(regs)
      BY <1>2, <2>1 DEF Listening, Roots
    <3>2. ~views[q].serverFull
      BY <1>6, <1>10, <2>1, <3>1
    <3>3. Asked(up, q, listens[q]) \/ Asked(down, q, listens[q])
      BY <1>2, <2>1, <3>2 DEF Waits
    <3>4. ~(Head(down).type = "listen" /\ Head(down).path = q /\ Head(down).spec = listens[q])
      BY <1>1 DEF m
    <3> QED BY <1>1, <1>2, <3>3, <3>4, AskedTail
  <2> QED BY <1>1, <1>8, <2>1 DEF Waits
<1>13. PutsOut(allWrites', putsToAck', up', down', connected')
  BY <1>1, <1>2, <1>3, <1>8, <1>10 DEF PutsOut
<1>14. (~connected => up = <<>> /\ down = <<>>)'
  BY <1>1, <1>2, <1>8
<1>15. Wire'
  BY <1>1, <1>2, <1>3, <1>8, <1>10, <1>12, <1>13, <1>14 DEF Wire
<1> QED
  BY <1>9, <1>11, <1>15 DEF IInv

(* The first answer of a write is the one of the first write that has none. *)
AnsweredFirst(m) ==
  /\ m.id \in Ids(allWrites) \ Held(putsToAck)
  /\ \A j \in Ids(allWrites) \ Held(putsToAck) : m.id <= j
  /\ PutIds(up) \cup PutIds(Tail(down)) = (Ids(allWrites) \ Held(putsToAck)) \ {m.id}
  /\ Below(PutIds(Tail(down)), PutIds(up))
  /\ Lines(up, Tail(down), listenCalls, unackedListensCount)
  /\ \A q, s : Asked(down, q, s) => Asked(Tail(down), q, s)

LEMMA PutAnswered ==
  ASSUME IInv, Receive("put")
  PROVE  AnsweredFirst(Head(down))
<1> DEFINE m == Head(down)
           due == Ids(allWrites) \ Held(putsToAck)
<1>1. down # <<>> /\ m.type = "put"
  BY DEF Receive
<1>2. /\ Lines(up, down, listenCalls, unackedListensCount)
      /\ PutsOut(allWrites, putsToAck, up, down, connected)
      /\ (~connected => up = <<>> /\ down = <<>>) /\ down \in Seq(Message)
      /\ connected \in BOOLEAN /\ allWrites \in Seq(Pending)
  BY IInvParts DEF Others
<1>3. connected
  BY <1>1, <1>2
<1>4. /\ Lines(up, Tail(down), listenCalls, unackedListensCount)
      /\ PutIds(down) = PutIds(Tail(down)) \cup {m.id} /\ Below({m.id}, PutIds(Tail(down)))
  <2>1. m.type # "listen"
    BY <1>1
  <2> HIDE DEF m
  <2>2. m = Head(down)
    BY DEF m
  <2> QED BY <1>1, <1>2, <2>1, <2>2, LinesReceived
<1>5. \A q, s : Asked(down, q, s) => Asked(Tail(down), q, s)
  BY <1>1, <1>2, AskedTail
<1>6. Below(PutIds(down), PutIds(up)) /\ PutIds(up) \cup PutIds(down) = due
  BY <1>2, <1>3 DEF PutsOut
<1>7. m.id \in due /\ \A j \in due : j \in Nat
  BY <1>2, <1>4, <1>6, IdsAt
<1> HIDE DEF due, m
<1>8. ASSUME NEW j \in due PROVE m.id <= j
  <2>1. CASE j \in PutIds(up)
    BY <1>4, <1>6, <1>7, <2>1 DEF Below
  <2>2. CASE j \in PutIds(Tail(down))
    BY <1>4, <1>7, <2>2 DEF Below
  <2>3. CASE j = m.id
    BY <1>7, <2>3
  <2> QED BY <1>4, <1>6, <2>1, <2>2, <2>3
<1>9. m.id \notin PutIds(up) /\ m.id \notin PutIds(Tail(down))
  <2>1. ~(m.id < m.id)
    BY <1>7
  <2> QED BY <1>4, <1>6, <2>1 DEF Below
<1>10. PutIds(up) \cup PutIds(Tail(down)) = due \ {m.id}
  BY <1>4, <1>6, <1>9
<1>11. Below(PutIds(Tail(down)), PutIds(up))
  BY <1>4, <1>6 DEF Below
<1> QED
  BY <1>4, <1>5, <1>7, <1>8, <1>10, <1>11 DEF AnsweredFirst, m, due

(* The callback of sendPut. *)
LEMMA OnPutStep ==
  ASSUME IInv, OnPut, UNCHANGED troubles
  PROVE  IInv'
<1> DEFINE m == Head(down)
           u == ApplyAck(Tree, m.id, m.ok)
           more == Append(putsToAck, [id |-> m.id, ok |-> m.ok])
<1>1. /\ Receive("put") /\ down' = Tail(down)
      /\ UNCHANGED <<listens, listenCalls, unackedListensCount, up, observeCalls, written,
                     connected, server>>
  BY DEF OnPut
<1>2. /\ Consistent(Tree, putsToAck, written) /\ Sound(Tree) /\ Filled(Tree)
      /\ Lines(up, down, listenCalls, unackedListensCount)
      /\ Waits(listens, views, up, down, connected)
      /\ Quiet(regs, unackedListensCount, putsToAck, connected)
      /\ (~connected => up = <<>> /\ down = <<>>) /\ down \in Seq(Message)
      /\ Listening(listens, listenCalls, Roots(regs)) /\ listenCalls <= MaxListens
      /\ connected \in BOOLEAN
      /\ Others
  BY IInvParts DEF Others
<1>3. down # <<>> /\ m.type = "put" /\ m \in Message
  BY <1>1, <1>2, TailAt DEF Receive
<1>4. m.ok \in BOOLEAN /\ m.id \in 1 .. LastPut
  <2> HIDE DEF m
  <2> QED BY <1>3, MessageFacts
<1>5. connected = TRUE
  BY <1>2, <1>3
<1>6. /\ m.id \in Ids(allWrites) \ Held(putsToAck)
      /\ \A j \in Ids(allWrites) \ Held(putsToAck) : m.id <= j
      /\ PutIds(up) \cup PutIds(Tail(down)) = (Ids(allWrites) \ Held(putsToAck)) \ {m.id}
      /\ Below(PutIds(Tail(down)), PutIds(up))
      /\ Lines(up, Tail(down), listenCalls, unackedListensCount)
      /\ \A q, s : Asked(down, q, s) => Asked(Tail(down), q, s)
  BY <1>1, PutAnswered DEF AnsweredFirst
<1>7. /\ (NoListenOut /\ TreeBecomes(u) /\ UNCHANGED putsToAck)
         \/ (~NoListenOut /\ putsToAck' = more /\ UNCHANGED tree)
  BY DEF OnPut
<1> HIDE DEF m, u, more
<1>8. Others'
  BY <1>1, <1>2 DEF Others, server
<1>9. /\ Lines(up', down', listenCalls', unackedListensCount')
      /\ (~connected => up = <<>> /\ down = <<>>)'
      /\ listenCalls' <= MaxListens
  BY <1>1, <1>2, <1>5, <1>6
<1>10. CASE NoListenOut /\ TreeBecomes(u) /\ UNCHANGED putsToAck
  <2>1. Specs(up) = {} /\ Specs(down) = {}
    BY <1>2, <1>10, LinesCount DEF NoListenOut
  <2>2. AllFull(Tree)
    <3>1. Listening(listens, listenCalls, Roots(Tree.regs)) /\ Waits(listens, Tree.views, up, down, TRUE)
      BY <1>2, <1>5, TreeAt
    <3> QED BY <1>2, <2>1, <3>1, AllAnswered
  <2>3. putsToAck = <<>> \/ Viewed(Tree.regs) = {}
    BY <1>2, <1>5, <1>10, TreeAt DEF Quiet, NoListenOut
  <2>4. /\ Consistent(u, putsToAck, written) /\ AllFull(u) /\ u.regs = regs
        /\ Ids(u.allWrites) = Ids(allWrites) \ {m.id}
    <3>1. /\ m.id \in Ids(Tree.allWrites) \ Held(putsToAck)
          /\ \A j \in Ids(Tree.allWrites) \ Held(putsToAck) : m.id <= j
      BY <1>6, TreeAt
    <3>2. /\ Consistent(u, putsToAck, written) /\ AllFull(u) /\ u.regs = Tree.regs
          /\ Ids(u.allWrites) = Ids(Tree.allWrites) \ {m.id}
      <4>1. m.ok = m.ok /\ u = ApplyAck(Tree, m.id, m.ok)
        BY DEF u
      <4>2. Consistent(Tree, putsToAck, written)
        BY <1>2
      <4> QED BY <2>2, <2>3, <3>1, <4>1, <4>2, ConsistentAck
    <3> QED BY <3>2, TreeAt
  <2>5. Tree' = u /\ allWrites' = u.allWrites /\ regs' = regs /\ views' = u.views
    <3>1. Tree' = u
      BY <1>10, <2>4, TreeNext, ConsistentParts
    <3> QED BY <1>10, <2>4, <3>1 DEF TreeBecomes
  <2>6. Consistent(Tree, putsToAck, written)'
    BY <1>1, <1>10, <2>4, <2>5
  <2>7. Waits(listens', views', up', down', connected')
    <3>1. ASSUME NEW q \in ViewPaths, listens[q] # 0 PROVE views'[q].serverFull
      BY <1>2, <2>4, <2>5, <3>1 DEF Listening, Roots, AllFull
    <3> QED BY <1>1, <3>1 DEF Waits
  <2>8. PutsOut(allWrites', putsToAck', up', down', connected')
    <3>1. PutIds(up') \cup PutIds(down') = Ids(allWrites') \ Held(putsToAck')
      BY <1>1, <1>6, <1>10, <2>4, <2>5
    <3> QED BY <1>1, <1>6, <3>1 DEF PutsOut
  <2>9. Quiet(regs', unackedListensCount', putsToAck', connected')
    BY <1>1, <1>2, <1>10, <2>5
  <2>10. Listening(listens', listenCalls', Roots(regs'))
    BY <1>1, <1>2, <2>5
  <2>11. Wire'
    BY <1>9, <2>7, <2>8, <2>9, <2>10 DEF Wire
  <2> QED BY <1>8, <2>6, <2>11 DEF IInv
<1>11. CASE ~NoListenOut /\ putsToAck' = more /\ UNCHANGED tree
  <2>1. Tree' = Tree /\ allWrites' = allWrites /\ regs' = regs /\ views' = views
    BY <1>11 DEF tree, Tree
  <2>2. Consistent(Tree, more, written) /\ Held(more) = Held(putsToAck) \cup {m.id}
    <3>1. /\ m.id \in Ids(Tree.allWrites) \ Held(putsToAck)
          /\ \A j \in Ids(Tree.allWrites) \ Held(putsToAck) : m.id <= j
      BY <1>6, TreeAt
    <3> DEFINE a == [id |-> m.id, ok |-> m.ok]
    <3>2. a \in Acks /\ a.id = m.id
      BY <1>4 DEF Acks
    <3>3. Consistent(Tree, putsToAck, written) /\ more = Append(putsToAck, a)
      BY <1>2 DEF more
    <3> HIDE DEF a
    <3>4. /\ a.id \in Ids(Tree.allWrites) \ Held(putsToAck)
          /\ \A j \in Ids(Tree.allWrites) \ Held(putsToAck) : a.id <= j
      BY <3>1, <3>2
    <3>5. HeldBack(Tree, Append(putsToAck, a), written, Held(putsToAck) \cup {a.id})
      BY <3>2, <3>3, <3>4, ConsistentHold
    <3> QED BY <3>2, <3>3, <3>5 DEF HeldBack
  <2>3. Consistent(Tree, putsToAck, written)'
    BY <1>1, <1>11, <2>1, <2>2
  <2>4. Waits(listens', views', up', down', connected')
    BY <1>1, <1>2, <1>5, <1>6, <2>1 DEF Waits
  <2>5. PutsOut(allWrites', putsToAck', up', down', connected')
    <3>1. PutIds(up') \cup PutIds(down') = Ids(allWrites') \ Held(putsToAck')
      BY <1>1, <1>6, <1>11, <2>1, <2>2
    <3> QED BY <1>1, <1>6, <3>1 DEF PutsOut
  <2>6. Quiet(regs', unackedListensCount', putsToAck', connected')
    BY <1>1, <1>11 DEF Quiet, NoListenOut
  <2>7. Listening(listens', listenCalls', Roots(regs'))
    BY <1>1, <1>2, <2>1
  <2>8. Wire'
    BY <1>9, <2>4, <2>5, <2>6, <2>7 DEF Wire
  <2> QED BY <1>8, <2>3, <2>8 DEF IInv
<1> QED
  BY <1>7, <1>10, <1>11

(* A listen has its answer: when it is the last, what was held back is     *)
(* acknowledged.                                                           *)
Answered(t) ==
  /\ Consistent(t, putsToAck, written) /\ t.allWrites = allWrites
  /\ Listening(listens', listenCalls', Roots(t.regs)) /\ listenCalls' <= MaxListens
  /\ Lines(up', Tail(down), listenCalls', unackedListensCount')
  /\ Waits(listens', t.views, up', Tail(down), TRUE)
  /\ PutIds(up') = PutIds(up) /\ PutIds(Tail(down)) = PutIds(down)
  /\ down' = Tail(down) /\ connected = TRUE
  /\ UNCHANGED <<observeCalls, written, connected, server, troubles>>

LEMMA SettledStep ==
  ASSUME IInv, NEW t, Answered(t),
         putsToAck' = IF unackedListensCount' = 0 THEN <<>> ELSE putsToAck,
         NEW u, u = IF unackedListensCount' = 0 THEN ApplyAcks(t, putsToAck) ELSE t,
         TreeBecomes(u)
  PROVE  IInv'
<1>1. /\ Consistent(t, putsToAck, written) /\ t.allWrites = allWrites
      /\ Listening(listens', listenCalls', Roots(t.regs)) /\ listenCalls' <= MaxListens
      /\ Lines(up', Tail(down), listenCalls', unackedListensCount')
      /\ Waits(listens', t.views, up', Tail(down), TRUE)
      /\ PutIds(up') = PutIds(up) /\ PutIds(Tail(down)) = PutIds(down)
      /\ down' = Tail(down) /\ connected' = TRUE /\ connected = TRUE
      /\ UNCHANGED <<observeCalls, written, connected, server, troubles>>
  BY DEF Answered
<1>2. PutsOut(allWrites, putsToAck, up, down, connected) /\ Others
  BY IInvParts
<1>3. Others'
  BY <1>1, <1>2 DEF Others, server
<1>4. /\ Below(PutIds(down'), PutIds(up'))
      /\ PutIds(up') \cup PutIds(down') = Ids(allWrites) \ Held(putsToAck)
  BY <1>1, <1>2 DEF PutsOut
<1>5. (~connected => up = <<>> /\ down = <<>>)' /\ Lines(up, down, listenCalls, unackedListensCount)'
  BY <1>1
<1>6. CASE unackedListensCount' = 0
  <2>1. putsToAck' = <<>> /\ u = ApplyAcks(t, putsToAck)
    BY <1>6
  <2>2. Specs(up') = {} /\ Specs(Tail(down)) = {}
    BY <1>1, <1>6, LinesCount
  <2>3. AllFull(t)
    <3>1. Filled(t)
      BY <1>1, ConsistentParts
    <3> QED BY <1>1, <2>2, <3>1, AllAnswered
  <2>4. /\ Consistent(u, <<>>, written) /\ AllFull(u) /\ u.regs = t.regs
        /\ Ids(u.allWrites) = Ids(t.allWrites) \ Held(putsToAck)
    BY <1>1, <2>1, <2>3, ConsistentBatch
  <2>5. Tree' = u /\ allWrites' = u.allWrites /\ regs' = t.regs /\ views' = u.views
    <3>1. Tree' = u
      BY <2>4, TreeNext, ConsistentParts
    <3> QED BY <2>4, <3>1 DEF TreeBecomes
  <2>6. Consistent(Tree, putsToAck, written)'
    BY <1>1, <2>1, <2>4, <2>5
  <2>7. Waits(listens', views', up', down', connected')
    <3>1. ASSUME NEW q \in ViewPaths, listens'[q] # 0 PROVE views'[q].serverFull
      BY <1>1, <2>4, <2>5, <3>1 DEF Listening, Roots, AllFull
    <3> QED BY <3>1 DEF Waits
  <2>8. PutsOut(allWrites', putsToAck', up', down', connected')
    <3>1. Held(putsToAck') = {}
      BY <2>1 DEF Held
    <3> QED BY <1>1, <1>4, <2>4, <2>5, <3>1 DEF PutsOut
  <2>9. Quiet(regs', unackedListensCount', putsToAck', connected')
    BY <2>1 DEF Quiet
  <2>10. Wire'
    BY <1>1, <1>5, <2>5, <2>7, <2>8, <2>9 DEF Wire
  <2> QED BY <1>3, <2>6, <2>10 DEF IInv
<1>7. CASE unackedListensCount' # 0
  <2>1. putsToAck' = putsToAck /\ u = t
    BY <1>7
  <2>2. Tree' = t /\ allWrites' = allWrites /\ regs' = t.regs /\ views' = t.views
    <3>1. Tree' = t
      BY <1>1, <2>1, TreeNext, ConsistentParts
    <3> QED BY <1>1, <2>1, <3>1 DEF TreeBecomes
  <2>3. Consistent(Tree, putsToAck, written)'
    BY <1>1, <2>1, <2>2
  <2>4. Waits(listens', views', up', down', connected')
    BY <1>1, <2>2
  <2>5. PutsOut(allWrites', putsToAck', up', down', connected')
    BY <1>4, <2>1, <2>2 DEF PutsOut
  <2>6. Quiet(regs', unackedListensCount', putsToAck', connected')
    BY <1>7 DEF Quiet
  <2>7. Wire'
    BY <1>1, <1>5, <2>2, <2>4, <2>5, <2>6 DEF Wire
  <2> QED BY <1>3, <2>3, <2>7 DEF IInv
<1> QED
  BY <1>6, <1>7

(* What it makes of the tree, before what is held back is acknowledged.    *)
Settling(t) ==
  /\ putsToAck' = IF unackedListensCount' = 0 THEN <<>> ELSE putsToAck
  /\ TreeBecomes(IF unackedListensCount' = 0 THEN ApplyAcks(t, putsToAck) ELSE t)

Heard(m, t) ==
  \/ listens[m.path] # m.spec /\ t = Tree /\ UNCHANGED <<listens, up>>
  \/ /\ listens[m.path] = m.spec /\ m.ok /\ t = ApplyListenComplete(Tree, m.path)
     /\ UNCHANGED <<listens, up>>
  \/ /\ listens[m.path] = m.spec /\ ~m.ok /\ t = Unregistered(Tree, m.path, Kinds)
     /\ \E ps \in SetToSeqs(StartBelow(t, m.path)) :
          Started(ps, {m.path}) /\ up' = Sent(ListenRequests(ps))

(* The callback of sendListen. *)
LEMMA OnListenAnswered ==
  ASSUME IInv, OnListen, UNCHANGED troubles
  PROVE  \E t : Answered(t) /\ Settling(t) /\ Heard(Head(down), t)
<1> DEFINE m == Head(down)
           p == m.path
           t1 == ApplyListenComplete(Tree, p)
           t2 == Unregistered(Tree, p, Kinds)
           settles(t) ==
             /\ putsToAck' = IF unackedListensCount' = 0 THEN <<>> ELSE putsToAck
             /\ TreeBecomes(IF unackedListensCount' = 0 THEN ApplyAcks(t, putsToAck) ELSE t)
<1>1. /\ Receive("listen") /\ down' = Tail(down)
      /\ UNCHANGED <<observeCalls, written, connected, server>>
  BY DEF OnListen
<1>2. \/ /\ listens[p] # m.spec
         /\ unackedListensCount' = unackedListensCount - 1 + 0 /\ settles(Tree)
         /\ UNCHANGED <<listens, listenCalls, up>>
      \/ /\ listens[p] = m.spec /\ m.ok
         /\ unackedListensCount' = unackedListensCount - 1 + 0 /\ settles(t1)
         /\ UNCHANGED <<listens, listenCalls, up>>
      \/ /\ listens[p] = m.spec /\ ~m.ok
         /\ \E ps \in SetToSeqs(StartBelow(t2, p)) :
              /\ Started(ps, {p})
              /\ up' = Sent(ListenRequests(ps))
              /\ unackedListensCount' = unackedListensCount - 1 + Counted(Len(ps))
              /\ settles(t2)
  BY DEF OnListen
<1>3. /\ Consistent(Tree, putsToAck, written) /\ Sound(Tree) /\ FaithfulBut(Tree, {})
      /\ Lines(up, down, listenCalls, unackedListensCount)
      /\ Waits(listens, views, up, down, connected)
      /\ (~connected => up = <<>> /\ down = <<>>) /\ down \in Seq(Message)
      /\ Listening(listens, listenCalls, Roots(regs)) /\ listenCalls <= MaxListens
      /\ listenCalls \in Nat /\ connected \in BOOLEAN /\ regs \in [ViewPaths -> SUBSET Kinds]
  BY IInvParts DEF Others, Consistent
<1>4. down # <<>> /\ m.type = "listen" /\ m \in Message
  BY <1>1, <1>3, TailAt DEF Receive
<1>5. p \in ViewPaths /\ m.spec \in 1 .. MaxListens
  <2> HIDE DEF m
  <2> QED BY <1>4, MessageFacts
<1>6. connected = TRUE /\ p \in Paths
  BY <1>3, <1>4, <1>5, PathFacts
<1>7. \A u, n, c : Lines(u, down, n, c) =>
        Lines(u, Tail(down), n, c - 1) /\ PutIds(Tail(down)) = PutIds(down)
  <2>1. m.type # "put" /\ m.type = "listen"
    BY <1>4
  <2> HIDE DEF m
  <2>2. m = Head(down)
    BY DEF m
  <2> QED BY <1>4, <2>1, <2>2, LinesReceived
<1>8. \A q, s : Asked(down, q, s) /\ (q # p \/ s # m.spec) => Asked(Tail(down), q, s)
  BY <1>3, <1>4, AskedTail
<1>9. unackedListensCount \in Nat
  <2>1. unackedListensCount \in 0 .. listenCalls
    BY <1>3, LinesCount
  <2> QED BY <1>3, <2>1
<1> HIDE DEF m, t1, t2
<1>10. CASE /\ listens[p] # m.spec
            /\ unackedListensCount' = unackedListensCount - 1 + 0 /\ settles(Tree)
            /\ UNCHANGED <<listens, listenCalls, up>>
  <2>1. Lines(up', Tail(down), listenCalls', unackedListensCount')
    BY <1>3, <1>7, <1>9, <1>10
  <2>2. Waits(listens', Tree.views, up', Tail(down), TRUE)
    <3>1. ASSUME NEW q \in ViewPaths, listens[q] # 0, ~views[q].serverFull
          PROVE  Asked(up, q, listens[q]) \/ Asked(Tail(down), q, listens[q])
      <4>1. Asked(up, q, listens[q]) \/ Asked(down, q, listens[q])
        BY <1>3, <1>6, <3>1 DEF Waits
      <4>2. q # p \/ listens[q] # m.spec
        BY <1>10
      <4> QED BY <1>8, <4>1, <4>2
    <3> QED BY <1>10, <3>1, TreeAt DEF Waits
  <2>3. Answered(Tree)
    BY <1>1, <1>3, <1>6, <1>7, <1>10, <2>1, <2>2, TreeAt DEF Answered
  <2>4. Settling(Tree) /\ Heard(m, Tree)
    BY <1>10 DEF Settling, Heard
  <2> QED BY <2>3, <2>4 DEF m
<1>11. CASE /\ listens[p] = m.spec /\ m.ok
            /\ unackedListensCount' = unackedListensCount - 1 + 0 /\ settles(t1)
            /\ UNCHANGED <<listens, listenCalls, up>>
  <2>1. Lines(up', Tail(down), listenCalls', unackedListensCount')
    BY <1>3, <1>7, <1>9, <1>11
  <2>2. FilledFrom(Tree, t1, p)
    BY <1>3, <1>6, ListenCompleteTree DEF t1
  <2>3. /\ t1.allWrites = allWrites /\ t1.regs = regs
        /\ \A q \in Viewed(regs) : t1.views[q].serverFull = (views[q].serverFull \/ q \subseteq p)
    BY <2>2, TreeAt DEF FilledFrom
  <2>4. Consistent(t1, putsToAck, written)
    BY <1>3, <2>2, ConsistentFilled
  <2>5. Waits(listens', t1.views, up', Tail(down), TRUE)
    <3>1. ASSUME NEW q \in ViewPaths, listens[q] # 0, ~t1.views[q].serverFull
          PROVE  Asked(up, q, listens[q]) \/ Asked(Tail(down), q, listens[q])
      <4>1. q \in Viewed(regs)
        BY <1>3, <3>1 DEF Listening, Roots
      <4>2. ~views[q].serverFull /\ q # p
        BY <2>3, <3>1, <4>1
      <4>3. Asked(up, q, listens[q]) \/ Asked(down, q, listens[q])
        BY <1>3, <1>6, <3>1, <4>2 DEF Waits
      <4> QED BY <1>8, <4>2, <4>3
    <3> QED BY <1>11, <3>1 DEF Waits
  <2>6. Answered(t1)
    BY <1>1, <1>3, <1>6, <1>7, <1>11, <2>1, <2>3, <2>4, <2>5 DEF Answered
  <2>7. Settling(t1) /\ Heard(m, t1)
    BY <1>11 DEF Settling, Heard, t1
  <2> QED BY <2>6, <2>7 DEF m
<1>12. CASE /\ listens[p] = m.spec /\ ~m.ok
            /\ \E ps \in SetToSeqs(StartBelow(t2, p)) :
                 /\ Started(ps, {p})
                 /\ up' = Sent(ListenRequests(ps))
                 /\ unackedListensCount' = unackedListensCount - 1 + Counted(Len(ps))
                 /\ settles(t2)
  <2> DEFINE below == StartBelow(t2, p)
  <2>1. p \in Roots(regs)
    <3>1. listens[p] # 0
      BY <1>5, <1>12
    <3> QED BY <1>3, <1>5, <3>1 DEF Listening
  <2>2. p \in Viewed(regs) /\ CoveredBy(regs, p) = {}
    BY <2>1 DEF Roots
  <2>3. UnregisteredTree(Tree, t2, p, Kinds)
    <3>1. Kinds \in SUBSET Kinds
      OBVIOUS
    <3> QED BY <1>3, <1>5, <3>1, UnregisteredAt DEF t2
  <2>4. /\ t2.allWrites = allWrites /\ t2.regs = [regs EXCEPT ![p] = @ \ Kinds]
        /\ \A q \in Viewed(t2.regs) : q \in Viewed(regs) /\ t2.views[q] = views[q]
    BY <2>3, TreeAt DEF UnregisteredTree
  <2>5. Consistent(t2, putsToAck, written)
    <3>1. Sound(t2) /\ FaithfulBut(t2, {}) /\ t2.allWrites = Tree.allWrites
          /\ t2.visibleWrites = Tree.visibleWrites
      BY <1>3, <2>3 DEF UnregisteredTree
    <3> QED BY <1>3, <3>1, ConsistentSame
  <2>6. \A q \in ViewPaths : t2.regs[q] = IF q = p THEN {} ELSE regs[q]
    <3>1. regs[p] \ Kinds = {}
      BY <1>3, <1>5
    <3> QED BY <1>3, <2>4, <3>1
  <2>7. t2.regs \in [ViewPaths -> SUBSET Kinds]
    BY <1>3, <2>4
  <2>8. /\ Roots(t2.regs) = (Roots(regs) \ {p}) \cup below
        /\ below \subseteq ViewPaths \ {p}
    BY <1>3, <2>2, <2>6, <2>7, EndRoot DEF StartBelow
  <2>9. PICK ps \in SetToSeqs(below) :
          /\ Started(ps, {p})
          /\ up' = Sent(ListenRequests(ps))
          /\ unackedListensCount' = unackedListensCount - 1 + Counted(Len(ps))
          /\ settles(t2)
    BY <1>12
  <2> HIDE DEF below
  <2>10. IsFiniteSet(below)
    <3>1. below \subseteq Paths
      BY <2>8, PathFacts
    <3> QED BY <3>1, PathsAssumption, FS_Subset
  <2>11. /\ ps \in Seq(below)
         /\ \A k \in DOMAIN ps : ps[k] \in below
         /\ \A x \in below : \E k \in DOMAIN ps : ps[k] = x
         /\ \A j, k \in DOMAIN ps : ps[j] = ps[k] => j = k
    BY <2>9, <2>10, InOrderOf
  <2>12. ps \in Seq(ViewPaths) /\ Len(ps) \in Nat /\ below = {ps[k] : k \in DOMAIN ps}
    <3>1. below \subseteq ViewPaths
      BY <2>8
    <3>2. ps \in Seq(ViewPaths)
      BY <2>11, <3>1
    <3>3. below = {ps[k] : k \in DOMAIN ps}
      BY <2>11
    <3> QED BY <3>2, <3>3
  <2> DEFINE rs == ListenRequests(ps)
  <2>13. up' = Sent(rs) /\ Started(ps, {p})
    BY <2>9
  <2>14. /\ Listening(listens', listenCalls', (Roots(regs) \ {p}) \cup {ps[k] : k \in DOMAIN ps})
         /\ listenCalls' <= MaxListens /\ listenCalls' = listenCalls + Len(ps)
         /\ \A q \in ViewPaths : (\A k \in DOMAIN ps : ps[k] # q) =>
              listens'[q] = IF q \in {p} THEN 0 ELSE listens[q]
         /\ LinesOut(rs, Len(ps))
         /\ connected => \A k \in DOMAIN ps : Asked(Sent(rs), ps[k], listens'[ps[k]])
    <3> HIDE DEF rs
    <3>1. rs = ListenRequests(ps)
      BY DEF rs
    <3>2. ps \in Seq(ViewPaths) /\ \A j, k \in DOMAIN ps : ps[j] = ps[k] => j = k
      BY <2>11, <2>12
    <3>3. Relistens(ps, {p}, rs)
      BY <2>13, <3>1, <3>2, ListensSent
    <3> QED BY <3>3 DEF Relistens
  <2> HIDE DEF rs
  <2>15. /\ Lines(up', down, listenCalls', unackedListensCount + Counted(Len(ps)))
         /\ PutIds(up') = PutIds(up) /\ \A q, s : Asked(up, q, s) => Asked(up', q, s)
    BY <2>13, <2>14 DEF LinesOut
  <2>16. Lines(up', Tail(down), listenCalls', unackedListensCount')
         /\ PutIds(Tail(down)) = PutIds(down)
    <3>1. Counted(Len(ps)) \in Nat
      BY <1>6, <2>12 DEF Counted
    <3>2. unackedListensCount + Counted(Len(ps)) - 1 = unackedListensCount'
      BY <1>9, <2>9, <3>1
    <3> DEFINE c == unackedListensCount + Counted(Len(ps))
    <3>3. Lines(up', down, listenCalls', c)
      BY <2>15
    <3>4. c - 1 = unackedListensCount'
      BY <1>9, <3>1, <3>2
    <3> HIDE DEF c
    <3>5. Lines(up', Tail(down), listenCalls', c - 1) /\ PutIds(Tail(down)) = PutIds(down)
      BY <1>7, <3>3
    <3> QED BY <3>4, <3>5
  <2>17. Waits(listens', t2.views, up', Tail(down), TRUE)
    <3>1. ASSUME NEW q \in ViewPaths, listens'[q] # 0, ~t2.views[q].serverFull
          PROVE  Asked(up', q, listens'[q]) \/ Asked(Tail(down), q, listens'[q])
      <4>1. CASE \E k \in DOMAIN ps : ps[k] = q
        BY <1>6, <2>13, <2>14, <4>1
      <4>2. CASE \A k \in DOMAIN ps : ps[k] # q
        <5>1. q \in Roots(regs) /\ q # p
          BY <2>14, <3>1, <4>2 DEF Listening
        <5>2. listens'[q] = listens[q] /\ q \in Roots(t2.regs)
          BY <2>8, <2>14, <4>2, <5>1
        <5>3. ~views[q].serverFull
          BY <2>4, <3>1, <5>2 DEF Roots
        <5>4. Asked(up, q, listens[q]) \/ Asked(down, q, listens[q])
          BY <1>3, <1>6, <3>1, <5>2, <5>3 DEF Waits
        <5> QED BY <1>8, <2>15, <5>1, <5>2, <5>4
      <4> QED BY <4>1, <4>2
    <3> QED BY <3>1 DEF Waits
  <2>18. Listening(listens', listenCalls', Roots(t2.regs))
    BY <2>8, <2>12, <2>14
  <2>19. Answered(t2)
    BY <1>1, <1>6, <2>4, <2>5, <2>14, <2>15, <2>16, <2>17, <2>18 DEF Answered
  <2>20. Settling(t2)
    BY <2>9 DEF Settling
  <2>21. Heard(m, t2)
    BY <1>12 DEF Heard, t2
  <2> QED BY <2>19, <2>20, <2>21 DEF m
<1> QED
  BY <1>2, <1>10, <1>11, <1>12

LEMMA OnListenStep ==
  ASSUME IInv, OnListen, UNCHANGED troubles
  PROVE  IInv'
<1>1. PICK t : Answered(t) /\ Settling(t)
  BY OnListenAnswered
<1> DEFINE u == IF unackedListensCount' = 0 THEN ApplyAcks(t, putsToAck) ELSE t
<1>2. /\ u = IF unackedListensCount' = 0 THEN ApplyAcks(t, putsToAck) ELSE t
      /\ putsToAck' = IF unackedListensCount' = 0 THEN <<>> ELSE putsToAck
      /\ TreeBecomes(u)
  BY <1>1 DEF Settling
<1> HIDE DEF u
<1> QED
  BY <1>1, <1>2, SettledStep

(* onDisconnect. *)
LEMMA DropStep ==
  ASSUME IInv, Drop
  PROVE  IInv'
<1>1. /\ troubles < MaxTroubles /\ troubles' = troubles + 1
      /\ connected' = FALSE /\ up' = <<>> /\ down' = <<>> /\ watched' = {}
      /\ unackedListensCount' = 0
      /\ UNCHANGED <<tree, listens, listenCalls, putsToAck, observeCalls, written, db, denied>>
  BY DEF Drop
<1>2. /\ Consistent(Tree, putsToAck, written) /\ Others /\ listenCalls \in Nat
      /\ Listening(listens, listenCalls, Roots(regs)) /\ listenCalls <= MaxListens
  BY IInvParts
<1>3. Tree' = Tree /\ regs' = regs
  BY <1>1 DEF tree, Tree
<1>4. Consistent(Tree, putsToAck, written)'
  BY <1>1, <1>2, <1>3
<1>5. Lines(up', down', listenCalls', unackedListensCount')
  BY <1>1, <1>2, LinesLost
<1>6. PutsOut(allWrites', putsToAck', up', down', connected')
  BY <1>1, NoMessages DEF PutsOut, Below
<1>7. Waits(listens', views', up', down', connected')
      /\ Quiet(regs', unackedListensCount', putsToAck', connected')
  BY <1>1 DEF Waits, Quiet
<1>8. Wire'
  BY <1>1, <1>2, <1>3, <1>5, <1>6, <1>7 DEF Wire
<1>9. Others'
  <2>1. troubles + 1 \in 0 .. MaxTroubles
    BY <1>1, <1>2, BoundsAssumption DEF Others
  <2> QED BY <1>1, <1>2, <2>1 DEF Others
<1> QED
  BY <1>4, <1>8, <1>9 DEF IInv

(* The requests of restoreState. *)
ListensAgain(ps) == [k \in DOMAIN ps |-> ListenRequest(ps[k], listens[ps[k]])]
PutsAgain(ids) == [k \in DOMAIN ids |-> PutRequest(ids[k])]

Again(rs) ==
  /\ rs \in Seq(Request) /\ Proper(rs) /\ PutIds(rs) = {}
  /\ Specs(rs) \in SUBSET (1 .. listenCalls)
  /\ Cardinality(Specs(rs)) = Cardinality(Restored)
  /\ \A p \in Restored : Asked(rs, p, listens[p])

LEMMA ListensAgainSent ==
  ASSUME Listening(listens, listenCalls, Roots(regs)), listenCalls <= MaxListens,
         NEW ps \in SetToSeqs(Restored)
  PROVE  Again(ListensAgain(ps))
<1> DEFINE rs == ListensAgain(ps)
<1>1. IsFiniteSet(Restored) /\ Restored \subseteq ViewPaths
  <2>1. Restored \subseteq Paths /\ Restored \subseteq ViewPaths
    BY PathFacts DEF Restored
  <2> QED BY <2>1, PathsAssumption, FS_Subset
<1>2. /\ Len(ps) \in Nat /\ DOMAIN ps = 1 .. Len(ps)
      /\ \A k \in DOMAIN ps : ps[k] \in Restored
      /\ \A x \in Restored : \E k \in DOMAIN ps : ps[k] = x
      /\ \A j, k \in DOMAIN ps : ps[j] = ps[k] => j = k
  BY <1>1, InOrderOf
<1>3. \A p \in Restored : p \in ViewPaths /\ listens[p] \in 1 .. listenCalls
  BY DEF Restored, Listening
<1>4. \A p, q \in Restored : listens[p] = listens[q] => p = q
  BY <1>3 DEF Restored, Listening
<1>5. 1 .. listenCalls \subseteq 1 .. MaxListens
  BY BoundsAssumption DEF Listening
<1>6. DOMAIN rs = DOMAIN ps /\ \A k \in DOMAIN ps : rs[k] = ListenRequest(ps[k], listens[ps[k]])
  BY DEF ListensAgain
<1>7. \A k \in DOMAIN rs : rs[k] \in Request
  <2>1. ASSUME NEW k \in DOMAIN ps PROVE ListenRequest(ps[k], listens[ps[k]]) \in Request
    BY <1>2, <1>3, <1>5 DEF ListenRequest, Request
  <2> QED BY <1>6, <2>1
<1>8. \A k \in DOMAIN rs : rs[k].type = "listen" /\ rs[k].path = ps[k] /\ rs[k].spec = listens[ps[k]]
  BY <1>6 DEF ListenRequest
<1>9. rs = [k \in 1 .. Len(ps) |-> rs[k]]
  BY <1>2 DEF ListensAgain
<1> HIDE DEF rs
<1>10. rs \in Seq(Request)
  BY <1>2, <1>6, <1>7, <1>9
<1>11. Proper(rs)
  BY <1>2, <1>4, <1>6, <1>8 DEF Proper
<1>12. PutIds(rs) = {}
  BY <1>8 DEF PutIds
<1>13. \A p \in Restored : Asked(rs, p, listens[p])
  BY <1>2, <1>6, <1>8 DEF Asked
<1>14. Specs(rs) = {listens[p] : p \in Restored}
  <2>1. ASSUME NEW x PROVE x \in Specs(rs) <=> \E p \in Restored : x = listens[p]
    BY <1>2, <1>6, <1>8 DEF Specs
  <2> QED BY <2>1
<1>15. Specs(rs) \in SUBSET (1 .. listenCalls)
  BY <1>3, <1>14
<1>16. Cardinality(Specs(rs)) = Cardinality(Restored)
  <2> DEFINE f == [p \in Restored |-> listens[p]]
             S == Specs(rs)
  <2>1. f \in [Restored -> S] /\ \A p \in Restored : f[p] = listens[p]
    BY <1>14
  <2>2. \A p, q \in Restored : f[p] = f[q] => p = q
    BY <1>4
  <2>3. \A x \in S : \E p \in Restored : f[p] = x
    BY <1>14
  <2> HIDE DEF f, S
  <2>4. f \in Bijection(Restored, S)
    <3>1. f \in Injection(Restored, S)
      BY <2>1, <2>2 DEF Injection, IsInjective
    <3>2. f \in Surjection(Restored, S)
      BY <2>1, <2>3 DEF Surjection
    <3> QED BY <3>1, <3>2 DEF Bijection
  <2>5. ExistsBijection(Restored, S)
    BY <2>4 DEF ExistsBijection
  <2>6. Cardinality(S) = Cardinality(Restored)
    BY <1>1, <2>5, FS_Bijection
  <2> QED BY <2>6 DEF S
<1> QED
  BY <1>10, <1>11, <1>12, <1>13, <1>15, <1>16 DEF Again, rs

LEMMA PutsAgainSent ==
  ASSUME allWrites \in Seq(Pending), NEW ids \in Sorted(Outstanding)
  PROVE  /\ PutsAgain(ids) \in Seq(Request) /\ Proper(PutsAgain(ids))
         /\ Specs(PutsAgain(ids)) = {}
         /\ PutIds(PutsAgain(ids)) = Ids(allWrites) \ Held(putsToAck)
<1> DEFINE ws == PutsAgain(ids)
           due == Ids(allWrites) \ Held(putsToAck)
<1>1. Outstanding = due
  BY DEF Outstanding, Held
<1>2. \A i \in due : i \in 1 .. LastPut
  BY IdsAt
<1> HIDE DEF due
<1>3. IsFiniteSet(due)
  <2>1. IsFiniteSet(1 .. LastPut) /\ due \subseteq 1 .. LastPut
    BY <1>2, BoundsAssumption, FS_Interval
  <2> QED BY <2>1, FS_Subset
<1>4. ids \in SetToSeqs(due) /\ \A j, k \in DOMAIN ids : j < k => ids[j] < ids[k]
  BY <1>1 DEF Sorted
<1>5. /\ Len(ids) \in Nat /\ DOMAIN ids = 1 .. Len(ids)
      /\ \A k \in DOMAIN ids : ids[k] \in due
      /\ \A x \in due : \E k \in DOMAIN ids : ids[k] = x
  BY <1>3, <1>4, InOrderOf
<1>6. DOMAIN ws = DOMAIN ids /\ \A k \in DOMAIN ids : ws[k] = PutRequest(ids[k])
  BY DEF PutsAgain
<1>7. \A k \in DOMAIN ws : ws[k] \in Request
  BY <1>2, <1>5, <1>6 DEF PutRequest, Request
<1>8. \A k \in DOMAIN ws : ws[k].type = "put" /\ ws[k].id = ids[k]
  BY <1>6 DEF PutRequest
<1>9. ws = [k \in 1 .. Len(ids) |-> ws[k]]
  BY <1>5 DEF PutsAgain
<1> HIDE DEF ws
<1>10. ws \in Seq(Request)
  BY <1>5, <1>6, <1>7, <1>9
<1>11. Proper(ws) /\ Specs(ws) = {}
  BY <1>4, <1>6, <1>8 DEF Proper, Specs
<1>12. PutIds(ws) = due
  <2>1. ASSUME NEW x PROVE x \in PutIds(ws) <=> x \in due
    BY <1>5, <1>6, <1>8 DEF PutIds
  <2> QED BY <2>1
<1> QED
  BY <1>10, <1>11, <1>12 DEF ws, due

LEMMA RestoreStep ==
  ASSUME IInv, Restore, UNCHANGED troubles
  PROVE  IInv'
<1>1. /\ ~connected /\ connected' = TRUE
      /\ unackedListensCount' = Cardinality(Restored)
      /\ UNCHANGED <<tree, listens, listenCalls, putsToAck, observeCalls, written, down, server>>
  BY DEF Restore
<1>2. PICK ps \in SetToSeqs(Restored), ids \in Sorted(Outstanding) :
        up' = ListensAgain(ps) \o PutsAgain(ids)
  BY DEF Restore, ListensAgain, PutsAgain
<1>3. /\ Consistent(Tree, putsToAck, written) /\ Others /\ listenCalls \in Nat
      /\ (~connected => up = <<>> /\ down = <<>>) /\ allWrites \in Seq(Pending)
      /\ Listening(listens, listenCalls, Roots(regs)) /\ listenCalls <= MaxListens
  BY IInvParts
<1>4. Tree' = Tree /\ allWrites' = allWrites /\ regs' = regs /\ views' = views
  BY <1>1 DEF tree, Tree
<1> DEFINE rs == ListensAgain(ps)
           ws == PutsAgain(ids)
           due == Ids(allWrites) \ Held(putsToAck)
<1>5. /\ rs \in Seq(Request) /\ Proper(rs) /\ PutIds(rs) = {}
      /\ Specs(rs) \in SUBSET (1 .. listenCalls)
      /\ Cardinality(Specs(rs)) = Cardinality(Restored)
      /\ \A p \in Restored : Asked(rs, p, listens[p])
  BY <1>3, ListensAgainSent DEF Again
<1>6. ws \in Seq(Request) /\ Proper(ws) /\ Specs(ws) = {} /\ PutIds(ws) = due
  BY <1>3, PutsAgainSent
<1> HIDE DEF rs, ws
<1>7. up' = rs \o ws /\ down' = <<>>
  BY <1>1, <1>2, <1>3 DEF rs, ws
<1> HIDE DEF due
<1>8. rs \o ws \in Seq(Request) /\ Specs(rs \o ws) = Specs(rs) /\ PutIds(rs \o ws) = due
      /\ Proper(rs \o ws)
  <2>1. Specs(rs) \cap Specs(ws) = {} /\ Below(PutIds(rs), PutIds(ws))
    BY <1>5, <1>6 DEF Below
  <2>2. Specs(rs \o ws) = Specs(rs) \cup Specs(ws) /\ PutIds(rs \o ws) = PutIds(rs) \cup PutIds(ws)
    <3>1. rs \in Seq(Request) /\ ws \in Seq(Request)
      BY <1>5, <1>6
    <3> QED BY <3>1, ConcatMessages
  <2>3. Proper(rs \o ws)
    <3>1. rs \in Seq(Request) /\ ws \in Seq(Request) /\ Proper(rs) /\ Proper(ws)
      BY <1>5, <1>6
    <3> QED BY <2>1, <3>1, ConcatMessages
  <2>4. rs \o ws \in Seq(Request)
    BY <1>5, <1>6
  <2> QED BY <1>5, <1>6, <2>2, <2>3, <2>4
<1>9. /\ up' \in Seq(Request) /\ Specs(up') = Specs(rs) /\ PutIds(up') = due /\ Proper(up')
  BY <1>7, <1>8
<1>10. Specs(down') = {} /\ PutIds(down') = {} /\ Proper(down') /\ down' \in Seq(Message)
  BY <1>7, NoMessages
<1>11. Lines(up', down', listenCalls', unackedListensCount')
  BY <1>1, <1>3, <1>5, <1>9, <1>10 DEF Lines
<1>12. PutsOut(allWrites', putsToAck', up', down', connected')
  BY <1>1, <1>4, <1>9, <1>10 DEF PutsOut, Below, due
<1>13. Waits(listens', views', up', down', connected')
  <2>1. ASSUME NEW q \in ViewPaths, listens[q] # 0 PROVE Asked(up', q, listens[q])
    <3>1. q \in Restored
      BY <2>1 DEF Restored
    <3> QED BY <1>5, <1>6, <1>7, <3>1, AskedConcat
  <2> QED BY <1>1, <2>1 DEF Waits
<1>14. Quiet(regs', unackedListensCount', putsToAck', connected')
  <2>1. ASSUME Cardinality(Restored) = 0 PROVE Viewed(regs) = {}
    <3>1. IsFiniteSet(Restored)
      <4>1. Restored \subseteq Paths
        BY PathFacts DEF Restored
      <4> QED BY <4>1, PathsAssumption, FS_Subset
    <3>2. Restored = {}
      BY <2>1, <3>1, FS_EmptySet
    <3>3. Roots(regs) = {}
      <4>1. Roots(regs) \subseteq ViewPaths
        BY DEF Roots, Viewed
      <4> QED BY <1>3, <3>2, <4>1 DEF Restored, Listening
    <3> QED BY <3>3, RootAbove
  <2> QED BY <1>1, <1>4, <2>1 DEF Quiet
<1>15. Consistent(Tree, putsToAck, written)'
  BY <1>1, <1>3, <1>4
<1>16. Others'
  BY <1>1, <1>3 DEF Others, server
<1>17. Wire'
  BY <1>1, <1>3, <1>4, <1>11, <1>12, <1>13, <1>14 DEF Wire
<1> QED
  BY <1>15, <1>16, <1>17 DEF IInv

(* One message, or two. *)
LEMMA OnePut ==
  ASSUME NEW m \in Message, m.type = "put"
  PROVE  <<m>> \in Seq(Message) /\ Proper(<<m>>) /\ Specs(<<m>>) = {} /\ PutIds(<<m>>) = {m.id}
<1> DEFINE t == <<m>>
<1>1. t \in Seq(Message) /\ DOMAIN t = {1} /\ t[1] = m
  OBVIOUS
<1> HIDE DEF t
<1>2. Proper(t) /\ Specs(t) = {} /\ PutIds(t) = {m.id}
  BY <1>1 DEF Proper, Specs, PutIds
<1> QED
  BY <1>1, <1>2 DEF t

ListenAnswer(t, r) ==
  /\ t \in Seq(Message) /\ Proper(t) /\ Specs(t) = {r.spec} /\ PutIds(t) = {}
  /\ Asked(t, r.path, r.spec)

LEMMA OneListen ==
  ASSUME NEW m \in Message, m.type = "listen", NEW r, r.path = m.path, r.spec = m.spec
  PROVE  ListenAnswer(<<m>>, r)
<1> DEFINE t == <<m>>
<1>1. t \in Seq(Message) /\ DOMAIN t = {1} /\ t[1] = m
  OBVIOUS
<1> HIDE DEF t
<1>2. ListenAnswer(t, r)
  BY <1>1 DEF ListenAnswer, Proper, Specs, PutIds, Asked
<1> QED
  BY <1>2 DEF t

LEMMA DataAndListen ==
  ASSUME NEW d \in Message, d.type = "data",
         NEW m \in Message, m.type = "listen", NEW r, r.path = m.path, r.spec = m.spec
  PROVE  ListenAnswer(<<d, m>>, r)
<1> DEFINE t == <<d, m>>
<1>1. t \in Seq(Message) /\ DOMAIN t = {1, 2} /\ t[1] = d /\ t[2] = m
  OBVIOUS
<1> HIDE DEF t
<1>2. ListenAnswer(t, r)
  BY <1>1 DEF ListenAnswer, Proper, Specs, PutIds, Asked
<1> QED
  BY <1>2 DEF t

(* The server has handled the k-th request and sends t. *)
Replied(k, t) ==
  /\ t \in Seq(Message) /\ Proper(t)
  /\ up[k].type = "listen" => ListenAnswer(t, up[k])
  /\ up[k].type = "put" => Specs(t) = {} /\ PutIds(t) = {up[k].id}
  /\ up[k].type = "unlisten" => Specs(t) = {} /\ PutIds(t) = {}
  /\ \A j \in 1 .. k - 1 : up[j].type = "listen"
  /\ up' = RemoveAt(up, k) /\ down' = down \o t
  /\ UNCHANGED <<tree, listens, listenCalls, unackedListensCount, putsToAck, observeCalls,
                 written, connected>>

LEMMA RepliedStep ==
  ASSUME IInv, NEW k \in DOMAIN up, NEW t, Replied(k, t), Others'
  PROVE  IInv'
<1>1. /\ t \in Seq(Message) /\ Proper(t)
      /\ up[k].type = "listen" =>
           /\ Specs(t) = {up[k].spec} /\ PutIds(t) = {}
           /\ Asked(t, up[k].path, up[k].spec)
      /\ up[k].type = "put" => Specs(t) = {} /\ PutIds(t) = {up[k].id}
      /\ up[k].type = "unlisten" => Specs(t) = {} /\ PutIds(t) = {}
      /\ \A j \in 1 .. k - 1 : up[j].type = "listen"
      /\ up' = RemoveAt(up, k) /\ down' = down \o t
      /\ UNCHANGED <<tree, listens, listenCalls, unackedListensCount, putsToAck, observeCalls,
                     written, connected>>
  BY DEF Replied, ListenAnswer
<1>2. /\ Consistent(Tree, putsToAck, written)
      /\ Lines(up, down, listenCalls, unackedListensCount)
      /\ PutsOut(allWrites, putsToAck, up, down, connected)
      /\ Waits(listens, views, up, down, connected)
      /\ Quiet(regs, unackedListensCount, putsToAck, connected)
      /\ (~connected => up = <<>> /\ down = <<>>)
      /\ up \in Seq(Request) /\ down \in Seq(Message)
      /\ Listening(listens, listenCalls, Roots(regs)) /\ listenCalls <= MaxListens
      /\ connected \in BOOLEAN
  BY IInvParts DEF Others
<1>3. connected = TRUE
  BY <1>2
<1>4. up[k].type = "put" => \A j \in 1 .. k - 1 : up[j].type # "put"
  BY <1>1
<1>5. Below(PutIds(down), PutIds(up)) /\ PutIds(up) \cup PutIds(down) = Ids(allWrites) \ Held(putsToAck)
  BY <1>2, <1>3 DEF PutsOut
<1>6. Handled(up, down, listenCalls, unackedListensCount, k, t)
  BY <1>1, <1>2, <1>4, <1>5, LinesHandled
<1>7. /\ Lines(up', down', listenCalls', unackedListensCount')
      /\ Below(PutIds(down'), PutIds(up'))
      /\ PutIds(up') \cup PutIds(down') = PutIds(up) \cup PutIds(down)
  BY <1>1, <1>6 DEF Handled
<1>8. Tree' = Tree /\ allWrites' = allWrites /\ regs' = regs /\ views' = views
  BY <1>1 DEF tree, Tree
<1>9. Consistent(Tree, putsToAck, written)'
  BY <1>1, <1>2, <1>8
<1>10. PutsOut(allWrites', putsToAck', up', down', connected')
  BY <1>1, <1>5, <1>7, <1>8 DEF PutsOut
<1>11. \A q, s : Asked(up, q, s) \/ Asked(down, q, s) => Asked(up', q, s) \/ Asked(down', q, s)
  <2>1. ASSUME NEW q, NEW s, Asked(down, q, s) \/ Asked(t, q, s) PROVE Asked(down', q, s)
    BY <1>1, <1>2, <2>1, AskedConcat
  <2>2. ASSUME NEW q, NEW s, Asked(up, q, s) PROVE Asked(up', q, s) \/ Asked(t, q, s)
    <3>1. CASE up[k].type = "listen" /\ up[k].path = q /\ up[k].spec = s
      BY <1>1, <3>1
    <3>2. CASE ~(up[k].type = "listen" /\ up[k].path = q /\ up[k].spec = s)
      BY <1>1, <1>2, <2>2, <3>2, AskedWithout
    <3> QED BY <3>1, <3>2
  <2> QED BY <2>1, <2>2
<1>12. Waits(listens', views', up', down', connected')
  BY <1>1, <1>2, <1>3, <1>8, <1>11 DEF Waits
<1>13. Quiet(regs', unackedListensCount', putsToAck', connected')
  BY <1>1, <1>2, <1>8
<1>14. Wire'
  BY <1>1, <1>2, <1>3, <1>7, <1>8, <1>10, <1>12, <1>13 DEF Wire
<1> QED
  BY <1>9, <1>14 DEF IInv

(* The k-th request, for which the server does any of five things. *)
LEMMA ServerHandleStep ==
  ASSUME IInv, NEW k \in DOMAIN up, ServerHandle(k)
  PROVE  IInv'
<1> DEFINE r == up[k]
           node == WriteOf(allWrites, r.id).node
           data == [type |-> "data", node |-> Child(db, r.path)]
           listened(ok) == [type |-> "listen", path |-> r.path, spec |-> r.spec, ok |-> ok]
           wrote(ok) == [type |-> "put", id |-> r.id, ok |-> ok]
<1>1. /\ \A j \in 1 .. k - 1 : up[j].type = "listen"
      /\ up' = RemoveAt(up, k)
      /\ UNCHANGED <<tree, listens, listenCalls, unackedListensCount, putsToAck, observeCalls,
                     written, connected>>
  BY DEF ServerHandle
<1>2. \/ /\ r.type = "listen"
         /\ watched' = watched \cup {r.path} /\ down' = down \o <<data, listened(TRUE)>>
         /\ UNCHANGED <<db, denied, troubles>>
      \/ /\ r.type = "listen" /\ troubles < MaxTroubles
         /\ troubles' = troubles + 1 /\ down' = Append(down, listened(FALSE))
         /\ UNCHANGED server
      \/ /\ r.type = "unlisten"
         /\ watched' = watched \ {r.path}
         /\ UNCHANGED <<down, db, denied, troubles>>
      \/ /\ r.type = "put"
         /\ db' = UpdateChild(db, node) /\ down' = down \o Append(Pushes(node), wrote(TRUE))
         /\ UNCHANGED <<watched, denied, troubles>>
      \/ /\ r.type = "put" /\ troubles < MaxTroubles
         /\ troubles' = troubles + 1 /\ denied' = denied \cup {r.id}
         /\ down' = Append(down, wrote(FALSE))
         /\ UNCHANGED <<db, watched>>
  BY DEF ServerHandle
<1>3. /\ PutsOut(allWrites, putsToAck, up, down, connected)
      /\ (~connected => up = <<>> /\ down = <<>>) /\ allWrites \in Seq(Pending)
      /\ up \in Seq(Request) /\ down \in Seq(Message)
      /\ connected \in BOOLEAN /\ observeCalls \in 0 .. MaxObserves /\ troubles \in 0 .. MaxTroubles
      /\ db \in Node(Leaves) /\ watched \subseteq ViewPaths /\ denied \subseteq 1 .. LastPut
  BY IInvParts DEF Others
<1>4. r \in Request
  BY <1>3
<1>5. /\ r.type = "listen" => r.path \in ViewPaths /\ r.spec \in 1 .. MaxListens
      /\ r.type = "put" => r.id \in 1 .. LastPut
  <2> HIDE DEF r
  <2> QED BY <1>4, RequestFacts
<1>6. ASSUME troubles < MaxTroubles PROVE troubles + 1 \in 0 .. MaxTroubles
  BY <1>3, <1>6, BoundsAssumption
<1>7. ASSUME r.type = "listen", NEW ok \in BOOLEAN PROVE listened(ok) \in Message
  BY <1>5, <1>7 DEF Message
<1>8. ASSUME r.type = "put", NEW ok \in BOOLEAN PROVE wrote(ok) \in Message
  BY <1>5, <1>8 DEF Message
<1>9. observeCalls' = observeCalls /\ connected' = TRUE
  BY <1>1, <1>3
<1>10. CASE /\ r.type = "listen"
            /\ watched' = watched \cup {r.path} /\ down' = down \o <<data, listened(TRUE)>>
            /\ UNCHANGED <<db, denied, troubles>>
  <2>1. data \in Message
    <3>1. r.path \in Paths /\ r.path \in SUBSET Leaves
      BY <1>5, <1>10, PathFacts
    <3>2. Child(db, r.path) \in Node(r.path)
      BY <1>3, <3>1, ChildType
    <3>3. Child(db, r.path) \in UNION {Node(x) : x \in Paths}
      <4>1. Node(r.path) \in {Node(x) : x \in Paths}
        BY <3>1
      <4> QED BY <3>2, <4>1
    <3> HIDE DEF r
    <3> QED BY <3>3 DEF Message
  <2> DEFINE m == listened(TRUE)
  <2>2. m \in Message /\ m.type = "listen" /\ m.path = r.path /\ m.spec = r.spec
    BY <1>7, <1>10
  <2>3. data.type = "data"
    OBVIOUS
  <2> HIDE DEF m, data
  <2>4. ListenAnswer(<<data, m>>, r)
    BY <2>1, <2>2, <2>3, DataAndListen
  <2> DEFINE t == <<data, m>>
  <2>5. down' = down \o t /\ ListenAnswer(t, r)
    BY <1>10, <2>4 DEF m
  <2> HIDE DEF t
  <2>6. t \in Seq(Message) /\ Proper(t)
    BY <2>5 DEF ListenAnswer
  <2>7. Replied(k, t)
    BY <1>1, <1>10, <2>5, <2>6 DEF Replied
  <2>8. Others'
    BY <1>3, <1>5, <1>9, <1>10 DEF Others
  <2> QED BY <2>7, <2>8, RepliedStep
<1>11. CASE /\ r.type = "listen" /\ troubles < MaxTroubles
            /\ troubles' = troubles + 1 /\ down' = Append(down, listened(FALSE))
            /\ UNCHANGED server
  <2> DEFINE m == listened(FALSE)
             t == <<m>>
  <2>1. m \in Message /\ m.type = "listen" /\ m.path = r.path /\ m.spec = r.spec
    BY <1>7, <1>11
  <2> HIDE DEF m
  <2>2. ListenAnswer(t, r)
    BY <2>1, OneListen
  <2>3. down' = down \o t
    <3>1. down' = Append(down, m)
      BY <1>11 DEF m
    <3> QED BY <1>3, <2>1, <3>1
  <2> HIDE DEF t
  <2>4. t \in Seq(Message) /\ Proper(t)
    BY <2>2 DEF ListenAnswer
  <2>5. Replied(k, t)
    BY <1>1, <1>11, <2>2, <2>3, <2>4 DEF Replied
  <2>6. Others'
    BY <1>3, <1>6, <1>9, <1>11 DEF Others, server
  <2> QED BY <2>5, <2>6, RepliedStep
<1>12. CASE /\ r.type = "unlisten"
            /\ watched' = watched \ {r.path}
            /\ UNCHANGED <<down, db, denied, troubles>>
  <2> DEFINE t == <<>>
  <2>1. t \in Seq(Message) /\ Proper(t) /\ Specs(t) = {} /\ PutIds(t) = {} /\ down' = down \o t
    BY <1>3, <1>12, NoMessages
  <2> HIDE DEF t
  <2>2. Replied(k, t)
    BY <1>1, <1>12, <2>1 DEF Replied
  <2>3. Others'
    BY <1>3, <1>9, <1>12 DEF Others
  <2> QED BY <2>2, <2>3, RepliedStep
<1>13. CASE /\ r.type = "put"
            /\ db' = UpdateChild(db, node) /\ down' = down \o Append(Pushes(node), wrote(TRUE))
            /\ UNCHANGED <<watched, denied, troubles>>
  <2>1. r.id \in Ids(allWrites)
    <3>1. r.id \in PutIds(up)
      BY <1>13, SpecsAt
    <3> QED BY <1>3, <3>1 DEF PutsOut
  <2>2. node \in WriteNodes
    <3>1. IndexOf(allWrites, r.id) \in DOMAIN allWrites
      BY <2>1, IndexOfAt
    <3> QED BY <1>3, <3>1, PendingAt DEF WriteOf
  <2> DEFINE m == wrote(TRUE)
             ts == Pushes(node)
             t == ts \o <<m>>
  <2>3. m \in Message /\ m.type = "put" /\ m.id = r.id
    BY <1>8, <1>13
  <2>4. node \in Nodes /\ node \in Node(DOMAIN node)
    BY <2>2, WriteNodeFacts
  <2>5. Pushed(ts)
    BY <1>3, <2>4, PushesData
  <2>6. down' = down \o Append(ts, m)
    BY <1>13
  <2> HIDE DEF m, ts, node
  <2>7. ts \in Seq(Message) /\ Proper(ts) /\ Specs(ts) = {} /\ PutIds(ts) = {}
    BY <2>5 DEF Pushed
  <2>8. <<m>> \in Seq(Message) /\ Proper(<<m>>) /\ Specs(<<m>>) = {} /\ PutIds(<<m>>) = {r.id}
    BY <2>3, OnePut
  <2>9. t \in Seq(Message) /\ Specs(t) = {} /\ PutIds(t) = {r.id} /\ Proper(t)
    <3> DEFINE e == <<m>>
    <3> HIDE DEF e
    <3>1. e \in Seq(Message) /\ Proper(e) /\ Specs(e) = {} /\ PutIds(e) = {r.id}
      BY <2>8 DEF e
    <3>2. Specs(ts) \cap Specs(e) = {} /\ Below(PutIds(ts), PutIds(e))
      BY <2>7 DEF Below
    <3>3. ts \o e \in Seq(Message)
      BY <2>7, <3>1
    <3>4. Specs(ts \o e) = Specs(ts) \cup Specs(e) /\ PutIds(ts \o e) = PutIds(ts) \cup PutIds(e)
      BY <2>7, <3>1, ConcatMessages
    <3>5. Proper(ts \o e)
      BY <2>7, <3>1, <3>2, ConcatMessages
    <3> QED BY <2>7, <3>1, <3>3, <3>4, <3>5 DEF e
  <2>10. Append(ts, m) = t
    BY <2>3, <2>7
  <2> HIDE DEF t
  <2>11. down' = down \o t
    BY <2>6, <2>10
  <2>12. Replied(k, t)
    BY <1>1, <1>13, <2>9, <2>11 DEF Replied
  <2>13. UpdateChild(db, node) \in Node(Leaves)
    BY <1>3, <2>4, UpdateChildType
  <2>14. Others'
    BY <1>3, <1>9, <1>13, <2>13 DEF Others
  <2> QED BY <2>12, <2>14, RepliedStep
<1>14. CASE /\ r.type = "put" /\ troubles < MaxTroubles
            /\ troubles' = troubles + 1 /\ denied' = denied \cup {r.id}
            /\ down' = Append(down, wrote(FALSE))
            /\ UNCHANGED <<db, watched>>
  <2> DEFINE m == wrote(FALSE)
             t == <<m>>
  <2>1. m \in Message /\ m.type = "put" /\ m.id = r.id
    BY <1>8, <1>14
  <2> HIDE DEF m
  <2>2. t \in Seq(Message) /\ Proper(t) /\ Specs(t) = {} /\ PutIds(t) = {r.id}
    BY <2>1, OnePut
  <2>3. down' = down \o t
    <3>1. down' = Append(down, m)
      BY <1>14 DEF m
    <3> QED BY <1>3, <2>1, <3>1
  <2> HIDE DEF t
  <2>4. Replied(k, t)
    BY <1>1, <1>14, <2>2, <2>3 DEF Replied
  <2>5. Others'
    BY <1>3, <1>5, <1>6, <1>9, <1>14 DEF Others
  <2> QED BY <2>4, <2>5, RepliedStep
<1> QED
  BY <1>2, <1>10, <1>11, <1>12, <1>13, <1>14

(* Another client. *)
LEMMA OtherWritesStep ==
  ASSUME IInv, NEW p \in WritePaths, OtherWrites(p)
  PROVE  IInv'
<1> DEFINE node == [l \in p |-> Theirs]
           t == Pushes(node)
<1>1. /\ troubles < MaxTroubles /\ troubles' = troubles + 1
      /\ db' = UpdateChild(db, node) /\ down' = down \o t
      /\ UNCHANGED <<tree, wire, observeCalls, written, connected, watched, denied>>
  BY DEF OtherWrites
<1>2. /\ Consistent(Tree, putsToAck, written)
      /\ Lines(up, down, listenCalls, unackedListensCount)
      /\ PutsOut(allWrites, putsToAck, up, down, connected)
      /\ Waits(listens, views, up, down, connected)
      /\ Quiet(regs, unackedListensCount, putsToAck, connected)
      /\ (~connected => up = <<>> /\ down = <<>>)
      /\ down \in Seq(Message)
      /\ Listening(listens, listenCalls, Roots(regs)) /\ listenCalls <= MaxListens
      /\ connected \in BOOLEAN /\ observeCalls \in 0 .. MaxObserves /\ troubles \in 0 .. MaxTroubles
      /\ db \in Node(Leaves) /\ watched \subseteq ViewPaths /\ denied \subseteq 1 .. LastPut
      /\ (~connected => watched = {})
  BY IInvParts DEF Others
<1>3. p \in Paths /\ node \in Node(p)
  BY PathFacts DEF Node, Values
<1>4. node \in Nodes
  <2>1. Node(p) \in {Node(x) : x \in Paths}
    BY <1>3
  <2> QED BY <1>3, <2>1 DEF Nodes
<1>5. Pushed(t)
  BY <1>2, <1>4, PushesData
<1>6. UpdateChild(db, node) \in Node(Leaves)
  BY <1>2, <1>3, UpdateChildType
<1> HIDE DEF t, node
<1>7. /\ listens' = listens /\ listenCalls' = listenCalls /\ up' = up
      /\ unackedListensCount' = unackedListensCount
      /\ putsToAck' = putsToAck /\ written' = written /\ connected' = connected
  BY <1>1 DEF wire
<1>8. Tree' = Tree /\ allWrites' = allWrites /\ regs' = regs /\ views' = views
  BY <1>1 DEF tree, Tree
<1>9. Others'
  <2>1. troubles + 1 \in 0 .. MaxTroubles
    BY <1>1, <1>2, BoundsAssumption
  <2> QED BY <1>1, <1>2, <1>6, <2>1 DEF Others
<1>10. Consistent(Tree, putsToAck, written)'
  BY <1>2, <1>7, <1>8
<1>11. Lines(up, down \o t, listenCalls, unackedListensCount) /\ PutIds(down \o t) = PutIds(down)
  BY <1>2, <1>5, LinesPushed
<1>12. \A q, s : Asked(down, q, s) => Asked(down', q, s)
  BY <1>1, <1>2, <1>5, AskedConcat DEF Pushed
<1>13. Waits(listens', views', up', down', connected')
  BY <1>2, <1>7, <1>8, <1>12 DEF Waits
<1>14. PutsOut(allWrites', putsToAck', up', down', connected')
  BY <1>1, <1>2, <1>7, <1>8, <1>11 DEF PutsOut
<1>15. ASSUME ~connected PROVE up' = <<>> /\ down' = <<>>
  <2>1. t = SetToSeq({})
    <3>1. watched = {}
      BY <1>2, <1>15
    <3>2. {[type |-> "data", node |-> Child(node, DOMAIN node \cap q)] :
             q \in {x \in watched : x \cap DOMAIN node # {}}} = {}
      BY <3>1
    <3> QED BY <3>2 DEF t, Pushes
  <2>2. IsFiniteSet({}) /\ Cardinality({}) = 0
    BY FS_EmptySet
  <2>3. t \in SetToSeqs({})
    BY <2>1, <2>2, SomeOrder
  <2>4. Len(t) = 0
    BY <2>2, <2>3, InOrderOf
  <2>5. t = <<>>
    BY <1>5, <2>4 DEF Pushed
  <2> QED BY <1>1, <1>2, <1>7, <1>15, <2>5
<1>16. Wire'
  BY <1>1, <1>2, <1>7, <1>8, <1>11, <1>13, <1>14, <1>15 DEF Wire
<1> QED
  BY <1>9, <1>10, <1>16 DEF IInv

-----------------------------------------------------------------------------
(* The invariant of the specification *)

LEMMA NoViewType ==
  ASSUME NEW p
  PROVE  NoView(p) \in ViewOf(p)
  BY EmptyType DEF NoView, NewView, ViewOf

LEMMA InitConsistent ==
  ASSUME Init
  PROVE  Consistent(Tree, putsToAck, written)
<1>1. /\ allWrites = <<>> /\ visibleWrites = {} /\ written = <<>> /\ putsToAck = <<>>
      /\ regs = [p \in ViewPaths |-> {}] /\ views = [p \in ViewPaths |-> NoView(p)]
      /\ raised = [p \in ViewPaths |-> None] /\ fired = {}
  BY DEF Init
<1>2. Viewed(Tree.regs) = {}
  BY <1>1, TreeAt DEF Viewed
<1>3. /\ allWrites \in Seq(Pending) /\ DOMAIN allWrites = {} /\ Ids(allWrites) = {}
      /\ written \in Seq(WritePaths)
  BY <1>1 DEF Ids
<1>4. regs \in [ViewPaths -> SUBSET Kinds] /\ \A p \in ViewPaths : views[p] \in ViewOf(p)
  BY <1>1, NoViewType
<1>5. views \in [ViewPaths -> UNION {ViewOf(p) : p \in ViewPaths}]
  <2>1. ASSUME NEW p \in ViewPaths PROVE views[p] \in UNION {ViewOf(q) : q \in ViewPaths}
    <3>1. ViewOf(p) \in {ViewOf(q) : q \in ViewPaths}
      OBVIOUS
    <3> QED BY <1>4, <3>1
  <2> QED BY <1>1, <2>1
<1>6. raised \in [ViewPaths -> (UNION {Node(p) : p \in ViewPaths}) \cup {None}]
  BY <1>1
<1>7. Tree \in Trees
  BY <1>1, <1>3, <1>4, <1>5, <1>6 DEF Trees, Tree
<1>8. WellFormed(Tree)
  <2>1. Ascending(allWrites) /\ Compound(visibleWrites)
    BY <1>1, <1>3 DEF Ascending, Compound
  <2>2. \A p \in ViewPaths : raised[p] \in Node(p) \cup {None}
    BY <1>1
  <2> QED BY <1>1, <1>4, <1>7, <2>1, <2>2, TreeAt DEF WellFormed
<1>9. Sound(Tree) /\ FaithfulBut(Tree, {})
  BY <1>2, <1>8 DEF Sound, Filled, Told, FaithfulBut
<1>10. HeldFirst(allWrites, putsToAck)
  BY <1>1, NoneHeld
<1>11. LayeredBut(visibleWrites, allWrites, Stale(allWrites, putsToAck, written))
  <2>1. Compound(visibleWrites)
    BY <1>1 DEF Compound
  <2> QED BY <1>1, <1>3, <2>1 DEF LayeredBut
<1>12. Ids(allWrites) \subseteq 1 .. Len(written)
  BY <1>3
<1> QED
  BY <1>3, <1>9, <1>10, <1>11, <1>12, TreeAt DEF Consistent

LEMMA InitIInv ==
  ASSUME Init
  PROVE  IInv
<1>1. Consistent(Tree, putsToAck, written)
  BY InitConsistent
<1>2. /\ allWrites = <<>> /\ regs = [p \in ViewPaths |-> {}]
      /\ listens = [p \in ViewPaths |-> 0]
      /\ listenCalls = 0 /\ observeCalls = 0 /\ putsToAck = <<>>
      /\ unackedListensCount = 0
      /\ connected = TRUE /\ up = <<>> /\ down = <<>>
      /\ db = [l \in Leaves |-> Initial] /\ watched = {} /\ denied = {}
      /\ troubles = 0
  BY DEF Init
<1>3. Viewed(regs) = {} /\ Roots(regs) = {}
  BY <1>2 DEF Viewed, Roots
<1>4. Listening(listens, listenCalls, Roots(regs)) /\ listenCalls <= MaxListens
  <2>1. listenCalls = 0 /\ 0 <= MaxListens /\ 0 \in 0 .. 0
    BY <1>2, BoundsAssumption
  <2>2. listens \in [ViewPaths -> 0 .. 0] /\ \A p \in ViewPaths : listens[p] = 0
    BY <1>2, <2>1
  <2>3. Listening(listens, 0, {})
    BY <2>2 DEF Listening
  <2> QED BY <1>3, <2>1, <2>3
<1>5. Lines(up, down, listenCalls, unackedListensCount)
  <2>1. Lines(<<>>, <<>>, 0, 0)
    BY LinesLost
  <2> QED BY <1>2, <2>1
<1>6. Ids(allWrites) = {}
  <2>1. DOMAIN allWrites = {}
    BY <1>2
  <2> QED BY <2>1 DEF Ids
<1>7. PutsOut(allWrites, putsToAck, up, down, connected)
  BY <1>2, <1>6, NoMessages DEF PutsOut, Below
<1>8. Waits(listens, views, up, down, connected)
  BY <1>2 DEF Waits
<1>9. Quiet(regs, unackedListensCount, putsToAck, connected)
  BY <1>3 DEF Quiet
<1>10. Others
  <2>1. db \in Node(Leaves)
    BY <1>2 DEF Node, Values
  <2> QED BY <1>2, <2>1, BoundsAssumption DEF Others
<1>11. Wire
  BY <1>2, <1>4, <1>5, <1>7, <1>8, <1>9 DEF Wire
<1> QED
  BY <1>1, <1>10, <1>11 DEF IInv

LEMMA NextIInv ==
  ASSUME IInv, [Next]_vars
  PROVE  IInv'
<1>1. CASE Application /\ UNCHANGED troubles
  <2>1. CASE \E p \in WritePaths, remove \in BOOLEAN : Set(p, remove)
    BY <1>1, <2>1, SetStep
  <2>2. CASE \E p \in ViewPaths, kind \in Kinds : Observe(p, kind)
    BY <1>1, <2>2, ObserveStep
  <2>3. CASE \E p \in ViewPaths : RemoveObserver(p, "on")
    <3>1. "on" \in Kinds
      BY DEF Kinds
    <3> QED BY <1>1, <2>3, <3>1, RemoveObserverStep
  <2> QED BY <1>1, <2>1, <2>2, <2>3 DEF Application
<1>2. CASE Queue /\ UNCHANGED troubles
  <2>1. CASE RemoveCalled
    <3>1. "once" \in Kinds
      BY DEF Kinds
    <3>2. PICK p \in fired : RemoveObserver(p, "once")
      BY <2>1 DEF RemoveCalled
    <3>3. p \in ViewPaths
      <4>1. Tree.fired \in SUBSET ViewPaths
        BY IInvParts, TreeFields DEF Sound
      <4> QED BY <4>1, TreeAt
    <3> QED BY <1>2, <3>1, <3>2, <3>3, RemoveObserverStep
  <2> QED BY <1>2, <2>1, OnDataStep, OnPutStep, OnListenStep, RestoreStep DEF Queue
<1>3. CASE Drop
  BY <1>3, DropStep
<1>4. CASE \E k \in DOMAIN up : ServerHandle(k)
  BY <1>4, ServerHandleStep
<1>5. CASE \E p \in WritePaths : OtherWrites(p)
  BY <1>5, OtherWritesStep
<1>6. CASE UNCHANGED vars
  <2>1. /\ UNCHANGED <<allWrites, visibleWrites, regs, views, raised, fired>>
        /\ UNCHANGED <<listens, listenCalls, unackedListensCount, putsToAck, up>>
        /\ UNCHANGED <<db, watched, denied>>
        /\ UNCHANGED <<observeCalls, written, connected, down, troubles>>
    BY <1>6 DEF vars, tree, wire, server
  <2>2. Tree' = Tree
    BY <2>1 DEF Tree
  <2>3. Consistent(Tree, putsToAck, written)' /\ Wire' /\ Others'
    <3>1. Consistent(Tree, putsToAck, written) /\ Wire /\ Others
      BY DEF IInv
    <3>2. Consistent(Tree, putsToAck, written)'
      BY <2>1, <2>2, <3>1
    <3>3. Wire'
      BY <2>1, <3>1 DEF Wire
    <3> QED BY <2>1, <3>1, <3>2, <3>3 DEF Others
  <2> QED BY <2>3 DEF IInv
<1> QED
  BY <1>1, <1>2, <1>3, <1>4, <1>5, <1>6 DEF Next

(* The invariant of the cache and the connection together: what is shown   *)
(* is the server's node under the pending writes, the pending writes are   *)
(* layered up to what is held back, the root-most views and no others are  *)
(* listened to, and every request without an answer is on its way.         *)
THEOREM CacheAndConnectionAgree == Spec => []IInv
<1>1. Init => IInv
  BY InitIInv
<1>2. IInv /\ [Next]_vars => IInv'
  BY NextIInv
<1> QED
  BY <1>1, <1>2, PTL DEF Spec

(* Types of everything the cache and the connection keep, and of all that  *)
(* is on its way, after any calls, answers, losses and refusals.           *)
THEOREM TypesOfCache == Spec => []TypeOK
<1>1. ASSUME IInv PROVE TypeOK
  <2>1. /\ Consistent(Tree, putsToAck, written) /\ Sound(Tree) /\ Others
        /\ HeldFirst(allWrites, putsToAck) /\ allWrites \in Seq(Pending)
        /\ Listening(listens, listenCalls, Roots(regs)) /\ listenCalls <= MaxListens
        /\ listenCalls \in Nat
        /\ Lines(up, down, listenCalls, unackedListensCount)
        /\ up \in Seq(Request) /\ down \in Seq(Message)
    BY <1>1, IInvParts
  <2>2. WellFormed(Tree)
    BY <2>1 DEF Sound
  <2>3. ASSUME NEW k \in DOMAIN allWrites
        PROVE  allWrites[k].id \in 1 .. LastPut /\ DOMAIN allWrites[k].node \in WritePaths
    <3>1. allWrites[k].node \in WriteNodes /\ allWrites[k].id \in 1 .. LastPut
      BY <2>1, PendingAt
    <3> QED BY <3>1, WriteNodeFacts
  <2>4. ASSUME NEW w \in visibleWrites PROVE DOMAIN w \in WritePaths /\ w \in Node(DOMAIN w)
    <3>1. w \in WriteNodes
      BY <2>2, TreeFields, TreeAt
    <3> QED BY <3>1, WriteNodeFacts
  <2>5. regs \in [ViewPaths -> SUBSET Kinds]
    BY <2>2, TreeFields, TreeAt
  <2>6. ASSUME NEW p \in ViewPaths
        PROVE  /\ views[p].server \in Node(p) /\ views[p].serverFull \in BOOLEAN
               /\ views[p].event \in Node(p) /\ views[p].eventFull \in BOOLEAN
               /\ raised[p] \in Node(p) \cup {None}
               /\ p \in fired => "once" \in regs[p]
    <3>1. views[p] \in ViewOf(p) /\ raised[p] \in Node(p) \cup {None}
          /\ (p \in fired => "once" \in regs[p])
      BY <2>2, TreeAt DEF WellFormed
    <3> QED BY <3>1 DEF ViewOf
  <2>7. listens \in [ViewPaths -> 0 .. listenCalls] /\ listenCalls \in 0 .. MaxListens
    BY <2>1, BoundsAssumption DEF Listening
  <2>8. unackedListensCount \in 0 .. MaxListens
    <3>1. unackedListensCount \in 0 .. listenCalls
      BY <2>1, LinesCount
    <3> QED BY <2>7, <3>1, BoundsAssumption
  <2>9. putsToAck \in Seq([id : 1 .. LastPut, ok : BOOLEAN]) /\ written \in Seq(WritePaths)
    BY <2>1 DEF HeldFirst, Acks, Consistent
  <2> QED BY <2>1, <2>3, <2>4, <2>5, <2>6, <2>7, <2>8, <2>9 DEF TypeOK, Others
<1> QED
  BY <1>1, CacheAndConnectionAgree, PTL

(* The root-most views are listened to and no others, however observers    *)
(* come and go, listens are refused and the connection is lost.            *)
THEOREM RootsAreListenedTo == Spec => []OneListenCovers
<1>1. ASSUME IInv PROVE OneListenCovers
  <2>1. Listening(listens, listenCalls, Roots(regs))
    BY <1>1, IInvParts
  <2>2. Roots(regs) \subseteq ViewPaths
    BY DEF Roots, Viewed
  <2>3. {p \in ViewPaths : listens[p] # 0} = Roots(regs)
    BY <2>1, <2>2 DEF Listening
  <2> QED BY <2>3 DEF OneListenCovers, Roots
<1> QED
  BY <1>1, CacheAndConnectionAgree, PTL

(* Every operation raises the value of each view it changes: observers     *)
(* have been told what their view shows.                                   *)
THEOREM ObserversAreTold == Spec => []RaisedIsCurrent
<1>1. ASSUME IInv PROVE RaisedIsCurrent
  <2>1. Told(Tree)
    BY <1>1, IInvParts DEF Sound
  <2> QED BY <2>1, TreeAt DEF Told, RaisedIsCurrent
<1> QED
  BY <1>1, CacheAndConnectionAgree, PTL

(* FViewProcessor's incremental updates of what is shown always give what  *)
(* laying the pending writes over the whole server's node would.           *)
THEOREM ShownIsOverlay == Spec => []EventIsOverlay
<1>1. ASSUME IInv PROVE EventIsOverlay
  <2>1. Sound(Tree) /\ FaithfulBut(Tree, {}) /\ Filled(Tree) /\ WellFormed(Tree)
    BY <1>1, IInvParts DEF Consistent, Sound
  <2>2. \A p \in Viewed(regs) : Faithful(views[p], p, visibleWrites)
    <3>1. \A p \in Viewed(Tree.regs) : Faithful(Tree.views[p], p, Tree.visibleWrites)
      BY <2>1, FaithfulNone
    <3> QED BY <3>1, TreeAt
  <2>3. ASSUME NEW p \in Viewed(regs)
        PROVE  /\ views[p].serverFull => views[p].eventFull
               /\ views[p].eventFull => views[p].event = Overlay(visibleWrites, views[p].server)
    <3>1. p \in ViewPaths
      BY DEF Viewed
    <3>2. views[p].server \in Node(p) /\ views[p].event \in Node(p) /\ visibleWrites \in SUBSET Nodes
      <4>1. views[p] \in ViewOf(p) /\ visibleWrites \in SUBSET Nodes
        BY <2>1, <3>1, TreeFields, TreeAt
      <4> QED BY <4>1 DEF ViewOf
    <3>3. views[p].serverFull => views[p].eventFull
      BY <2>1, TreeAt DEF Filled
    <3>4. ASSUME views[p].eventFull PROVE views[p].event = Overlay(visibleWrites, views[p].server)
      <4> DEFINE n == views[p].event
                 o == Overlay(visibleWrites, views[p].server)
      <4>1. n \in Node(p) /\ o \in Node(p)
        BY <3>2, OverlayType
      <4>2. \A l \in p : o[l] = Shown(visibleWrites, l, views[p].server[l])
        BY <3>2, OverlayAt
      <4>3. \A l \in p : n[l] = Shown(visibleWrites, l, views[p].server[l])
        BY <2>2, <3>4 DEF Faithful
      <4> HIDE DEF n, o
      <4>4. \A l \in p : n[l] = o[l]
        BY <4>2, <4>3
      <4>5. n = o
        BY <4>1, <4>4, NodesEqual
      <4> QED BY <4>5 DEF n, o
    <3> QED BY <3>3, <3>4
  <2> QED BY <2>3 DEF EventIsOverlay
<1> QED
  BY <1>1, CacheAndConnectionAgree, PTL

(* Acknowledged in order, no write that was acknowledged is later than one *)
(* that is held back.                                                      *)
LEMMA NothingStale ==
  ASSUME IInv, InOrder
  PROVE  LayeredBut(visibleWrites, allWrites, {}) /\ allWrites \in Seq(Pending)
<1>1. /\ allWrites \in Seq(Pending)
      /\ LayeredBut(visibleWrites, allWrites, Stale(allWrites, putsToAck, written))
  <2>1. Consistent(Tree, putsToAck, written) /\ allWrites \in Seq(Pending)
    BY IInvParts
  <2> QED BY <2>1, TreeAt DEF Consistent
<1>2. Stale(allWrites, putsToAck, written) = {}
  <2>1. ASSUME NEW l \in Stale(allWrites, putsToAck, written) PROVE FALSE
    <3>1. PICK k : /\ LastAt(allWrites, l, k)
                   /\ \E x \in DOMAIN written : x > allWrites[k].id /\ x \notin Ids(allWrites)
      BY DEF Stale
    <3>2. k \in DOMAIN allWrites
      BY <3>1 DEF LastAt
    <3>3. allWrites[k].id \in Ids(allWrites)
      BY <1>1, <3>2, IdsAt
    <3> QED BY <3>1, <3>3 DEF InOrder
  <2> QED BY <2>1
<1> QED
  BY <1>1, <1>2

(* The shortcuts of addWrite and removeWriteId leave the layers that all   *)
(* pending writes give, as long as writes are acknowledged in order.       *)
THEOREM WritesAreLayered == Spec => []VisibleIsLayered
<1>1. ASSUME IInv, InOrder PROVE visibleWrites = Layer(allWrites)
  BY <1>1, NothingStale, LayeredUnique
<1>2. IInv => VisibleIsLayered
  BY <1>1 DEF VisibleIsLayered
<1> QED
  BY <1>2, CacheAndConnectionAgree, PTL

(* No observer waits for nothing: one that was told nothing has the answer *)
(* of a listen that covers it on its way.                                  *)
THEOREM WaitingHasAnAnswer == Spec => []AnswerOnItsWay
<1>1. ASSUME IInv, connected, NEW p \in Viewed(regs), ~views[p].eventFull
      PROVE  \E q \in CoveredBy(regs, p) \cup {p} :
               \/ \E k \in DOMAIN up : up[k] = ListenRequest(q, listens[q])
               \/ \E k \in DOMAIN down :
                    down[k].type = "listen" /\ down[k].path = q /\ down[k].spec = listens[q]
  <2>1. /\ Filled(Tree) /\ Listening(listens, listenCalls, Roots(regs))
        /\ Waits(listens, views, up, down, connected) /\ up \in Seq(Request)
    BY <1>1, IInvParts
  <2>2. PICK q \in Roots(regs) : p \subseteq q
    BY RootAbove
  <2>3. q \in Viewed(regs) /\ q \in ViewPaths
    BY DEF Roots, Viewed
  <2>4. q \in CoveredBy(regs, p) \cup {p}
    BY <2>2, <2>3 DEF CoveredBy
  <2>5. ~views[q].serverFull
    <3>1. ~views[p].serverFull
      BY <1>1, <2>1, TreeAt DEF Filled
    <3> QED BY <2>1, <2>2, <2>3, <3>1, TreeAt DEF Filled
  <2>6. Asked(up, q, listens[q]) \/ Asked(down, q, listens[q])
    BY <1>1, <2>1, <2>3, <2>5 DEF Listening, Waits
  <2>7. CASE Asked(up, q, listens[q])
    <3>1. PICK k \in DOMAIN up : up[k].type = "listen" /\ up[k].path = q /\ up[k].spec = listens[q]
      BY <2>7 DEF Asked
    <3>2. up[k] \in Request
      BY <2>1
    <3>3. up[k] = ListenRequest(q, listens[q])
      BY <3>1, <3>2, RequestFacts
    <3> QED BY <2>4, <3>3
  <2>8. CASE Asked(down, q, listens[q])
    BY <2>4, <2>8 DEF Asked
  <2> QED BY <2>6, <2>7, <2>8
<1>2. IInv => AnswerOnItsWay
  BY <1>1 DEF AnswerOnItsWay
<1> QED
  BY <1>2, CacheAndConnectionAgree, PTL

=============================================================================

---------------------------- MODULE ViewProcessor ----------------------------
(***************************************************************************)
(* FViewProcessor: what an operation makes of the caches of a view.  Only  *)
(* default queries are used, so the filter is FIndexedFilter and nothing   *)
(* is ever filtered.                                                       *)
(*                                                                         *)
(* A view of the path p keeps the last node the server sent and the one    *)
(* shown to its observers, each with whether it is complete               *)
(* (isFullyInitialized); an incomplete node holds the children known.      *)
(* "writes" is visibleWrites, q the path of the operation, at or below p:  *)
(* an operation above p reaches its view as one at p (operationForChild).  *)
(***************************************************************************)
EXTENDS WriteTree

NewView(server, serverFull, event, eventFull) ==
  [server |-> server, serverFull |-> serverFull, event |-> event, eventFull |-> eventFull]

PathOfView(view) == DOMAIN view.server

(* FCacheNode's isCompleteForChild.                                        *)
CompleteForChild(node, full, c) == full \/ ~IsEmpty(Child(node, c))

(* isCompleteForPath, of the server's node.                                *)
ServerCompleteForPath(view, q) ==
  LET p == PathOfView(view)
  IN  view.serverFull \/ (q # p /\ ~IsEmpty(Child(view.server, ChildTowards(p, q))))

(* FIndexedFilter's updateChildIn compares only what is below the path of  *)
(* the change, and whether the child comes or goes.                        *)
UpdateChildIn(node, new, q) ==
  LET old == Child(node, DOMAIN new)
  IN  IF Child(old, q) = Child(new, q) /\ IsEmpty(old) = IsEmpty(new)
        THEN node ELSE UpdateChild(node, new)

(* calculateCompleteChild: a set with the complete child c, if there is.   *)
CompleteChild(writes, node, full, c) ==
  {Overlay(writes, Child(node, c)) :
     x \in {y \in {c} : HasCompleteWrite(writes, c) \/ CompleteForChild(node, full, c)}}

(* generateEventCacheAfterServerEvent.                                     *)
EventAfterServer(view, q, writes) ==
  LET p == PathOfView(view)
      c == ChildTowards(p, q)
      news ==
        IF CompleteForChild(view.event, view.eventFull, c)
          THEN {UpdateChild(Child(view.event, c), Overlay(writes, Child(view.server, q)))}
          ELSE CompleteChild(writes, view.server, view.serverFull, c)
  IN  IF HasCompleteWrite(writes, q) THEN view
      ELSE IF q = p
        THEN [view EXCEPT !.event = Overlay(writes, view.server), !.eventFull = TRUE]
      ELSE [view EXCEPT !.event =
              IF news = {} THEN @ ELSE UpdateChildIn(@, CHOOSE n \in news : TRUE, q)]

(* applyServerOverwriteTo: an incomplete view takes no deep updates, which *)
(* are meant for other listeners.                                          *)
ServerOverwrite(view, snap, writes) ==
  LET p == PathOfView(view)
      q == DOMAIN snap
      c == ChildTowards(p, q)
      new == UpdateChild(Child(view.server, c), snap)
      server == IF q = p THEN snap ELSE UpdateChildIn(view.server, new, q)
  IN  IF q # p /\ q # c /\ ~ServerCompleteForPath(view, q) THEN view
      ELSE EventAfterServer([view EXCEPT !.server = server, !.serverFull = @ \/ q = p], q, writes)

(* applyUserOverwriteTo.  "known" holds what the nearest complete view     *)
(* above, if any, knows of the server's node here.                         *)
UserOverwrite(view, snap, writes, known) ==
  LET p == PathOfView(view)
      q == DOMAIN snap
      c == ChildTowards(p, q)
      completeChild ==
        IF CompleteForChild(view.event, view.eventFull, c) THEN {Child(view.event, c)}
        ELSE IF known # {} THEN CompleteChild(writes, CHOOSE n \in known : TRUE, TRUE, c)
        ELSE CompleteChild(writes, view.server, view.serverFull, c)
      new == IF q = c THEN snap
             ELSE IF completeChild = {} THEN Empty(c)
             ELSE UpdateChild(CHOOSE n \in completeChild : TRUE, snap)
  IN  IF q = p THEN [view EXCEPT !.event = snap, !.eventFull = TRUE]
      ELSE [view EXCEPT !.event = UpdateChildIn(@, new, q)]

(* Mutant: an acknowledged write just stops hiding the server's node.      *)
AckNothing(view, q, writes) == view

(* ackUserWriteOn: the server's node is applied again, now that the write  *)
(* does not hide it; if only some children are known, each of them is      *)
(* (applyServerMergeTo).                                                   *)
AckUserWrite(view, q, writes) ==
  LET p == PathOfView(view)
      known == {c \in Children(p) : ~IsEmpty(Child(view.server, c))}
  IN  IF HasCompleteWrite(writes, q) THEN view
      ELSE IF ServerCompleteForPath(view, q)
        THEN ServerOverwrite(view, Child(view.server, q), writes)
      ELSE IF q = p
        THEN FoldSet(LAMBDA c, v : ServerOverwrite(v, Child(view.server, c), writes), view, known)
      ELSE view

(* Mutant: a refused write stays on show.                                  *)
RevertNothing(view, q, writes) == view

(* revertUserWriteOn.                                                      *)
RevertUserWrite(view, q, writes) ==
  LET p == PathOfView(view)
      c == ChildTowards(p, q)
      complete == CompleteChild(writes, view.server, view.serverFull, c)
      new == IF complete = {} THEN Empty(c) ELSE CHOOSE n \in complete : TRUE
      event == IF q # p THEN UpdateChildIn(view.event, new, q)
               ELSE IF view.serverFull THEN Overlay(writes, view.server)
               ELSE CompleteEventChildren(writes, view.server)
  IN  IF HasCompleteWrite(writes, q) THEN view
      ELSE [view EXCEPT !.event = event,
                        !.eventFull = view.serverFull \/ HasCompleteWrite(writes, p)]

(* listenComplete.                                                         *)
ListenComplete(view, q, writes) ==
  EventAfterServer([view EXCEPT !.serverFull = @ \/ q = PathOfView(view)], q, writes)
=============================================================================

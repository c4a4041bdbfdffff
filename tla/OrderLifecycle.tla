---------------------------- MODULE OrderLifecycle ----------------------------
(***************************************************************************)
(* What ordering promises to the customer and to the staff, without        *)
(* phones, queues or resends: an order is composed once, its storing       *)
(* begins, and then, at one instant, all of it is placed exactly as it was *)
(* composed.  After that it never changes.  Storing may stop forever at    *)
(* any point: the phone may die.                                           *)
(***************************************************************************)
CONSTANTS
  Names,     \* the orders
  Contents,  \* what an order may consist of
  Nothing    \* an order that does not exist yet

VARIABLES
  composed,  \* what the customer's phone composed for each order
  begun,     \* the orders of which a part is stored
  placed     \* what the staff sees of each order

vars == <<composed, begun, placed>>

Init ==
  /\ composed = [o \in Names |-> Nothing]
  /\ begun = {}
  /\ placed = [o \in Names |-> Nothing]

Compose(o) ==
  /\ composed[o] = Nothing
  /\ \E c \in Contents : composed' = [composed EXCEPT ![o] = c]
  /\ UNCHANGED <<begun, placed>>

Begin(o) ==
  /\ composed[o] # Nothing /\ o \notin begun
  /\ begun' = begun \cup {o}
  /\ UNCHANGED <<composed, placed>>

Place(o) ==
  /\ o \in begun /\ placed[o] = Nothing
  /\ placed' = [placed EXCEPT ![o] = composed[o]]
  /\ UNCHANGED <<composed, begun>>

Next == \E o \in Names : Compose(o) \/ Begin(o) \/ Place(o)

Spec == Init /\ [][Next]_vars
=============================================================================

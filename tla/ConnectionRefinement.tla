------------------------- MODULE ConnectionRefinement -------------------------
(***************************************************************************)
(* Connection implements WriteQueue: outstandingPuts, the requests and     *)
(* answers on their way and the "sent" flags are a queue that the server   *)
(* works off in order.                                                     *)
(***************************************************************************)
EXTENDS Connection

(* The outstanding writes whose answer is on its way.                      *)
Handled ==
  {i \in outstandingPuts : \E k \in DOMAIN down : down[k].type = "put" /\ down[k].put = i}

(* The writes that were cancelled: they may still be on the wire.           *)
GivenUp == {i \in Puts : completed[i] \in {"disconnect", "canceled"}}

Queued == INSTANCE WriteQueue WITH
  made <- putCounter,
  outbox <- outstandingPuts,
  handled <- Handled,
  givenUp <- GivenUp,
  stored <- lastApplied

(* The writes of a process are applied and acknowledged in the order they  *)
(* were made, whatever is lost, revoked or interrupted.                    *)
WritesAreQueued == Queued!Spec
=============================================================================

------------------------------ MODULE WriteQueue ------------------------------
(***************************************************************************)
(* What the Realtime Database library promises about the writes of one     *)
(* process: they are numbered as they are made, wait in a queue, are       *)
(* applied by the server in that order, are acknowledged in that order and *)
(* are all sent again after a lost connection.  This is the queue the      *)
(* phones of module Ordering have; as the numbers order it, a set of them  *)
(* says what waits.                                                        *)
(***************************************************************************)
EXTENDS Naturals

CONSTANTS
  LastPut,       \* writes are numbered 1..LastPut
  Transactions   \* those that are given up when the connection is lost

VARIABLES
  made,      \* number of the last write
  outbox,    \* writes not yet acknowledged
  handled,   \* those that the server has applied in this connection
  givenUp,   \* writes that were cancelled; they may have been sent
  stored     \* the write the server applied last

vars == <<made, outbox, handled, givenUp, stored>>

Init == made = 0 /\ outbox = {} /\ handled = {} /\ givenUp = {} /\ stored = 0

Make ==
  /\ made < LastPut
  /\ made' = made + 1
  /\ outbox' = outbox \cup {made + 1}
  /\ UNCHANGED <<handled, givenUp, stored>>

Oldest(i, S) == i \in S /\ \A j \in S : i <= j

Apply ==
  \E i \in outbox :
    /\ Oldest(i, outbox \ handled)
    /\ stored' = i
    /\ handled' = handled \cup {i}
    /\ UNCHANGED <<made, outbox, givenUp>>

(* A write that was cancelled after it was sent.                           *)
ApplyGivenUp ==
  /\ stored' \in givenUp
  /\ UNCHANGED <<made, outbox, handled, givenUp>>

Acknowledge ==
  \E i \in handled :
    /\ Oldest(i, outbox)
    /\ outbox' = outbox \ {i}
    /\ handled' = handled \ {i}
    /\ UNCHANGED <<made, givenUp, stored>>

(* The connection is lost: what is not acknowledged will be sent again.    *)
Rewind ==
  \E S \in SUBSET (outbox \cap Transactions) :
    /\ outbox' = outbox \ S
    /\ givenUp' = givenUp \cup S
    /\ handled' = {}
    /\ UNCHANGED <<made, stored>>

Purge ==
  /\ givenUp' = givenUp \cup outbox
  /\ outbox' = {} /\ handled' = {}
  /\ UNCHANGED <<made, stored>>

Next == Make \/ Apply \/ ApplyGivenUp \/ Acknowledge \/ Rewind \/ Purge

Spec == Init /\ [][Next]_vars
=============================================================================

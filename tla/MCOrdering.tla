----------------------------- MODULE MCOrdering -----------------------------
(***************************************************************************)
(* Instances of Ordering for TLC.                                          *)
(***************************************************************************)
EXTENDS OrderRefinement, TLC

CONSTANTS p1, p2, r1, r2

(* Two restaurants with one product each. *)
TwoMenus == (p1 :> r1) @@ (p2 :> r2)

(* One restaurant with one product. *)
OneMenu == p1 :> r1

(* An account that has not ordered yet, and one with a basket left over. *)
NewAccount == {EmptyBasket}
LeftOver == {p1 :> 1}

Interchangeable == Permutations(Slots) \cup Permutations(Phones)
=============================================================================

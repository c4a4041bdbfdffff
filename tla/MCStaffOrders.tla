---------------------------- MODULE MCStaffOrders ----------------------------
(***************************************************************************)
(* An instance of StaffOrders for TLC.  Orders, restaurants, baskets and   *)
(* tablets are model values; no symmetry is used, because the run checks a *)
(* liveness property.                                                      *)
(***************************************************************************)
EXTENDS StaffOrders
=============================================================================

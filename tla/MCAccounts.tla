------------------------------ MODULE MCAccounts ------------------------------
(***************************************************************************)
(* Instances of Accounts for TLC.                                          *)
(***************************************************************************)
EXTENDS Accounts, TLC

Interchangeable == Permutations(Accounts) \cup Permutations(Screens)
=============================================================================

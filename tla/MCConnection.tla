----------------------------- MODULE MCConnection -----------------------------
(***************************************************************************)
(* Instance of Connection for TLC.                                         *)
(***************************************************************************)
EXTENDS ConnectionRefinement, TLC
=============================================================================

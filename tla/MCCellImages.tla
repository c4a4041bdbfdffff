---------------------------- MODULE MCCellImages ----------------------------
(***************************************************************************)
(* An instance of CellImages for TLC.  Cells and URLs are model values; no *)
(* symmetry is used, because the run checks a liveness property.           *)
(***************************************************************************)
EXTENDS CellImages
=============================================================================

---------------------------- MODULE MCGlobLedger ----------------------------
(***************************************************************************)
(* The instance of GlobLedger for TLC: a result for every kind of use, one *)
(* of them for all three at once.                                          *)
(***************************************************************************)
EXTENDS GlobLedger, TLC
=============================================================================

--------------------------- MODULE MCAllocLedger ---------------------------
(***************************************************************************)
(* The instance of AllocLedger for TLC.  Threads and blocks are            *)
(* interchangeable.                                                        *)
(***************************************************************************)
EXTENDS AllocLedger, TLC

Symmetry == Permutations(Threads) \cup Permutations(Blocks)
=============================================================================

---------------------------- MODULE MCDirLedger ----------------------------
(***************************************************************************)
(* Instances of DirLedger for TLC.  Threads, descriptors and pointers are  *)
(* interchangeable.                                                        *)
(***************************************************************************)
EXTENDS DirLedger, TLC

Symmetry ==
  Permutations(Threads) \cup Permutations(Fds) \cup Permutations(Pointers)
=============================================================================

----------------------------- MODULE MCTreeWalk -----------------------------
(***************************************************************************)
(* Instances of TreeWalk for TLC.  A callback may ask to stop with the     *)
(* very value, -1, by which the native walkers report failure; 2 stands    *)
(* for FTW_SKIP_SUBTREE.                                                   *)
(***************************************************************************)
EXTENDS TreeWalk, TLC

MinusOneOnly   == {-1}
MinusOneOrSkip == {-1, 2}
SkipSubtree    == {2}

Symmetry == Permutations(Callbacks)

SymmetryWithThreads == Permutations(Callbacks) \cup Permutations(Threads)
=============================================================================

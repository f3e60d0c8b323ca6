---------------------------- MODULE MCWalkCalls ----------------------------
(***************************************************************************)
(* The instance of WalkCalls for TLC, with a wrapper of each class that    *)
(* reads errno and one whose native function calls back.                   *)
(***************************************************************************)
EXTENDS WalkCalls, TLC

MinusOneOnly == {-1}

OnePerClass == {"scandir", "readdir", "renameat"}
=============================================================================

--------------------------- MODULE MCWrapperCall ---------------------------
(***************************************************************************)
(* The instance of WrapperCall for TLC: every wrapper, two codes so that a *)
(* stale one can be told from the right one, and calls nested through the  *)
(* callbacks of scandir and glob.                                          *)
(***************************************************************************)
EXTENDS WrapperCall, TLC
=============================================================================

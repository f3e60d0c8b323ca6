---------------------------- MODULE MCDirReading ----------------------------
(***************************************************************************)
(* The instance of DirReading for TLC: a careful and a careless loop that  *)
(* share errno and the error object.                                       *)
(***************************************************************************)
EXTENDS DirReading, TLC
=============================================================================

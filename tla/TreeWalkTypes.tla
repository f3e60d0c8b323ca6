--------------------------- MODULE TreeWalkTypes ---------------------------
(***************************************************************************)
(* The constants and the vocabulary that the contract of the tree walks    *)
(* (TreeWalkContract) and their implementation (TreeWalk) share.           *)
(***************************************************************************)
EXTENDS Integers, Sequences

CONSTANTS
  Threads,      \* threads of the application
  Callbacks,    \* functions an application passes as fn
  Codes,        \* errno values a failure can leave or a fault can inject
  EIO, EINVAL,  \* the two codes the wrappers name
  Results,      \* nonzero values a callback may return, -1 among them
  SkipResults,  \* those at which the native nftw goes on (FTW_SKIP_* under
                \* the FTW_ACTIONRETVAL flag); {} for the portable contract
  Unwinds,      \* TRUE: a callback may leave its walks by longjmp
  MaxDepth,     \* bound: walks nested in one thread
  None          \* no callback, no context, no error

ASSUME WalkAssumption ==
  /\ EIO \in Codes /\ EINVAL \in Codes
  /\ 0 \notin Codes /\ None \notin Codes
  /\ None \notin Callbacks
  /\ None \notin Threads \X Nat
  /\ Results \subseteq Int /\ 0 \notin Results
  /\ SkipResults \subseteq Results
  /\ Unwinds \in BOOLEAN
  /\ MaxDepth \in Nat \ {0}

Families == {"ftw", "nftw"}
Ended    == {"done", "stopped", "failed"}
Phases   == {"walking", "callback"} \cup Ended

Outcome == [ret : Results \cup {-1, 0}, raised : Codes \cup {None},
            reason : Ended \cup {"none", "fault", "args"}]

NoOutcome == [ret |-> 0, raised |-> None, reason |-> "none"]

Outermost(s) == s = << >>

(* The walk in progress that the thread is executing in.                   *)
Innermost(s) == s[Len(s)]

(* Application code runs: outside every walk, or inside a callback.        *)
InApplication(s) == ~ Outermost(s) => Innermost(s).phase = "callback"

SetInnermost(s, w) == [s EXCEPT ![Len(s)] = w]

(* The native walker goes on after 0, and nftw after a skip request.       *)
GoesOn(f, r) == r = 0 \/ (f = "nftw" /\ r \in SkipResults)
=============================================================================

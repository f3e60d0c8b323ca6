-------------------------- MODULE TreeWalkContract --------------------------
(***************************************************************************)
(* What p101_ftw and p101_nftw promise a caller, with no mention of how    *)
(* the callback is found again inside the C library's walker.              *)
(*                                                                         *)
(* Each thread holds a stack of walks in progress, the outermost first: a  *)
(* callback may itself start a walk.  An entry that a walk reports is      *)
(* delivered to the callback THAT walk was called with.  A walk ends       *)
(* because the tree is exhausted, because its own callback asked it to     *)
(* stop, or because the native walker failed.  The caller finds an error   *)
(* raised for a refused call, and for the -1 of a walk whose own callback  *)
(* never answered nonzero.  (So a native failure after the callback has    *)
(* asked to skip is NOT raised: only SkipResults = {} makes the two sides  *)
(* of the distinction exact.)                                              *)
(***************************************************************************)
EXTENDS TreeWalkTypes

VARIABLES
  walks,  \* walks[t]: the walks of thread t in progress
  errno,  \* errno[t]: the thread's errno
  last    \* last[t]: how the thread's latest call ended, as its caller sees
          \* it (ret, raised) and why (reason, a history component)

contractVars == <<walks, errno, last>>

Walk == [family : Families, callback : Callbacks, phase : Phases,
         running : Callbacks \cup {None}, stopped : BOOLEAN,
         ret : Results \cup {-1, 0}]

-----------------------------------------------------------------------------
Init ==
  /\ walks = [t \in Threads |-> << >>]
  /\ errno \in [Threads -> Codes \cup {0}]
  /\ last  = [t \in Threads |-> NoOutcome]

(* A call that is refused before any walk starts: an injected fault or     *)
(* invalid arguments.  Nothing but the outcome changes.                    *)
Refuse(t) ==
  /\ InApplication(walks[t])
  /\ \E code \in Codes, reason \in {"fault", "args"} :
       last' = [last EXCEPT ![t] = [ret |-> -1, raised |-> code, reason |-> reason]]
  /\ UNCHANGED <<walks, errno>>

Begin(t, f, cb) ==
  /\ InApplication(walks[t])
  /\ Len(walks[t]) < MaxDepth
  /\ walks' = [walks EXCEPT ![t] = Append(@,
                 [family |-> f, callback |-> cb, phase |-> "walking",
                  running |-> None, stopped |-> FALSE, ret |-> 0])]
  /\ errno' = [errno EXCEPT ![t] = 0]
  /\ UNCHANGED last

(* An entry goes to the callback of the walk that found it.                *)
Deliver(t) ==
  /\ ~ Outermost(walks[t])
  /\ Innermost(walks[t]).phase = "walking"
  /\ walks' = [walks EXCEPT ![t] = SetInnermost(@,
                 [Innermost(@) EXCEPT !.phase = "callback",
                                      !.running = Innermost(walks[t]).callback])]
  /\ UNCHANGED <<errno, last>>

(* The callback's verdict is charged to the walk that called it.           *)
Answer(t, r) ==
  /\ ~ Outermost(walks[t])
  /\ Innermost(walks[t]).phase = "callback"
  /\ LET w == Innermost(walks[t])
         on == GoesOn(w.family, r)
     IN walks' = [walks EXCEPT ![t] = SetInnermost(@,
                    [w EXCEPT !.phase = IF on THEN "walking" ELSE "stopped",
                              !.running = None,
                              !.stopped = w.stopped \/ r # 0,
                              !.ret = IF on THEN 0 ELSE r])]
  /\ UNCHANGED <<errno, last>>

(* The native walker exhausts the tree, or fails.  Either way it may leave *)
(* a code in errno or keep what the callbacks left there.                  *)
Finish(t) ==
  /\ ~ Outermost(walks[t])
  /\ Innermost(walks[t]).phase = "walking"
  /\ \/ walks' = [walks EXCEPT ![t] = SetInnermost(@,
                    [Innermost(@) EXCEPT !.phase = "done", !.ret = 0])]
     \/ walks' = [walks EXCEPT ![t] = SetInnermost(@,
                    [Innermost(@) EXCEPT !.phase = "failed", !.ret = -1])]
  /\ \E code \in Codes \cup {errno[t]} : errno' = [errno EXCEPT ![t] = code]
  /\ UNCHANGED last

(* The caller gets the walk's result.  An error is raised exactly for a -1 *)
(* that is not the answer of the walk's own callback, and it always        *)
(* carries a real code: errno's, when errno was set.                       *)
Conclude(t) ==
  /\ ~ Outermost(walks[t])
  /\ LET w == Innermost(walks[t])
     IN /\ w.phase \in Ended
        /\ \E raised \in Codes \cup {None} :
             /\ raised # None <=> (w.ret = -1 /\ ~ w.stopped)
             /\ raised # None /\ errno[t] # 0 => raised = errno[t]
             /\ last' = [last EXCEPT ![t] =
                           [ret |-> w.ret, raised |-> raised, reason |-> w.phase]]
  /\ walks' = [walks EXCEPT ![t] = SubSeq(@, 1, Len(@) - 1)]
  /\ UNCHANGED errno

(* A callback leaves by longjmp: the innermost walks vanish.               *)
Abandon(t) ==
  /\ Unwinds
  /\ InApplication(walks[t])
  /\ \E d \in 0 .. Len(walks[t]) - 1 :
       walks' = [walks EXCEPT ![t] = SubSeq(@, 1, d)]
  /\ UNCHANGED <<errno, last>>

(* Application code may leave anything in errno.                           *)
SetErrno(t) ==
  /\ InApplication(walks[t])
  /\ \E code \in Codes \cup {0} : errno' = [errno EXCEPT ![t] = code]
  /\ UNCHANGED <<walks, last>>

Next ==
  \E t \in Threads :
    \/ Refuse(t)
    \/ \E f \in Families, cb \in Callbacks : Begin(t, f, cb)
    \/ Deliver(t)
    \/ \E r \in Results \cup {0} : Answer(t, r)
    \/ Finish(t)
    \/ Conclude(t)
    \/ Abandon(t)
    \/ SetErrno(t)

Spec == Init /\ [][Next]_contractVars
=============================================================================

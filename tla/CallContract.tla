---------------------------- MODULE CallContract ----------------------------
(***************************************************************************)
(* What a wrapper promises its caller, with no mention of errno: a call is *)
(* either refused by the injector before the native function runs, or its  *)
(* error is the native function's failure, with its reason, and no other.  *)
(***************************************************************************)
EXTENDS WrapperOps

VARIABLES
  calls,   \* the calls in progress, the outermost first
  outcome  \* how the latest call ended: what it raised, and why

contractVars == <<calls, outcome>>

InApplication ==
  calls # << >> => /\ Innermost(calls).op \in CallsBack
                   /\ Innermost(calls).phase = "native"

Change(c) == calls' = [calls EXCEPT ![Len(calls)] = c]

End(raised, cause, reason) ==
  /\ calls' = Pop(calls)
  /\ outcome' = [raised |-> raised, cause |-> cause, reason |-> reason]

-----------------------------------------------------------------------------
Init ==
  /\ calls = << >>
  /\ outcome = [raised |-> None, cause |-> "ok", reason |-> None]

Begin(op) ==
  /\ InApplication
  /\ Len(calls) < MaxDepth
  /\ calls' = Append(calls, [op |-> op, phase |-> "begun",
                             meant |-> "ok", reason |-> None])
  /\ UNCHANGED outcome

Refuse ==
  /\ calls # << >>
  /\ Innermost(calls).phase = "begun"
  /\ Innermost(calls).op \notin Infallible
  /\ \E code \in Codes : End(code, "injected", code)

GoNative ==
  /\ calls # << >>
  /\ Innermost(calls).phase = "begun"
  /\ Change([Innermost(calls) EXCEPT !.phase = "native"])
  /\ UNCHANGED outcome

(* The native function gives a reason for a failure; renameat need not.    *)
Answer ==
  /\ calls # << >>
  /\ Innermost(calls).phase = "native"
  /\ \E meant \in CanMean(Innermost(calls).op) :
     \E reason \in Codes \cup {None} :
       /\ meant = "fail" => reason # None \/ Innermost(calls).op \in Defaulted
       /\ meant # "fail" => reason = None
       /\ Change([Innermost(calls) EXCEPT !.phase = "answered",
                                          !.meant = meant, !.reason = reason])
  /\ UNCHANGED outcome

Conclude ==
  /\ calls # << >>
  /\ Innermost(calls).phase = "answered"
  /\ LET c == Innermost(calls)
     IN \E raised \in Codes \cup {None} :
          /\ raised # None <=> c.meant = "fail"
          /\ c.reason # None => raised = c.reason
          /\ End(raised, c.meant, c.reason)

Next ==
  \/ \E op \in Ops : Begin(op)
  \/ Refuse
  \/ GoNative
  \/ Answer
  \/ Conclude

Spec == Init /\ [][Next]_contractVars
=============================================================================

---------------------------- MODULE WrapperCall ----------------------------
(***************************************************************************)
(* The sequence of steps every wrapper but the tree walks consists of:     *)
(* ask the injector, set errno to 0, make the native call, decide from its *)
(* value and from errno whether it failed, raise.                          *)
(*                                                                         *)
(* errno is the only channel by which most native functions explain a      *)
(* failure, and it is shared: application code, the observers of p101_env, *)
(* earlier calls and, inside scandir and glob, nested calls all leave      *)
(* values there.  One thread is modelled: errno belongs to a thread and    *)
(* these wrappers share nothing else.                                      *)
(***************************************************************************)
EXTENDS WrapperOps

VARIABLES
  calls,   \* the wrappers being executed, the outermost first
  errno,
  outcome  \* how the latest call ended: what it raised, and (history) the
           \* cause and the native function's reason

vars == <<calls, errno, outcome>>

Phases == {"entered", "native", "answered"}

Values == {"good", "bad", "nomatch"} \cup Codes

Call == [op : Ops, phase : Phases, value : Values,
         meant : Meanings,             \* history: what the value stands for
         reason : Codes \cup {None}]   \* history: why the native call failed

Change(c) == calls' = [calls EXCEPT ![Len(calls)] = c]

(* Application code runs: outside all wrappers or in a callback.           *)
InApplication ==
  calls # << >> => /\ Innermost(calls).op \in CallsBack
                   /\ Innermost(calls).phase = "native"

In(phase) == calls # << >> /\ Innermost(calls).phase = phase

End(raised, cause, reason) ==
  /\ calls' = Pop(calls)
  /\ outcome' = [raised |-> raised, cause |-> cause, reason |-> reason]

-----------------------------------------------------------------------------
Init ==
  /\ calls = << >>
  /\ errno \in Codes \cup {0}
  /\ outcome = [raised |-> None, cause |-> "ok", reason |-> None]

Enter(op) ==
  /\ InApplication
  /\ Len(calls) < MaxDepth
  /\ calls' = Append(calls, [op |-> op, phase |-> "entered", value |-> "good",
                             meant |-> "ok", reason |-> None])
  /\ UNCHANGED <<errno, outcome>>

(* Application code, and the observers a wrapper notifies on entry, may    *)
(* leave anything in errno.                                                *)
Clobber ==
  /\ InApplication \/ In("entered")
  /\ errno' \in Codes \cup {0}
  /\ UNCHANGED <<calls, outcome>>

(* Definitions named Bug_... are plausible slips, none of them in the code *)
(* and none of them used by Spec: each is substituted for the definition   *)
(* it precedes, to see that a property notices (PROJECT.json, mutants).    *)

Bug_AskLate ==
  /\ In("native")
  /\ Innermost(calls).op \notin Infallible
  /\ \E code \in Codes : End(code, "injected", code)
  /\ UNCHANGED errno

(* The injector answers with a code: raised, and nothing else is done.     *)
Fault ==
  /\ In("entered")
  /\ Innermost(calls).op \notin Infallible
  /\ \E code \in Codes : End(code, "injected", code)
  /\ UNCHANGED errno

Bug_NoReset ==
  /\ In("entered")
  /\ Change([Innermost(calls) EXCEPT !.phase = "native"])
  /\ UNCHANGED <<errno, outcome>>

(* errno = 0, and into the native function.                                *)
ResetErrno ==
  /\ In("entered")
  /\ errno' = 0
  /\ Change([Innermost(calls) EXCEPT !.phase = "native"])
  /\ UNCHANGED outcome

Answered(value, meant, reason) ==
  Change([Innermost(calls) EXCEPT !.phase = "answered", !.value = value,
                                  !.meant = meant, !.reason = reason])

(* Success: errno means nothing, and may have been changed.                *)
NativeSucceeds ==
  /\ In("native")
  /\ Answered("good", "ok", None)
  /\ errno' \in {errno} \cup Codes
  /\ UNCHANGED outcome

(* Failure: a bad value with errno set, or a code as value and errno free  *)
(* to be anything; renameat may leave errno alone.                         *)
NativeFails ==
  /\ In("native")
  /\ LET op == Innermost(calls).op
     IN \/ /\ op \in Strict \cup Ambiguous \cup Defaulted
           /\ \E code \in Codes : Answered("bad", "fail", code) /\ errno' = code
        \/ /\ op \in Defaulted
           /\ Answered("bad", "fail", None)
           /\ UNCHANGED errno
        \/ /\ op \in Coded
           /\ \E code \in Codes : Answered(code, "fail", code)
           /\ errno' \in {errno} \cup Codes
  /\ UNCHANGED outcome

(* No more entries, no limit (or a failure without a reason): the same bad *)
(* value, errno as it was.  No match: the code that is not a failure.      *)
NativeHasNothing ==
  /\ In("native")
  /\ LET op == Innermost(calls).op
     IN \/ op \in Ambiguous /\ Answered("bad", "nothing", None) /\ UNCHANGED errno
        \/ /\ op \in Coded
           /\ Answered("nomatch", "nothing", None)
           /\ errno' \in {errno} \cup Codes
  /\ UNCHANGED outcome

(* What each class of wrapper raises, given the value and errno.           *)
StrictCode(value, code) == IF value = "bad" THEN code ELSE None

AmbiguousCode(value, code) == IF value = "bad" /\ code # 0 THEN code ELSE None

Bug_NoDefault(value, code) == StrictCode(value, code)

DefaultedCode(value, code) ==
  StrictCode(value, IF code = 0 THEN EIO ELSE code)

Bug_NomatchIsAnError(value) ==
  IF value = "nomatch" THEN EIO ELSE IF value = "good" THEN None ELSE value

SystemCode(value) == IF value \in {"good", "nomatch"} THEN None ELSE value

Raised(op, value, code) ==
  CASE op \in Strict     -> StrictCode(value, code)
    [] op \in Ambiguous  -> AmbiguousCode(value, code)
    [] op \in Defaulted  -> DefaultedCode(value, code)
    [] op \in Coded      -> SystemCode(value)
    [] op \in Infallible -> None

Return ==
  /\ In("answered")
  /\ LET c == Innermost(calls)
     IN End(Raised(c.op, c.value, errno), c.meant, c.reason)
  /\ UNCHANGED errno

Next ==
  \/ \E op \in Ops : Enter(op)
  \/ Clobber
  \/ Fault
  \/ ResetErrno
  \/ NativeSucceeds
  \/ NativeFails
  \/ NativeHasNothing
  \/ Return

Spec == Init /\ [][Next]_vars

-----------------------------------------------------------------------------
(* Every variable has its type; no wrapper raises the code 0.              *)
TypeOK ==
  /\ calls \in Seq(Call)
  /\ errno \in Codes \cup {0}
  /\ outcome \in [raised : Codes \cup {None},
                  cause : Meanings \cup {"injected"},
                  reason : Codes \cup {None}]

(* An error is raised exactly for an injected fault or for a native        *)
(* failure that gives a reason (renameat's need not), and carries that     *)
(* reason, whatever earlier calls, observers, callbacks and the calls      *)
(* nested in them have left in errno.                                      *)
NothingStale ==
  /\ outcome.raised # None <=> outcome.cause \in {"fail", "injected"}
  /\ outcome.reason # None => outcome.raised = outcome.reason

-----------------------------------------------------------------------------
Abstract(c) ==
  [op |-> c.op, meant |-> c.meant, reason |-> c.reason,
   phase |-> IF c.phase = "entered" THEN "begun" ELSE c.phase]

Contract == INSTANCE CallContract
              WITH calls <- [i \in DOMAIN calls |-> Abstract(calls[i])]

(* The wrappers implement the contract, in which there is no errno to be   *)
(* stale, shared or clobbered, and in which a call is refused before its   *)
(* native function is entered or not at all.                               *)
ContractSpec == Contract!Spec
=============================================================================

------------------------------ MODULE TreeWalk ------------------------------
(***************************************************************************)
(* p101_ftw and p101_nftw (src/src/ftw.c).                                 *)
(*                                                                         *)
(* The native walkers take a plain function pointer and no user data, so   *)
(* each wrapper keeps the caller's callback in a local structure (a frame  *)
(* below), publishes its address in a thread-local pointer, one for each   *)
(* family of walk, and hands the native walker a dispatcher that reads the *)
(* pointer back.  Callbacks may start walks of either family; the wrapper  *)
(* saves the enclosing pointer and restores it when its walk ends.         *)
(*                                                                         *)
(* An address is <<t, d>>: the structure in the d-th walk of thread t's    *)
(* stack.  It dangles when that walk is over, and may come to life again   *)
(* as the structure of a later walk.                                       *)
(***************************************************************************)
EXTENDS TreeWalkTypes

VARIABLES
  frames,  \* frames[t]: the walks of thread t in progress, outermost first
  active,  \* active[s][f]: the published pointer of family f in slot s
  errno,   \* errno[t]
  last     \* last[t]: the outcome of the thread's latest call (see the
           \* contract; reason is a history component)

vars == <<frames, active, errno, last>>

Address == (Threads \X Nat) \cup {None}

Frame == [family : Families, callback : Callbacks, stopped : BOOLEAN,
          previous : Address,   \* the pointer the wrapper saved
          phase : Phases,       \* where the native walker is
          context : Address,    \* the dispatcher's local variable
          running : Callbacks \cup {None},  \* the application code it called
          ret : Results \cup {-1, 0}]

-----------------------------------------------------------------------------
(* Definitions named Bug_... are plausible slips of the code, none of them *)
(* in the code and none of them used by Spec: each is substituted for the  *)
(* definition it precedes, to see that a property notices (PROJECT.json,   *)
(* mutants).                                                               *)

Bug_SharedSlot(t) == CHOOSE u \in Threads : TRUE

(* The pointers are _Thread_local: thread t reads and writes slot t.       *)
Slot(t) == t

Active(t, f) == active[Slot(t)][f]

Publish(t, f, a) == active' = [active EXCEPT ![Slot(t)][f] = a]

Top(t) == Innermost(frames[t])

SetTop(t, w) == frames' = [frames EXCEPT ![t] = SetInnermost(@, w)]

Here(t) == <<t, Len(frames[t])>>

(* The address holds the structure of a walk of family f.                  *)
Live(a, f) == /\ a # None
              /\ a[2] \in DOMAIN frames[a[1]]
              /\ frames[a[1]][a[2]].family = f

(* What reading a->callback may yield: anything, through a bad pointer.    *)
Fetch(a, f) == IF Live(a, f) THEN {frames[a[1]][a[2]].callback} ELSE Callbacks

-----------------------------------------------------------------------------
Init ==
  /\ frames = [t \in Threads |-> << >>]
  /\ active = [t \in Threads |-> [f \in Families |-> None]]
  /\ errno \in [Threads -> Codes \cup {0}]
  /\ last   = [t \in Threads |-> NoOutcome]

Fail(t, code, reason) ==
  last' = [last EXCEPT ![t] = [ret |-> -1, raised |-> code, reason |-> reason]]

(* The injector answers the wrapper's one question with a code.            *)
InjectedFault(t) ==
  /\ InApplication(frames[t])
  /\ \E code \in Codes : Fail(t, code, "fault")
  /\ UNCHANGED <<frames, active, errno>>

Bug_PublishBeforeCheck(t) ==
  /\ InApplication(frames[t])
  /\ Fail(t, EINVAL, "args")
  /\ Publish(t, "ftw", <<t, Len(frames[t]) + 1>>)
  /\ UNCHANGED <<frames, errno>>

(* No path, no callback, or a descriptor limit below 1.                    *)
InvalidArguments(t) ==
  /\ InApplication(frames[t])
  /\ Fail(t, EINVAL, "args")
  /\ UNCHANGED <<frames, active, errno>>

(* From filling the local structure to entering the native walker.         *)
StartWalk(t, f, cb) ==
  /\ InApplication(frames[t])
  /\ Len(frames[t]) < MaxDepth
  /\ frames' = [frames EXCEPT ![t] = Append(@,
                  [family |-> f, callback |-> cb, stopped |-> FALSE,
                   previous |-> Active(t, f), phase |-> "walking",
                   context |-> None, running |-> None, ret |-> 0])]
  /\ Publish(t, f, <<t, Len(frames[t]) + 1>>)
  /\ errno' = [errno EXCEPT ![t] = 0]
  /\ UNCHANGED last

StartFtw(t, cb)  == StartWalk(t, "ftw", cb)
StartNftw(t, cb) == StartWalk(t, "nftw", cb)

Walking(t, f) ==
  ~ Outermost(frames[t]) /\ Top(t).phase = "walking" /\ Top(t).family = f

(* The dispatcher loads the pointer and calls what it finds there.         *)
Dispatch(t, f) ==
  /\ Walking(t, f)
  /\ \E cb \in Fetch(Active(t, f), f) :
       SetTop(t, [Top(t) EXCEPT !.phase = "callback",
                                !.context = Active(t, f),
                                !.running = cb])
  /\ UNCHANGED <<active, errno, last>>

CallFtwCallback(t)  == Dispatch(t, "ftw")
CallNftwCallback(t) == Dispatch(t, "nftw")

Bug_MarkAlways(t, r) ==
  LET w == Top(t)
  IN IF Live(w.context, w.family)
     THEN [frames EXCEPT ![w.context[1]][w.context[2]].stopped = TRUE]
     ELSE frames

(* The dispatcher's store context->stopped = 1, with the context it loaded *)
(* before the call.  Through a bad pointer it changes nothing we model.    *)
MarkStopped(t, r) ==
  LET w == Top(t)
  IN IF r # 0 /\ Live(w.context, w.family)
     THEN [frames EXCEPT ![w.context[1]][w.context[2]].stopped = TRUE]
     ELSE frames

(* The application's callback answers r, and the native walker goes on or  *)
(* returns r.                                                              *)
CallbackReturns(t, r) ==
  /\ ~ Outermost(frames[t])
  /\ Top(t).phase = "callback"
  /\ LET on == GoesOn(Top(t).family, r)
     IN frames' = [MarkStopped(t, r) EXCEPT ![t] = SetInnermost(@,
                     [Innermost(@) EXCEPT !.phase = IF on THEN "walking" ELSE "stopped",
                                          !.context = None,
                                          !.running = None,
                                          !.ret = IF on THEN 0 ELSE r])]
  /\ UNCHANGED <<active, errno, last>>

(* The native walker has seen the whole tree, or fails.  It need not say   *)
(* why: errno may keep what the callbacks left in it.                      *)
NativeEnds(t) ==
  /\ ~ Outermost(frames[t])
  /\ Top(t).phase = "walking"
  /\ \/ SetTop(t, [Top(t) EXCEPT !.phase = "done", !.ret = 0])
     \/ SetTop(t, [Top(t) EXCEPT !.phase = "failed", !.ret = -1])
  /\ \E code \in Codes \cup {errno[t]} : errno' = [errno EXCEPT ![t] = code]
  /\ UNCHANGED <<active, last>>

Bug_NoFallback(saved) == saved

(* saved_errno, or EIO when the walker did not set it.                     *)
ErrorCode(saved) == IF saved = 0 THEN EIO ELSE saved

Bug_AnyMinusOne(w, saved) ==
  IF w.ret = -1 THEN ErrorCode(saved) ELSE None

Raised(w, saved) ==
  IF w.ret = -1 /\ ~ w.stopped THEN ErrorCode(saved) ELSE None

Bug_RestoreNull(w) == None

(* What the published pointer becomes at the end of walk w.                *)
Restored(w) == w.previous

(* From the native walker's return to the wrapper's.                       *)
EndWalk(t, f) ==
  /\ ~ Outermost(frames[t])
  /\ Top(t).phase \in Ended
  /\ Top(t).family = f
  /\ Publish(t, f, Restored(Top(t)))
  /\ last' = [last EXCEPT ![t] = [ret |-> Top(t).ret,
                                  raised |-> Raised(Top(t), errno[t]),
                                  reason |-> Top(t).phase]]
  /\ frames' = [frames EXCEPT ![t] = SubSeq(@, 1, Len(@) - 1)]
  /\ UNCHANGED errno

ReturnFtw(t)  == EndWalk(t, "ftw")
ReturnNftw(t) == EndWalk(t, "nftw")

(* A callback leaves walks d+1, d+2, ... by longjmp: no wrapper runs, the  *)
(* pointers stay.  A family of which walks remain keeps all of them: the   *)
(* code cannot survive the other case, and nothing here says it could.     *)
FamiliesIn(s, from, to) == {s[i].family : i \in from .. to}

LongJump(t) ==
  /\ Unwinds
  /\ InApplication(frames[t])
  /\ \E d \in 0 .. Len(frames[t]) - 1 :
       /\ FamiliesIn(frames[t], 1, d) \cap
            FamiliesIn(frames[t], d + 1, Len(frames[t])) = {}
       /\ frames' = [frames EXCEPT ![t] = SubSeq(@, 1, d)]
  /\ UNCHANGED <<active, errno, last>>

SetErrno(t) ==
  /\ InApplication(frames[t])
  /\ \E code \in Codes \cup {0} : errno' = [errno EXCEPT ![t] = code]
  /\ UNCHANGED <<frames, active, last>>

Next ==
  \E t \in Threads :
    \/ InjectedFault(t)
    \/ InvalidArguments(t)
    \/ \E cb \in Callbacks : StartFtw(t, cb)
    \/ \E cb \in Callbacks : StartNftw(t, cb)
    \/ CallFtwCallback(t)
    \/ CallNftwCallback(t)
    \/ \E r \in Results \cup {0} : CallbackReturns(t, r)
    \/ NativeEnds(t)
    \/ ReturnFtw(t)
    \/ ReturnNftw(t)
    \/ LongJump(t)
    \/ SetErrno(t)

Spec == Init /\ [][Next]_vars

-----------------------------------------------------------------------------
(* Every variable has its type; in particular no raised code is 0, though  *)
(* the walker may fail without setting errno (ftw.c:96 and 132).           *)
TypeOK ==
  /\ frames \in [Threads -> Seq(Frame)]
  /\ active \in [Threads -> [Families -> Address]]
  /\ errno \in [Threads -> Codes \cup {0}]
  /\ last \in [Threads -> Outcome]

(* A callback that runs was called for the walk its caller started, with   *)
(* its caller's function, and the dispatcher will charge the answer to     *)
(* that walk: whatever walks ran, nested or on other threads, in between   *)
(* (ftw.c:42-46 and 57-61).                                                *)
DispatchToOwner ==
  \A t \in Threads : \A i \in DOMAIN frames[t] :
    frames[t][i].phase = "callback" =>
      /\ frames[t][i].context = <<t, i>>
      /\ frames[t][i].running = frames[t][i].callback

(* Walk i of thread t is the innermost of its family below depth n.        *)
TopOfFamily(t, i, n) ==
  /\ i \in 1 .. n
  /\ \A j \in i + 1 .. n : frames[t][j].family # frames[t][i].family

(* The published pointer is the innermost walk of its family, and each     *)
(* walk has saved the next one out: ending the walks one by one always     *)
(* finds the right pointer again (ftw.c:86-88, 92, 122-124, 128).          *)
PointersChained ==
  \A t \in Threads :
    /\ \A i \in DOMAIN frames[t] :
         TopOfFamily(t, i, Len(frames[t])) =>
           Active(t, frames[t][i].family) = <<t, i>>
    /\ \A i, k \in DOMAIN frames[t] :
         TopOfFamily(t, i, k - 1) /\ frames[t][i].family = frames[t][k].family
           => frames[t][k].previous = <<t, i>>

(* When no callback leaves by longjmp, a thread outside every walk of a    *)
(* family has a null pointer: the pointer to a dead stack structure never  *)
(* outlives the call (ftw.c:92 and 128).                                   *)
NothingDangles ==
  ~ Unwinds =>
    \A t \in Threads : \A f \in Families :
      Active(t, f) # None => Live(Active(t, f), f)

(* A walk that its own callback ended, even with -1, and a walk that saw   *)
(* the whole tree raise no error (ftw.c:94 and 130).                       *)
NoSpuriousError ==
  \A t \in Threads : last[t].reason \in {"done", "stopped"} => last[t].raised = None

(* A native failure is always reported, as -1 with an error, for a         *)
(* portable walk (no FTW_ACTIONRETVAL): the callback answers of nested     *)
(* walks cannot pass for this walk's (ftw.c:94 and 130).                   *)
NativeFailureReported ==
  SkipResults = {} =>
    \A t \in Threads : last[t].reason = "failed" =>
                         last[t].ret = -1 /\ last[t].raised \in Codes

(* The inductive invariant of the walks, with the facts about frames that  *)
(* the properties above do not say: code runs only in the innermost walk,  *)
(* and a walk's phase agrees with its flag and its result (ftw.c:42-49).   *)
EnclosingInCallback ==
  \A t \in Threads : \A i \in DOMAIN frames[t] :
    i < Len(frames[t]) => frames[t][i].phase = "callback"

VerdictsAgree ==
  \A t \in Threads : \A i \in DOMAIN frames[t] :
    LET w == frames[t][i]
    IN /\ w.phase = "done" => w.ret = 0
       /\ w.phase = "failed" => w.ret = -1
       /\ w.phase = "stopped" => w.stopped
       /\ w.stopped /\ SkipResults = {} => w.phase = "stopped"

WalkInv ==
  /\ TypeOK
  /\ DispatchToOwner
  /\ PointersChained
  /\ EnclosingInCallback
  /\ VerdictsAgree
  /\ NoSpuriousError
  /\ NativeFailureReported

-----------------------------------------------------------------------------
(* The implementation of the contract: forget the pointers.                *)
Walks(s) ==
  [i \in DOMAIN s |->
     [family |-> s[i].family, callback |-> s[i].callback, phase |-> s[i].phase,
      running |-> s[i].running, stopped |-> s[i].stopped, ret |-> s[i].ret]]

Contract == INSTANCE TreeWalkContract
              WITH walks <- [t \in Threads |-> Walks(frames[t])]

(* Seen by the callers and the callbacks, the wrappers are indistinguish-  *)
(* able from walks that are given their callback directly (ftw.c:37-136).  *)
ContractSpec == Contract!Spec
=============================================================================

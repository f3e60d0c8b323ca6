----------------------------- MODULE WalkCalls -----------------------------
(***************************************************************************)
(* Tree walks and the other wrappers in one thread.  A walk's callback     *)
(* calls wrappers; the callbacks of scandir and glob may start walks, in   *)
(* which wrappers are called again.  The two meet in errno: every wrapper  *)
(* resets it, native functions and callbacks set it, and both kinds of     *)
(* wrapper read it afterwards to say what went wrong.                      *)
(*                                                                         *)
(* TreeWalk leaves open what its application does to errno, WrapperCall    *)
(* what application code does between and inside calls.  Here each is the  *)
(* other's application.                                                    *)
(***************************************************************************)
EXTENDS Integers, Sequences, FiniteSets

CONSTANTS
  Self,      \* the thread
  Callbacks, Codes, EIO, EINVAL, Results,  \* as in TreeWalkTypes
  MaxWalks,  \* bound: walks in progress
  MaxCalls,  \* bound: calls in progress
  CallOps,   \* the wrappers the application calls
  None

VARIABLES
  frames, active, last,  \* the walks, as in TreeWalk
  calls, outcome,        \* the calls, as in WrapperCall
  errno,                 \* the thread's errno
  stack                  \* what is in progress, the innermost last: "walk"
                         \* for each of frames, "call" for each of calls

vars == <<frames, active, last, calls, outcome, errno, stack>>

walks == <<frames, active, last>>

Walk == INSTANCE TreeWalk
          WITH Threads <- {Self}, MaxDepth <- MaxWalks,
               SkipResults <- {}, Unwinds <- FALSE

Call == INSTANCE WrapperCall
          WITH MaxDepth <- MaxCalls, errno <- errno[Self]

ASSUME WalkCallsAssumption ==
  /\ CallOps \subseteq Call!Ops
  /\ EIO \in Codes /\ EINVAL \in Codes
  /\ 0 \notin Codes /\ None \notin Codes \cup {0}
  /\ {"good", "bad", "nomatch"} \cap (Codes \cup {None}) = {}
  /\ None \notin Callbacks /\ None \notin {Self} \X Nat
  /\ Results \subseteq Int /\ 0 \notin Results
  /\ MaxWalks \in Nat \ {0} /\ MaxCalls \in Nat \ {0}

Inside(kind) == stack # << >> /\ stack[Len(stack)] = kind

(* Application code runs: outside everything, in a walk's callback, or in  *)
(* a callback of scandir or glob.                                          *)
InApplication ==
  /\ Inside("walk") => Walk!InApplication(frames[Self])
  /\ Inside("call") => Call!InApplication

Enter(kind) == stack' = Append(stack, kind)
Leave       == stack' = SubSeq(stack, 1, Len(stack) - 1)

-----------------------------------------------------------------------------
Init ==
  /\ Walk!Init
  /\ Call!Init
  /\ stack = << >>

StartWalk ==
  /\ InApplication
  /\ \E cb \in Callbacks : Walk!StartFtw(Self, cb) \/ Walk!StartNftw(Self, cb)
  /\ Enter("walk")
  /\ UNCHANGED <<calls, outcome>>

RefuseWalk ==
  /\ InApplication
  /\ Walk!InjectedFault(Self) \/ Walk!InvalidArguments(Self)
  /\ UNCHANGED <<calls, outcome, stack>>

(* A walk proceeds when it is the innermost thing in progress.             *)
WalkStep ==
  /\ Inside("walk")
  /\ \/ Walk!CallFtwCallback(Self) \/ Walk!CallNftwCallback(Self)
     \/ \E r \in Results \cup {0} : Walk!CallbackReturns(Self, r)
     \/ Walk!NativeEnds(Self)
  /\ UNCHANGED <<calls, outcome, stack>>

EndWalk ==
  /\ Inside("walk")
  /\ Walk!ReturnFtw(Self) \/ Walk!ReturnNftw(Self)
  /\ Leave
  /\ UNCHANGED <<calls, outcome>>

(* Of errno, WrapperCall knows the value for its thread.                   *)
SomeErrno == \E code \in Codes \cup {0} : errno' = [errno EXCEPT ![Self] = code]

StartCall ==
  /\ InApplication
  /\ UNCHANGED errno
  /\ \E op \in CallOps : Call!Enter(op)
  /\ Enter("call")
  /\ UNCHANGED walks

CallStep ==
  /\ Inside("call")
  /\ SomeErrno
  /\ \/ Call!ResetErrno
     \/ Call!NativeSucceeds \/ Call!NativeFails \/ Call!NativeHasNothing
  /\ UNCHANGED <<walks, stack>>

EndCall ==
  /\ Inside("call")
  /\ SomeErrno
  /\ Call!Fault \/ Call!Return
  /\ Leave
  /\ UNCHANGED walks

(* Application code, and the observers a wrapper notifies on entry.        *)
Clobber ==
  /\ InApplication \/ (Inside("call") /\ Call!In("entered"))
  /\ SomeErrno
  /\ UNCHANGED <<walks, calls, outcome, stack>>

Next ==
  \/ StartWalk \/ RefuseWalk \/ WalkStep \/ EndWalk
  \/ StartCall \/ CallStep \/ EndCall
  \/ Clobber

Spec == Init /\ [][Next]_vars

-----------------------------------------------------------------------------
(* The stack is the interleaving of the two.                               *)
Height(kind) == Cardinality({i \in DOMAIN stack : stack[i] = kind})

TypeOK ==
  /\ Walk!TypeOK
  /\ Call!TypeOK
  /\ Len(frames[Self]) = Height("walk") /\ Len(calls) = Height("call")

(* Entries reach the callback of their own walk when walks nest through    *)
(* the callbacks of other wrappers as well as directly (ftw.c:42, 92).     *)
DispatchToOwner == Walk!DispatchToOwner

(* The error of a call is its own failure's although walks that ran inside *)
(* it, and callbacks around it, have had errno (dirent.c:192-198).         *)
NothingStale == Call!NothingStale

(* Each kind keeps its contract in the other's presence: a walk's verdict  *)
(* does not depend on the calls its callbacks make (ftw.c:88-97) ...       *)
WalksKeepContract == Walk!ContractSpec

(* ... nor a call's on the walks its callbacks make.                       *)
CallsKeepContract == Call!ContractSpec
=============================================================================

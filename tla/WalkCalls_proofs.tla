-------------------------- MODULE WalkCalls_proofs --------------------------
(***************************************************************************)
(* Proofs about WalkCalls, for any callbacks, codes and depths of nesting. *)
(*                                                                         *)
(* A thread in which walks and calls nest in each other is at the same     *)
(* time a thread of TreeWalk, whose application happens to make calls, and *)
(* a thread of WrapperCall, whose application happens to make walks: every *)
(* step of WalkCalls is a step, or none, of each.  What is proved of the   *)
(* two components then holds here, and is cited, not proved again.         *)
(***************************************************************************)
EXTENDS WalkCalls, CountingLemmas, SequenceTheorems

WalkP == INSTANCE TreeWalk_proofs
           WITH Threads <- {Self}, MaxDepth <- MaxWalks,
                SkipResults <- {}, Unwinds <- FALSE

CallP == INSTANCE WrapperCall_proofs
           WITH MaxDepth <- MaxCalls, errno <- errno[Self]

Kinds == {"walk", "call"}

(* While something else is innermost, the innermost walk is in its         *)
(* callback and the innermost call has called back.                        *)
OthersWait ==
  /\ ~ Inside("walk") => Walk!InApplication(frames[Self])
  /\ ~ Inside("call") => Call!InApplication

StackInv ==
  /\ stack \in Seq(Kinds)
  /\ Len(frames[Self]) = Height("walk") /\ Len(calls) = Height("call")
  /\ OthersWait

(* The inductive invariant: those of the components, and the stack's.      *)
ThreadInv == WalkP!WalkInv /\ CallP!CallInv /\ StackInv

-----------------------------------------------------------------------------
(* What the components assume of their constants.                          *)
LEMMA WalksAssumption ==
  /\ EIO \in Codes /\ EINVAL \in Codes
  /\ 0 \notin Codes /\ None \notin Codes
  /\ None \notin Callbacks
  /\ None \notin {Self} \X Nat
  /\ Results \subseteq Int /\ 0 \notin Results
  /\ {} \subseteq Results
  /\ FALSE \in BOOLEAN
  /\ MaxWalks \in Nat \ {0}
BY WalkCallsAssumption DEF WalkCallsAssumption

LEMMA CallsAssumption ==
  /\ EIO \in Codes
  /\ 0 \notin Codes /\ None \notin Codes \cup {0}
  /\ {"good", "bad", "nomatch"} \cap (Codes \cup {None}) = {}
  /\ MaxCalls \in Nat \ {0}
BY WalkCallsAssumption DEF WalkCallsAssumption

LEMMA WalkNext == WalkP!WalkInv /\ [WalkP!Next]_WalkP!vars => WalkP!WalkInv'
BY WalksAssumption, WalkP!NextInv

LEMMA CallNext == CallP!CallInv /\ [CallP!Next]_CallP!vars => CallP!CallInv'
BY CallsAssumption, CallP!NextInv

-----------------------------------------------------------------------------
(* The modules of proofs speak of the components in their own names.       *)
LEMMA WalkNames ==
  /\ WalkP!Init <=> Walk!Init
  /\ WalkP!Next <=> Walk!Next
  /\ WalkP!vars = Walk!vars
  /\ WalkP!TypeOK <=> Walk!TypeOK
  /\ WalkP!DispatchToOwner <=> Walk!DispatchToOwner
  /\ \A s : WalkP!InApplication(s) <=> Walk!InApplication(s)
  /\ \A t, f, cb : WalkP!StartWalk(t, f, cb) <=> Walk!StartWalk(t, f, cb)
  /\ \A t, f : WalkP!EndWalk(t, f) <=> Walk!EndWalk(t, f)
  /\ \A t : WalkP!CallFtwCallback(t) <=> Walk!CallFtwCallback(t)
  /\ \A t : WalkP!CallNftwCallback(t) <=> Walk!CallNftwCallback(t)
  /\ \A t, r : WalkP!CallbackReturns(t, r) <=> Walk!CallbackReturns(t, r)
  /\ \A t : WalkP!NativeEnds(t) <=> Walk!NativeEnds(t)
BY DEF Walk!Init, WalkP!Init, Walk!Next, WalkP!Next, Walk!vars, WalkP!vars,
       Walk!TypeOK, WalkP!TypeOK, Walk!DispatchToOwner,
       WalkP!DispatchToOwner, Walk!InApplication, WalkP!InApplication,
       Walk!StartWalk, WalkP!StartWalk, Walk!StartFtw, WalkP!StartFtw,
       Walk!StartNftw, WalkP!StartNftw, Walk!EndWalk, WalkP!EndWalk,
       Walk!ReturnFtw, WalkP!ReturnFtw, Walk!ReturnNftw,
       WalkP!ReturnNftw, Walk!CallFtwCallback, WalkP!CallFtwCallback,
       Walk!CallNftwCallback, WalkP!CallNftwCallback,
       Walk!CallbackReturns, WalkP!CallbackReturns, Walk!NativeEnds,
       WalkP!NativeEnds, Walk!InjectedFault, WalkP!InjectedFault,
       Walk!InvalidArguments, WalkP!InvalidArguments, Walk!LongJump,
       WalkP!LongJump, Walk!SetErrno, WalkP!SetErrno, Walk!Dispatch,
       WalkP!Dispatch, Walk!Walking, WalkP!Walking, Walk!Slot,
       WalkP!Slot, Walk!Active, WalkP!Active, Walk!Publish,
       WalkP!Publish, Walk!Top, WalkP!Top, Walk!SetTop, WalkP!SetTop,
       Walk!Here, WalkP!Here, Walk!Live, WalkP!Live, Walk!Fetch,
       WalkP!Fetch, Walk!Fail, WalkP!Fail, Walk!MarkStopped,
       WalkP!MarkStopped, Walk!ErrorCode, WalkP!ErrorCode, Walk!Raised,
       WalkP!Raised, Walk!Restored, WalkP!Restored, Walk!FamiliesIn,
       WalkP!FamiliesIn, Walk!Innermost, WalkP!Innermost,
       Walk!Outermost, WalkP!Outermost, Walk!SetInnermost,
       WalkP!SetInnermost, Walk!GoesOn, WalkP!GoesOn, Walk!Families,
       WalkP!Families, Walk!Ended, WalkP!Ended, Walk!Phases,
       WalkP!Phases, Walk!Outcome, WalkP!Outcome, Walk!NoOutcome,
       WalkP!NoOutcome, Walk!Frame, WalkP!Frame, Walk!Address,
       WalkP!Address

LEMMA CallNames ==
  /\ CallP!Init <=> Call!Init
  /\ CallP!Next <=> Call!Next
  /\ CallP!vars = Call!vars
  /\ CallP!TypeOK <=> Call!TypeOK
  /\ CallP!NothingStale <=> Call!NothingStale
  /\ CallP!InApplication <=> Call!InApplication
  /\ CallP!InApplication' <=> Call!InApplication'
  /\ \A op : CallP!Enter(op) <=> Call!Enter(op)
  /\ CallP!Ops = Call!Ops
  /\ CallP!Fault <=> Call!Fault
  /\ CallP!ResetErrno <=> Call!ResetErrno
  /\ CallP!NativeSucceeds <=> Call!NativeSucceeds
  /\ CallP!NativeFails <=> Call!NativeFails
  /\ CallP!NativeHasNothing <=> Call!NativeHasNothing
  /\ CallP!Return <=> Call!Return
BY DEF Call!Init, CallP!Init, Call!Next, CallP!Next, Call!vars, CallP!vars,
       Call!TypeOK, CallP!TypeOK, Call!NothingStale, CallP!NothingStale,
       Call!InApplication, CallP!InApplication, Call!In, CallP!In,
       Call!End, CallP!End, Call!Change, CallP!Change, Call!Enter,
       CallP!Enter, Call!Clobber, CallP!Clobber, Call!Fault,
       CallP!Fault, Call!ResetErrno, CallP!ResetErrno, Call!Answered,
       CallP!Answered, Call!NativeSucceeds, CallP!NativeSucceeds,
       Call!NativeFails, CallP!NativeFails, Call!NativeHasNothing,
       CallP!NativeHasNothing, Call!StrictCode, CallP!StrictCode,
       Call!AmbiguousCode, CallP!AmbiguousCode, Call!DefaultedCode,
       CallP!DefaultedCode, Call!SystemCode, CallP!SystemCode,
       Call!Raised, CallP!Raised, Call!Return, CallP!Return,
       Call!Phases, CallP!Phases, Call!Values, CallP!Values, Call!Call,
       CallP!Call, Call!Meanings, CallP!Meanings, Call!Ops, CallP!Ops,
       Call!Innermost, CallP!Innermost, Call!Pop, CallP!Pop,
       Call!Strict, CallP!Strict, Call!Ambiguous, CallP!Ambiguous,
       Call!Defaulted, CallP!Defaulted, Call!Coded, CallP!Coded,
       Call!Infallible, CallP!Infallible, Call!CallsBack,
       CallP!CallsBack, Call!UnistdOwners, CallP!UnistdOwners,
       Call!UnistdLinks, CallP!UnistdLinks, Call!UnistdReads,
       CallP!UnistdReads, Call!UnistdNames, CallP!UnistdNames,
       Call!StatModes, CallP!StatModes, Call!StatNodes, CallP!StatNodes,
       Call!StatTimes, CallP!StatTimes, Call!Statvfs, CallP!Statvfs,
       Call!Temporaries, CallP!Temporaries, Call!Realpath,
       CallP!Realpath, Call!Streams, CallP!Streams, Call!Opening, CallP!Opening, Call!Scandir,
       CallP!Scandir, Call!DescriptorLimits, CallP!DescriptorLimits,
       Call!PathLimits, CallP!PathLimits, Call!StreamOfFd,
       CallP!StreamOfFd, Call!NextEntry, CallP!NextEntry, Call!Position,
       CallP!Position, Call!PathParts, CallP!PathParts, Call!Fnmatch,
       CallP!Fnmatch, Call!Glob, CallP!Glob, Call!Comparison,
       CallP!Comparison, Call!Rewind, CallP!Rewind, Call!Seek,
       CallP!Seek, Call!FileMask, CallP!FileMask, Call!Sync, CallP!Sync,
       Call!Release, CallP!Release

-----------------------------------------------------------------------------
(* What the invariant says of the types and of who waits.                  *)
LEMMA ThreadFacts ==
  ASSUME ThreadInv
  PROVE  /\ errno \in [{Self} -> Codes \cup {0}]
         /\ Inside("call") => ~ Inside("walk")
         /\ Inside("call") => Walk!InApplication(frames[Self])
         /\ Inside("walk") => Call!InApplication
         /\ InApplication => Walk!InApplication(frames[Self]) /\ Call!InApplication
BY DEF ThreadInv, WalkP!WalkInv, WalkP!TypeOK, StackInv, OthersWait, Inside,
       InApplication

(* Whatever the thread does is a step of its walks, or none: to them, a    *)
(* wrapper is application code that sets errno.                            *)
LEMMA StepOfWalks == ThreadInv /\ [Next]_vars => [Walk!Next]_Walk!vars
<1> SUFFICES ASSUME ThreadInv, [Next]_vars
             PROVE  [Walk!Next]_Walk!vars
  OBVIOUS
<1>1. CASE StartWalk
  BY <1>1 DEF StartWalk, Walk!Next
<1>2. CASE RefuseWalk
  BY <1>2 DEF RefuseWalk, Walk!Next
<1>3. CASE WalkStep
  BY <1>3 DEF WalkStep, Walk!Next
<1>4. CASE EndWalk
  BY <1>4 DEF EndWalk, Walk!Next
<1>5. CASE StartCall
  BY <1>5 DEF StartCall, walks, Walk!vars
<1>6. ASSUME SomeErrno, UNCHANGED walks, Walk!InApplication(frames[Self])
      PROVE  Walk!Next
  BY <1>6 DEF SomeErrno, walks, Walk!SetErrno, Walk!Next
<1>7. CASE CallStep
  BY <1>6, <1>7, ThreadFacts DEF CallStep
<1>8. CASE EndCall
  BY <1>6, <1>8, ThreadFacts DEF EndCall
<1>9. CASE Clobber
  BY <1>6, <1>9, ThreadFacts DEF Clobber
<1>10. CASE UNCHANGED vars
  BY <1>10 DEF vars, Walk!vars
<1> QED
  BY <1>1, <1>2, <1>3, <1>4, <1>5, <1>7, <1>8, <1>9, <1>10 DEF Next

LEMMA WalkInvKept == ThreadInv /\ [Next]_vars => WalkP!WalkInv'
BY StepOfWalks, WalkNames, WalkNext DEF ThreadInv, WalkP!vars, Walk!vars

(* And a step of its calls, or none: to them, a walk is application code,  *)
(* or the callback that the innermost call is in, and it sets errno.       *)
LEMMA StepOfCalls == ThreadInv /\ [Next]_vars => [Call!Next]_Call!vars
<1> SUFFICES ASSUME ThreadInv, [Next]_vars
             PROVE  [Call!Next]_Call!vars
  OBVIOUS
<1>1. errno'[Self] \in Codes \cup {0}
  BY WalkInvKept DEF WalkP!WalkInv, WalkP!TypeOK
<1>2. ASSUME UNCHANGED <<calls, outcome>>, Call!InApplication \/ Call!In("entered")
      PROVE  Call!Next
  BY <1>1, <1>2 DEF Call!Clobber, Call!Next
<1>3. CASE StartWalk \/ RefuseWalk
  BY <1>2, <1>3, ThreadFacts DEF StartWalk, RefuseWalk
<1>4. CASE WalkStep \/ EndWalk
  BY <1>2, <1>4, ThreadFacts DEF WalkStep, EndWalk
<1>5. CASE StartCall
  BY <1>5, WalkCallsAssumption DEF StartCall, WalkCallsAssumption, Call!Next
<1>6. CASE CallStep
  BY <1>6 DEF CallStep, Call!Next
<1>7. CASE EndCall
  BY <1>7 DEF EndCall, Call!Next
<1>8. CASE Clobber
  BY <1>2, <1>8, ThreadFacts DEF Clobber
<1>9. CASE UNCHANGED vars
  BY <1>9 DEF vars, Call!vars
<1> QED
  BY <1>3, <1>4, <1>5, <1>6, <1>7, <1>8, <1>9 DEF Next

LEMMA CallInvKept == ThreadInv /\ [Next]_vars => CallP!CallInv'
BY StepOfCalls, CallNames, CallNext DEF ThreadInv, CallP!vars, Call!vars

-----------------------------------------------------------------------------
(* The stack: what is pushed is innermost, and the heights count.          *)
LEMMA StackFacts ==
  ASSUME NEW s \in Seq(Kinds)
  PROVE  Len(s) \in Nat /\ DOMAIN s = 1 .. Len(s) /\ (s # << >> => Len(s) \in Nat \ {0})
BY LenProperties, EmptySeq

LEMMA EnterFacts ==
  ASSUME stack \in Seq(Kinds), NEW k \in Kinds, Enter(k)
  PROVE  /\ stack' \in Seq(Kinds)
         /\ Inside(k)'
         /\ \A kind \in Kinds : /\ kind # k => ~ Inside(kind)'
                                /\ Height(kind) \in Nat
                                /\ Height(kind)' = Height(kind) + (IF kind = k THEN 1 ELSE 0)
<1> DEFINE n == Len(stack)
<1>1. n \in Nat /\ DOMAIN stack = 1 .. n
  BY StackFacts
<1>2. /\ stack' \in Seq(Kinds) /\ Len(stack') = n + 1
      /\ \A i \in 1 .. n : stack'[i] = stack[i]
      /\ stack'[n + 1] = k
  BY AppendProperties DEF Enter
<1>3. DOMAIN stack' = 1 .. n + 1 /\ stack' # << >>
  BY <1>1, <1>2, StackFacts
<1>4. Inside(k)' /\ \A kind \in Kinds : kind # k => ~ Inside(kind)'
  BY <1>2, <1>3 DEF Inside
<1>5. ASSUME NEW kind \in Kinds
      PROVE  /\ Height(kind) \in Nat
             /\ Height(kind)' = Height(kind) + (IF kind = k THEN 1 ELSE 0)
  <2> DEFINE T == 1 .. n + 1
             S == {i \in DOMAIN stack : stack[i] = kind}
             R == {i \in DOMAIN stack' : stack'[i] = kind}
  <2>1. IsFiniteSet(T)
    BY <1>1, FS_Interval
  <2>2. S \in SUBSET T /\ R \in SUBSET T
    BY <1>1, <1>3
  <2>3. n + 1 \notin S /\ (n + 1 \in R <=> kind = k)
    BY <1>1, <1>2, <1>3
  <2>4. S \ {n + 1} = R \ {n + 1}
    BY <1>1, <1>2, <1>3
  <2> HIDE DEF T, S, R
  <2>5. /\ Cardinality(S) \in Nat /\ Cardinality(R) \in Nat
        /\ Cardinality(R) = Cardinality(S) + Weight(n + 1, R) - Weight(n + 1, S)
    BY <2>1, <2>2, <2>4, CountStep
  <2>6. Cardinality(R) = Cardinality(S) + (IF kind = k THEN 1 ELSE 0)
    BY <2>3, <2>5 DEF Weight
  <2> QED
    BY <2>5, <2>6 DEF Height, S, R
<1> QED
  BY <1>2, <1>4, <1>5

LEMMA LeaveFacts ==
  ASSUME stack \in Seq(Kinds), NEW k \in Kinds, Inside(k), Leave
  PROVE  /\ stack' \in Seq(Kinds)
         /\ \A kind \in Kinds :
              /\ Height(kind) \in Nat
              /\ Height(kind)' = Height(kind) - (IF kind = k THEN 1 ELSE 0)
<1> DEFINE n == Len(stack)
           d == n - 1
<1>1. n \in Nat \ {0} /\ DOMAIN stack = 1 .. n /\ stack[n] = k
  BY StackFacts DEF Inside
<1>2. d \in Nat /\ d <= n /\ \A i \in 1 .. d : i \in 1 .. n
  BY <1>1
<1>3. \A i \in 1 .. n : stack[i] \in Kinds
  BY <1>1, ElementOfSeq
<1>4. /\ stack' \in Seq(Kinds) /\ Len(stack') = d
      /\ \A i \in 1 .. d : stack'[i] = stack[i]
  <2>1. stack' = SubSeq(stack, 1, d)
    BY DEF Leave
  <2> HIDE DEF d
  <2>2. /\ stack' \in Seq(Kinds)
        /\ Len(stack') = IF 1 <= d THEN d - 1 + 1 ELSE 0
        /\ \A i \in 1 .. d - 1 + 1 : stack'[i] = stack[1 + i - 1]
    BY <1>2, <1>3, <2>1, SubSeqProperties
  <2>3. (IF 1 <= d THEN d - 1 + 1 ELSE 0) = d /\ d - 1 + 1 = d
        /\ \A i \in 1 .. d : 1 + i - 1 = i
    BY <1>2
  <2> QED
    BY <2>2, <2>3
<1>5. DOMAIN stack' = 1 .. d
  BY <1>4, StackFacts
<1>6. ASSUME NEW kind \in Kinds
      PROVE  /\ Height(kind) \in Nat
             /\ Height(kind)' = Height(kind) - (IF kind = k THEN 1 ELSE 0)
  <2> DEFINE T == 1 .. n
             S == {i \in DOMAIN stack : stack[i] = kind}
             R == {i \in DOMAIN stack' : stack'[i] = kind}
  <2>1. IsFiniteSet(T)
    BY <1>1, FS_Interval
  <2>2. S \in SUBSET T /\ R \in SUBSET T
    BY <1>1, <1>2, <1>5
  <2>3. n \notin R /\ (n \in S <=> kind = k)
    BY <1>1, <1>5
  <2>4. S \ {n} = R \ {n}
    BY <1>1, <1>4, <1>5
  <2> HIDE DEF T, S, R
  <2>5. /\ Cardinality(S) \in Nat /\ Cardinality(R) \in Nat
        /\ Cardinality(R) = Cardinality(S) + Weight(n, R) - Weight(n, S)
    BY <2>1, <2>2, <2>4, CountStep
  <2>6. Cardinality(R) = Cardinality(S) - (IF kind = k THEN 1 ELSE 0)
    BY <2>3, <2>5 DEF Weight
  <2> QED
    BY <2>5, <2>6 DEF Height, S, R
<1> QED
  BY <1>4, <1>6

-----------------------------------------------------------------------------
(* A step that neither enters nor leaves anything.                         *)
LEMMA StackStays ==
  ASSUME StackInv, UNCHANGED stack, Len(frames'[Self]) = Len(frames[Self]),
         Len(calls') = Len(calls), OthersWait'
  PROVE  StackInv'
BY DEF StackInv, Height

LEMMA StackKept == ThreadInv /\ [Next]_vars => StackInv'
<1> SUFFICES ASSUME ThreadInv, [Next]_vars
             PROVE  StackInv'
  OBVIOUS
<1>0. /\ StackInv /\ stack \in Seq(Kinds)
      /\ Len(frames[Self]) = Height("walk") /\ Len(calls) = Height("call")
      /\ "walk" \in Kinds /\ "call" \in Kinds /\ Self \in {Self}
  BY DEF ThreadInv, StackInv, Kinds
<1>1. CASE StartWalk
  <2>1. Enter("walk") /\ UNCHANGED calls /\ InApplication
    BY <1>1 DEF StartWalk
  <2>2. PICK cb \in Callbacks, f \in WalkP!Families : Walk!StartWalk(Self, f, cb)
    BY <1>1 DEF StartWalk, Walk!StartFtw, Walk!StartNftw, WalkP!Families
  <2>3. Len(frames'[Self]) = Len(frames[Self]) + 1
    BY <1>0, <2>2, WalkNames, WalksAssumption, WalkP!StartIsHigher DEF ThreadInv
  <2>4. /\ stack' \in Seq(Kinds) /\ Inside("walk")' /\ ~ Inside("call")'
        /\ Height("walk")' = Height("walk") + 1 /\ Height("call")' = Height("call") + 0
        /\ Height("walk") \in Nat /\ Height("call") \in Nat
    BY <1>0, <2>1, EnterFacts
  <2>5. Call!InApplication'
    BY <2>1, ThreadFacts DEF Call!InApplication
  <2> QED
    BY <1>0, <2>1, <2>3, <2>4, <2>5 DEF StackInv, OthersWait
<1>2. CASE RefuseWalk
  <2>1. UNCHANGED <<frames, calls, stack>>
    BY <1>2 DEF RefuseWalk, Walk!InjectedFault, Walk!InvalidArguments
  <2>2. OthersWait'
    BY <1>0, <2>1 DEF StackInv, OthersWait, Inside, Call!InApplication
  <2> QED
    BY <1>0, <2>1, <2>2, StackStays
<1>3. CASE WalkStep
  <2>1. UNCHANGED <<calls, stack>> /\ Inside("walk")
    BY <1>3 DEF WalkStep
  <2>2. Len(frames'[Self]) = Len(frames[Self])
    BY <1>0, <1>3, WalkNames, WalksAssumption, WalkP!StepIsLevel DEF ThreadInv, WalkStep
  <2>3. Inside("walk")' /\ Call!InApplication'
    BY <2>1, ThreadFacts DEF Inside, Call!InApplication
  <2> QED
    BY <1>0, <2>1, <2>2, <2>3, StackStays DEF OthersWait
<1>4. CASE EndWalk
  <2>1. Inside("walk") /\ Leave /\ UNCHANGED calls
    BY <1>4 DEF EndWalk
  <2>2. PICK f \in WalkP!Families : Walk!EndWalk(Self, f)
    BY <1>4 DEF EndWalk, Walk!ReturnFtw, Walk!ReturnNftw, WalkP!Families
  <2>3. Len(frames'[Self]) = Len(frames[Self]) - 1 /\ Walk!InApplication(frames'[Self])
    BY <1>0, <2>2, WalkNames, WalksAssumption, WalkP!EndIsLower DEF ThreadInv
  <2>4. /\ stack' \in Seq(Kinds)
        /\ Height("walk")' = Height("walk") - 1 /\ Height("call")' = Height("call") - 0
        /\ Height("walk") \in Nat /\ Height("call") \in Nat
    BY <1>0, <2>1, LeaveFacts
  <2>5. Call!InApplication'
    BY <2>1, ThreadFacts DEF Call!InApplication
  <2> QED
    BY <1>0, <2>1, <2>3, <2>4, <2>5 DEF StackInv, OthersWait
<1>5. CASE StartCall
  <2>1. Enter("call") /\ UNCHANGED frames /\ InApplication
    BY <1>5 DEF StartCall, walks
  <2>2. PICK op \in CallP!Ops : Call!Enter(op)
    BY <1>5, WalkCallsAssumption, CallNames DEF StartCall, WalkCallsAssumption
  <2>3. Len(calls') = Len(calls) + 1
    BY <2>2, CallNames, CallsAssumption, CallP!EnterIsHigher DEF ThreadInv
  <2>4. /\ stack' \in Seq(Kinds) /\ Inside("call")' /\ ~ Inside("walk")'
        /\ Height("call")' = Height("call") + 1 /\ Height("walk")' = Height("walk") + 0
        /\ Height("walk") \in Nat /\ Height("call") \in Nat
    BY <1>0, <2>1, EnterFacts
  <2>5. Walk!InApplication(frames'[Self])
    BY <2>1, ThreadFacts
  <2> QED
    BY <1>0, <2>1, <2>3, <2>4, <2>5 DEF StackInv, OthersWait
<1>6. CASE CallStep
  <2>1. UNCHANGED <<frames, stack>> /\ Inside("call")
    BY <1>6 DEF CallStep, walks
  <2>2. Len(calls') = Len(calls)
    BY <1>6, CallNames, CallsAssumption, CallP!StepIsLevel DEF ThreadInv, CallStep
  <2>3. Inside("call")' /\ Walk!InApplication(frames'[Self])
    BY <2>1, ThreadFacts DEF Inside
  <2> QED
    BY <1>0, <2>1, <2>2, <2>3, StackStays DEF OthersWait
<1>7. CASE EndCall
  <2>1. Inside("call") /\ Leave /\ UNCHANGED frames
    BY <1>7 DEF EndCall, walks
  <2>2. Len(calls') = Len(calls) - 1 /\ Call!InApplication'
    BY <1>7, CallNames, CallsAssumption, CallP!EndIsLower DEF ThreadInv, EndCall
  <2>3. /\ stack' \in Seq(Kinds)
        /\ Height("call")' = Height("call") - 1 /\ Height("walk")' = Height("walk") - 0
        /\ Height("walk") \in Nat /\ Height("call") \in Nat
    BY <1>0, <2>1, LeaveFacts
  <2>4. Walk!InApplication(frames'[Self])
    BY <2>1, ThreadFacts
  <2> QED
    BY <1>0, <2>1, <2>2, <2>3, <2>4 DEF StackInv, OthersWait
<1>8. CASE Clobber \/ UNCHANGED vars
  <2>1. UNCHANGED <<frames, calls, stack>>
    BY <1>8 DEF Clobber, walks, vars
  <2>2. OthersWait'
    BY <1>0, <2>1 DEF StackInv, OthersWait, Inside, Call!InApplication
  <2> QED
    BY <1>0, <2>1, <2>2, StackStays
<1> QED
  BY <1>1, <1>2, <1>3, <1>4, <1>5, <1>6, <1>7, <1>8 DEF Next

-----------------------------------------------------------------------------
LEMMA InitInv == Init => ThreadInv
<1> SUFFICES ASSUME Init
             PROVE  ThreadInv
  OBVIOUS
<1>1. Walk!Init /\ Call!Init /\ stack = << >>
  BY DEF Init
<1>2. WalkP!WalkInv
  BY <1>1, WalkNames, WalksAssumption, WalkP!InitInv
<1>3. CallP!CallInv
  BY <1>1, CallNames, CallsAssumption, CallP!InitInv
<1>4. frames[Self] = << >> /\ calls = << >>
  BY <1>1 DEF Walk!Init, Call!Init
<1>5. stack \in Seq(Kinds) /\ Len(stack) = 0 /\ DOMAIN stack = {}
  BY <1>1, EmptySeq
<1>6. Height("walk") = 0 /\ Height("call") = 0
  <2>1. \A kind : {i \in DOMAIN stack : stack[i] = kind} = {}
    BY <1>5
  <2> QED
    BY <2>1, FS_EmptySet DEF Height
<1>7. OthersWait
  BY <1>4 DEF OthersWait, Walk!InApplication, Walk!Outermost, Call!InApplication
<1>8. Len(frames[Self]) = 0 /\ Len(calls) = 0
  BY <1>1, <1>4, <1>5
<1> QED
  BY <1>2, <1>3, <1>5, <1>6, <1>7, <1>8 DEF ThreadInv, StackInv

LEMMA NextInv == ThreadInv /\ [Next]_vars => ThreadInv'
BY WalkInvKept, CallInvKept, StackKept DEF ThreadInv

-----------------------------------------------------------------------------
(* The inductive invariant of a thread with walks and calls nested in each *)
(* other.                                                                  *)
THEOREM ThreadHolds == Spec => []ThreadInv
<1> QED
  BY InitInv, NextInv, PTL DEF Spec

(* The thread's variables keep their types, and its stack is exactly the   *)
(* interleaving of its walks and its calls.                                *)
THEOREM TypeCorrect == Spec => []TypeOK
<1>1. ThreadInv => TypeOK
  BY WalkNames, CallNames
     DEF ThreadInv, StackInv, TypeOK, WalkP!WalkInv, CallP!CallInv
<1> QED
  BY <1>1, ThreadHolds, PTL

(* Entries reach the callback of their own walk although other walks are   *)
(* started inside it, directly or from the callbacks of scandir and glob   *)
(* (ftw.c:42, 57, 92 and 128).                                             *)
THEOREM DispatchCorrect == Spec => []DispatchToOwner
<1>1. ThreadInv => DispatchToOwner
  BY WalkNames DEF ThreadInv, DispatchToOwner, WalkP!WalkInv
<1> QED
  BY <1>1, ThreadHolds, PTL

(* A call's error is its own failure's, whatever walks ran inside the call *)
(* or around it and left in errno (dirent.c:192-198).                      *)
THEOREM NothingIsEverStale == Spec => []NothingStale
<1>1. ThreadInv => NothingStale
  BY CallNames DEF ThreadInv, NothingStale, CallP!CallInv
<1> QED
  BY <1>1, ThreadHolds, PTL

(* A thread that also makes calls is, to its walks, a thread of TreeWalk.  *)
THEOREM WalksAreUndisturbed == Spec => Walk!Spec
<1>1. Init => Walk!Init
  BY DEF Init
<1> QED
  BY <1>1, StepOfWalks, ThreadHolds, PTL DEF Spec, Walk!Spec

(* A thread that also makes walks is, to its calls, one of WrapperCall.    *)
THEOREM CallsAreUndisturbed == Spec => Call!Spec
<1>1. Init => Call!Init
  BY DEF Init
<1> QED
  BY <1>1, StepOfCalls, ThreadHolds, PTL DEF Spec, Call!Spec

-----------------------------------------------------------------------------
LEMMA WalkContractNames ==
  /\ WalkP!Contract!Init <=> Walk!Contract!Init
  /\ [WalkP!Contract!Next]_(WalkP!Contract!contractVars)
       <=> [Walk!Contract!Next]_(Walk!Contract!contractVars)
BY DEF Walk!Walks, WalkP!Walks, Walk!Contract!Init, WalkP!Contract!Init,
       Walk!Contract!Next, WalkP!Contract!Next, Walk!Contract!contractVars,
       WalkP!Contract!contractVars, Walk!Contract!Refuse,
       WalkP!Contract!Refuse, Walk!Contract!Begin, WalkP!Contract!Begin,
       Walk!Contract!Deliver, WalkP!Contract!Deliver, Walk!Contract!Answer,
       WalkP!Contract!Answer, Walk!Contract!Finish, WalkP!Contract!Finish,
       Walk!Contract!Conclude, WalkP!Contract!Conclude, Walk!Contract!Abandon,
       WalkP!Contract!Abandon, Walk!Contract!SetErrno,
       WalkP!Contract!SetErrno, Walk!Contract!InApplication,
       WalkP!Contract!InApplication, Walk!Contract!Outermost,
       WalkP!Contract!Outermost, Walk!Contract!Innermost,
       WalkP!Contract!Innermost, Walk!Contract!SetInnermost,
       WalkP!Contract!SetInnermost, Walk!Contract!GoesOn,
       WalkP!Contract!GoesOn, Walk!Contract!Families, WalkP!Contract!Families,
       Walk!Contract!Ended, WalkP!Contract!Ended, Walk!Contract!NoOutcome,
       WalkP!Contract!NoOutcome

LEMMA CallContractNames ==
  /\ CallP!Contract!Init <=> Call!Contract!Init
  /\ [CallP!Contract!Next]_(CallP!Contract!contractVars)
       <=> [Call!Contract!Next]_(Call!Contract!contractVars)
BY DEF Call!Abstract, CallP!Abstract, Call!Contract!Init, CallP!Contract!Init,
       Call!Contract!Next, CallP!Contract!Next, Call!Contract!contractVars,
       CallP!Contract!contractVars, Call!Contract!Begin, CallP!Contract!Begin,
       Call!Contract!Refuse, CallP!Contract!Refuse, Call!Contract!GoNative,
       CallP!Contract!GoNative, Call!Contract!Answer, CallP!Contract!Answer,
       Call!Contract!Conclude, CallP!Contract!Conclude,
       Call!Contract!InApplication, CallP!Contract!InApplication,
       Call!Contract!Change, CallP!Contract!Change, Call!Contract!End,
       CallP!Contract!End, Call!Contract!CanMean, CallP!Contract!CanMean,
       Call!Contract!Ops, CallP!Contract!Ops, Call!Contract!Meanings,
       CallP!Contract!Meanings, Call!Contract!Innermost,
       CallP!Contract!Innermost, Call!Contract!Pop, CallP!Contract!Pop,
       Call!Contract!Strict, CallP!Contract!Strict, Call!Contract!Ambiguous,
       CallP!Contract!Ambiguous, Call!Contract!Defaulted,
       CallP!Contract!Defaulted, Call!Contract!Coded, CallP!Contract!Coded,
       Call!Contract!Infallible, CallP!Contract!Infallible,
       Call!Contract!CallsBack, CallP!Contract!CallsBack,
       Call!Contract!UnistdOwners, CallP!Contract!UnistdOwners,
       Call!Contract!UnistdLinks, CallP!Contract!UnistdLinks,
       Call!Contract!UnistdReads, CallP!Contract!UnistdReads,
       Call!Contract!UnistdNames, CallP!Contract!UnistdNames,
       Call!Contract!StatModes, CallP!Contract!StatModes,
       Call!Contract!StatNodes, CallP!Contract!StatNodes,
       Call!Contract!StatTimes, CallP!Contract!StatTimes,
       Call!Contract!Statvfs, CallP!Contract!Statvfs,
       Call!Contract!Temporaries, CallP!Contract!Temporaries,
       Call!Contract!Realpath, CallP!Contract!Realpath, Call!Contract!Streams,
       CallP!Contract!Streams, Call!Contract!Opening, CallP!Contract!Opening,
       Call!Contract!Scandir, CallP!Contract!Scandir,
       Call!Contract!DescriptorLimits, CallP!Contract!DescriptorLimits,
       Call!Contract!PathLimits, CallP!Contract!PathLimits,
       Call!Contract!StreamOfFd, CallP!Contract!StreamOfFd,
       Call!Contract!NextEntry, CallP!Contract!NextEntry,
       Call!Contract!Position, CallP!Contract!Position,
       Call!Contract!PathParts, CallP!Contract!PathParts,
       Call!Contract!Fnmatch, CallP!Contract!Fnmatch, Call!Contract!Glob,
       CallP!Contract!Glob, Call!Contract!Comparison,
       CallP!Contract!Comparison, Call!Contract!Rewind, CallP!Contract!Rewind,
       Call!Contract!Seek, CallP!Contract!Seek, Call!Contract!FileMask,
       CallP!Contract!FileMask, Call!Contract!Sync, CallP!Contract!Sync,
       Call!Contract!Release, CallP!Contract!Release

(* Walks keep their contract among calls: no verdict on a walk depends on  *)
(* the wrappers that its callbacks use (ftw.c:88-97 and 124-133).          *)
THEOREM WalksStillKeepTheContract == Spec => WalksKeepContract
<1>1. Init => Walk!Contract!Init
  BY WalkNames, WalkContractNames, WalksAssumption, WalkP!InitMaps DEF Init
<1>2. ThreadInv /\ [Next]_vars => [Walk!Contract!Next]_(Walk!Contract!contractVars)
  <2> SUFFICES ASSUME ThreadInv, [Next]_vars
               PROVE  [Walk!Contract!Next]_(Walk!Contract!contractVars)
    OBVIOUS
  <2>1. WalkP!WalkInv /\ [WalkP!Next]_WalkP!vars
    BY StepOfWalks, WalkNames DEF ThreadInv, WalkP!vars, Walk!vars
  <2>2. [WalkP!Contract!Next]_(WalkP!Contract!contractVars)
    BY <2>1, WalksAssumption, WalkP!StepMaps
  <2> QED
    BY <2>2, WalkContractNames
<1> QED
  BY <1>1, <1>2, ThreadHolds, PTL
     DEF Spec, WalksKeepContract, Walk!ContractSpec, Walk!Contract!Spec

(* And calls keep theirs among walks: what a wrapper raises never comes    *)
(* from a walk that shares errno with it (dirent.c:192-198).               *)
THEOREM CallsStillKeepTheContract == Spec => CallsKeepContract
<1>1. Init => Call!Contract!Init
  BY CallNames, CallContractNames, CallsAssumption, CallP!InitMaps DEF Init
<1>2. ThreadInv /\ [Next]_vars => [Call!Contract!Next]_(Call!Contract!contractVars)
  <2> SUFFICES ASSUME ThreadInv, [Next]_vars
               PROVE  [Call!Contract!Next]_(Call!Contract!contractVars)
    OBVIOUS
  <2>1. CallP!CallInv /\ [CallP!Next]_CallP!vars
    BY StepOfCalls, CallNames DEF ThreadInv, CallP!vars, Call!vars
  <2>2. [CallP!Contract!Next]_(CallP!Contract!contractVars)
    BY <2>1, CallsAssumption, CallP!StepMaps
  <2> QED
    BY <2>2, CallContractNames
<1> QED
  BY <1>1, <1>2, ThreadHolds, PTL
     DEF Spec, CallsKeepContract, Call!ContractSpec, Call!Contract!Spec
=============================================================================

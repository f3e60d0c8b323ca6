------------------------- MODULE WrapperCall_proofs -------------------------
(***************************************************************************)
(* Proofs about WrapperCall, for any set of codes and any depth of         *)
(* nesting.                                                                *)
(*                                                                         *)
(* That no wrapper raises a stale errno is proved from the innermost call  *)
(* outwards: between its reset and its verdict a wrapper whose native      *)
(* function does not call back shares errno with nobody, and the two whose *)
(* native functions do call back do not need errno to be what they left.   *)
(***************************************************************************)
EXTENDS WrapperCall, SequenceTheorems, TLAPS

(* Only calls whose native function calls back have calls inside them.     *)
WellNested ==
  \A i \in 1 .. Len(calls) - 1 :
    calls[i].op \in CallsBack /\ calls[i].phase = "native"

(* Nobody has touched errno since the wrapper reset it.                    *)
ErrnoFresh == In("native") /\ Innermost(calls).op \notin CallsBack => errno = 0

(* What the wrapper will raise is what the native function meant.          *)
IsRight(raised, meant, reason) ==
  /\ raised \in Codes \cup {None}
  /\ raised # None <=> meant = "fail"
  /\ meant # "fail" => reason = None
  /\ reason # None => raised = reason

VerdictIsRight ==
  In("answered") =>
    LET c == Innermost(calls)
    IN IsRight(Raised(c.op, c.value, errno), c.meant, c.reason)

CallInv == TypeOK /\ WellNested /\ ErrnoFresh /\ VerdictIsRight /\ NothingStale

-----------------------------------------------------------------------------
(* The classes do not overlap, and the two with callbacks do not decide by *)
(* an errno that may be 0.                                                 *)
LEMMA Classes ==
  /\ Strict \cap Ambiguous = {} /\ Strict \cap Defaulted = {}
  /\ Strict \cap Coded = {} /\ Strict \cap Infallible = {}
  /\ Ambiguous \cap Defaulted = {} /\ Ambiguous \cap Coded = {}
  /\ Ambiguous \cap Infallible = {}
  /\ Defaulted \cap Coded = {} /\ Defaulted \cap Infallible = {}
  /\ Coded \cap Infallible = {}
  /\ CallsBack \subseteq Strict \cup Coded
BY DEF Strict, Ambiguous, Defaulted, Coded, Infallible, CallsBack, UnistdOwners,
       UnistdLinks, UnistdReads, UnistdNames, StatModes, StatNodes, StatTimes, Statvfs,
       Temporaries, Realpath, Streams, Opening, Scandir, DescriptorLimits, PathLimits, StreamOfFd,
       NextEntry, Position, PathParts, Fnmatch, Glob, Comparison, Rewind, Seek, FileMask,
       Sync, Release

(* What a wrapper raises, class by class.                                  *)
LEMMA RaisedIs ==
  ASSUME NEW op, NEW value, NEW code
  PROVE  /\ op \in Strict => Raised(op, value, code) = StrictCode(value, code)
         /\ op \in Ambiguous => Raised(op, value, code) = AmbiguousCode(value, code)
         /\ op \in Defaulted => Raised(op, value, code) = DefaultedCode(value, code)
         /\ op \in Coded => Raised(op, value, code) = SystemCode(value)
         /\ op \in Infallible => Raised(op, value, code) = None
BY Classes DEF Raised

-----------------------------------------------------------------------------
(* The three ways the stack of calls changes, pointwise.                   *)
LEMMA StackFacts ==
  ASSUME NEW F, NEW s \in Seq(F)
  PROVE  /\ Len(s) \in Nat /\ DOMAIN s = 1 .. Len(s)
         /\ \A i \in 1 .. Len(s) : s[i] \in F
         /\ s # << >> => Len(s) \in Nat \ {0} /\ Innermost(s) \in F
         /\ s = << >> => Len(s) = 0
BY LenProperties, ElementOfSeq, EmptySeq DEF Innermost

LEMMA PushFacts ==
  ASSUME NEW F, NEW s \in Seq(F), NEW c \in F
  PROVE  /\ Append(s, c) \in Seq(F) /\ Len(Append(s, c)) = Len(s) + 1
         /\ \A i \in 1 .. Len(s) : Append(s, c)[i] = s[i]
         /\ Append(s, c) # << >> /\ Innermost(Append(s, c)) = c
<1>1. /\ Append(s, c) \in Seq(F) /\ Len(Append(s, c)) = Len(s) + 1
      /\ \A i \in 1 .. Len(s) : Append(s, c)[i] = s[i]
      /\ Append(s, c)[Len(s) + 1] = c
  BY AppendProperties
<1>2. Append(s, c) # << >>
  BY <1>1, StackFacts
<1> QED
  BY <1>1, <1>2 DEF Innermost

Poke(s, c) == [s EXCEPT ![Len(s)] = c]

LEMMA PokeFacts ==
  ASSUME NEW F, NEW s \in Seq(F), s # << >>, NEW c \in F
  PROVE  /\ Poke(s, c) \in Seq(F) /\ Len(Poke(s, c)) = Len(s)
         /\ \A i \in 1 .. Len(s) - 1 : Poke(s, c)[i] = s[i]
         /\ Poke(s, c) # << >> /\ Innermost(Poke(s, c)) = c
<1>1. Len(s) \in Nat \ {0} /\ Len(s) \in 1 .. Len(s)
  BY StackFacts
<1> DEFINE r == Poke(s, c)
<1>2. /\ r \in Seq(F) /\ Len(r) = Len(s)
      /\ \A i \in 1 .. Len(s) : r[i] = IF i = Len(s) THEN c ELSE s[i]
  BY <1>1, ExceptSeq DEF Poke
<1> HIDE DEF r
<1>3. r # << >>
  BY <1>1, <1>2, StackFacts
<1>4. r[Len(r)] = c
  BY <1>1, <1>2
<1>5. \A i \in 1 .. Len(s) - 1 : i \in 1 .. Len(s) /\ i # Len(s)
  BY <1>1
<1>6. \A i \in 1 .. Len(s) - 1 : r[i] = s[i]
  BY <1>2, <1>5
<1>7. Innermost(r) = c
  BY <1>4 DEF Innermost
<1> QED
  BY <1>2, <1>3, <1>6, <1>7 DEF r

LEMMA PopFacts ==
  ASSUME NEW F, NEW s \in Seq(F), s # << >>
  PROVE  /\ Pop(s) \in Seq(F) /\ Len(Pop(s)) = Len(s) - 1
         /\ \A i \in 1 .. Len(s) - 1 : Pop(s)[i] = s[i]
         /\ Pop(s) # << >> => /\ Len(s) - 1 \in 1 .. Len(s) - 1
                              /\ Innermost(Pop(s)) = s[Len(s) - 1]
<1>1. Len(s) \in Nat \ {0} /\ \A i \in 1 .. Len(s) : s[i] \in F
  BY StackFacts
<1> DEFINE d == Len(s) - 1
           r == Pop(s)
<1>2. d \in Nat /\ d <= Len(s) /\ \A i \in 1 .. d : s[i] \in F
  BY <1>1
<1>3. r = SubSeq(s, 1, d)
  BY DEF Pop
<1> HIDE DEF d, r
<1>4. (IF 1 <= d THEN d - 1 + 1 ELSE 0) = d /\ d - 1 + 1 = d
      /\ \A i \in 1 .. d : 1 + i - 1 = i
  BY <1>2
<1>5. r \in Seq(F) /\ Len(r) = d /\ \A i \in 1 .. d : r[i] = s[i]
  <2>1. /\ r \in Seq(F)
        /\ Len(r) = IF 1 <= d THEN d - 1 + 1 ELSE 0
        /\ \A i \in 1 .. d - 1 + 1 : r[i] = s[1 + i - 1]
    BY <1>2, <1>3, SubSeqProperties
  <2> QED
    BY <1>4, <2>1
<1>6. r # << >> => d \in 1 .. d
  BY <1>2, <1>5, StackFacts
<1>7. r # << >> => Innermost(r) = s[d]
  BY <1>5, <1>6 DEF Innermost
<1> QED
  BY <1>5, <1>6, <1>7 DEF d, r

-----------------------------------------------------------------------------
LEMMA InitInv == Init => CallInv
<1> SUFFICES ASSUME Init
             PROVE  CallInv
  OBVIOUS
<1>1. calls = << >> /\ calls \in Seq(Call) /\ Len(calls) = 0
  BY EmptySeq DEF Init
<1>2. TypeOK /\ NothingStale
  BY <1>1 DEF Init, TypeOK, NothingStale, Meanings
<1>3. WellNested /\ ErrnoFresh /\ VerdictIsRight
  BY <1>1 DEF WellNested, ErrnoFresh, VerdictIsRight, In
<1> QED
  BY <1>2, <1>3 DEF CallInv

(* A call is entered from application code: outside all others or in a     *)
(* callback of the innermost.                                              *)
LEMMA EnterInv ==
  ASSUME CallInv, NEW op \in Ops, Enter(op)
  PROVE  CallInv'
<1> DEFINE c == [op |-> op, phase |-> "entered", value |-> "good",
                 meant |-> "ok", reason |-> None]
<1>1. /\ InApplication /\ calls' = Append(calls, c) /\ errno' = errno
      /\ outcome' = outcome
  BY DEF Enter
<1>2. c \in Call /\ c.phase = "entered"
  BY DEF Call, Phases, Values, Meanings
<1> HIDE DEF c
<1>3. calls \in Seq(Call) /\ Len(calls) \in Nat
  BY StackFacts DEF CallInv, TypeOK
<1>4. /\ calls' \in Seq(Call) /\ Len(calls') = Len(calls) + 1
      /\ \A i \in 1 .. Len(calls) : calls'[i] = calls[i]
      /\ Innermost(calls') = c
  BY <1>1, <1>2, <1>3, PushFacts
<1>5. WellNested'
  <2> SUFFICES ASSUME NEW i \in 1 .. Len(calls') - 1
               PROVE  calls'[i].op \in CallsBack /\ calls'[i].phase = "native"
    BY DEF WellNested
  <2>1. i \in 1 .. Len(calls) /\ calls'[i] = calls[i]
    BY <1>3, <1>4
  <2>2. CASE i = Len(calls)
    <3>1. calls # << >>
      BY <2>1, <2>2, EmptySeq
    <3> QED
      BY <1>1, <2>1, <2>2, <3>1 DEF InApplication, Innermost
  <2>3. CASE i # Len(calls)
    <3>1. i \in 1 .. Len(calls) - 1
      BY <1>3, <2>1, <2>3
    <3> QED
      BY <2>1, <3>1 DEF CallInv, WellNested
  <2> QED
    BY <2>2, <2>3
<1>6. ErrnoFresh' /\ VerdictIsRight'
  BY <1>2, <1>4 DEF ErrnoFresh, VerdictIsRight, In
<1> QED
  BY <1>1, <1>4, <1>5, <1>6 DEF CallInv, TypeOK, NothingStale

LEMMA ClobberInv == CallInv /\ Clobber => CallInv'
<1> SUFFICES ASSUME CallInv, Clobber
             PROVE  CallInv'
  OBVIOUS
<1>1. /\ InApplication \/ In("entered")
      /\ errno' \in Codes \cup {0} /\ calls' = calls /\ outcome' = outcome
  BY DEF Clobber
<1>2. ErrnoFresh' /\ VerdictIsRight'
  BY <1>1 DEF ErrnoFresh, VerdictIsRight, In, InApplication
<1> QED
  BY <1>1, <1>2 DEF CallInv, TypeOK, WellNested, NothingStale

(* When a call ends, the one around it goes on in its native function.     *)
LEMMA PopInv ==
  ASSUME CallInv, calls # << >>, calls' = Pop(calls), errno' \in Codes \cup {0},
         outcome' \in [raised : Codes \cup {None}, cause : Meanings \cup {"injected"},
                       reason : Codes \cup {None}],
         NothingStale'
  PROVE  CallInv'
<1>1. calls \in Seq(Call) /\ Len(calls) \in Nat \ {0}
  BY StackFacts DEF CallInv, TypeOK
<1>2. /\ calls' \in Seq(Call) /\ Len(calls') = Len(calls) - 1
      /\ \A i \in 1 .. Len(calls) - 1 : calls'[i] = calls[i]
      /\ calls' # << >> => /\ Len(calls) - 1 \in 1 .. Len(calls) - 1
                           /\ Innermost(calls') = calls[Len(calls) - 1]
  BY <1>1, PopFacts
<1>3. TypeOK'
  BY <1>2 DEF TypeOK
<1>4. WellNested'
  <2> SUFFICES ASSUME NEW i \in 1 .. Len(calls') - 1
               PROVE  calls'[i].op \in CallsBack /\ calls'[i].phase = "native"
    BY DEF WellNested
  <2>1. i \in 1 .. Len(calls) - 1
    BY <1>1, <1>2
  <2> QED
    BY <1>2, <2>1 DEF CallInv, WellNested
<1>5. calls' # << >> => /\ Innermost(calls').op \in CallsBack
                        /\ Innermost(calls').phase = "native"
  BY <1>2 DEF CallInv, WellNested
<1>6. ErrnoFresh' /\ VerdictIsRight'
  BY <1>5 DEF ErrnoFresh, VerdictIsRight, In
<1> QED
  BY <1>3, <1>4, <1>6 DEF CallInv

LEMMA FaultInv == CallInv /\ Fault => CallInv'
<1> SUFFICES ASSUME CallInv, Fault
             PROVE  CallInv'
  OBVIOUS
<1>1. PICK code \in Codes : End(code, "injected", code)
  BY DEF Fault
<1>2. /\ calls # << >> /\ calls' = Pop(calls) /\ errno' = errno
      /\ outcome' = [raised |-> code, cause |-> "injected", reason |-> code]
  BY <1>1 DEF Fault, In, End
<1>3. code # None
  BY OpsAssumption DEF OpsAssumption
<1>4. NothingStale'
  BY <1>2, <1>3 DEF NothingStale
<1> QED
  BY <1>2, <1>4, PopInv DEF CallInv, TypeOK

LEMMA ReturnInv == CallInv /\ Return => CallInv'
<1> SUFFICES ASSUME CallInv, Return
             PROVE  CallInv'
  OBVIOUS
<1> DEFINE c == Innermost(calls)
           raised == Raised(c.op, c.value, errno)
<1>1. /\ calls # << >> /\ c.phase = "answered" /\ calls' = Pop(calls) /\ errno' = errno
      /\ outcome' = [raised |-> raised, cause |-> c.meant, reason |-> c.reason]
  BY DEF Return, In, End
<1>2. IsRight(raised, c.meant, c.reason)
  BY <1>1 DEF CallInv, VerdictIsRight, In
<1>3. c.meant \in Meanings /\ c.reason \in Codes \cup {None}
  <2>1. c \in Call
    BY <1>1, StackFacts DEF CallInv, TypeOK
  <2> QED
    BY <2>1 DEF Call
<1> HIDE DEF c, raised
<1>4. NothingStale'
  BY <1>1, <1>2, <1>3 DEF NothingStale, IsRight, Meanings
<1> QED
  BY <1>1, <1>2, <1>3, <1>4, PopInv DEF CallInv, TypeOK, IsRight

-----------------------------------------------------------------------------
(* The innermost call goes on.                                             *)
LEMMA ChangeInv ==
  ASSUME CallInv, calls # << >>, NEW c \in Call, Change(c), UNCHANGED outcome,
         errno' \in Codes \cup {0},
         c.phase = "native" /\ c.op \notin CallsBack => errno' = 0,
         c.phase = "answered" =>
           IsRight(Raised(c.op, c.value, errno'), c.meant, c.reason)
  PROVE  CallInv'
<1>1. calls \in Seq(Call) /\ calls' = Poke(calls, c)
  BY DEF CallInv, TypeOK, Change, Poke
<1>2. /\ calls' \in Seq(Call) /\ Len(calls') = Len(calls)
      /\ \A i \in 1 .. Len(calls) - 1 : calls'[i] = calls[i]
      /\ Innermost(calls') = c
  BY <1>1, PokeFacts
<1>3. WellNested'
  BY <1>2 DEF CallInv, WellNested
<1>4. ErrnoFresh' /\ VerdictIsRight'
  BY <1>2 DEF ErrnoFresh, VerdictIsRight, In
<1> QED
  BY <1>2, <1>3, <1>4 DEF CallInv, TypeOK, NothingStale

LEMMA ResetErrnoInv == CallInv /\ ResetErrno => CallInv'
<1> SUFFICES ASSUME CallInv, ResetErrno
             PROVE  CallInv'
  OBVIOUS
<1> DEFINE c == [Innermost(calls) EXCEPT !.phase = "native"]
<1>1. calls # << >> /\ Change(c) /\ UNCHANGED outcome /\ errno' = 0
  BY DEF ResetErrno, In
<1>2. Innermost(calls) \in Call
  BY <1>1, StackFacts DEF CallInv, TypeOK
<1>3. c \in Call /\ c.phase = "native"
  BY <1>2 DEF Call, Phases
<1> HIDE DEF c
<1> QED
  BY <1>1, <1>3, ChangeInv

(* What the call becomes when its native function answers.                 *)
LEMMA AnsweredFacts ==
  ASSUME CallInv, In("native"), NEW value \in Values, NEW meant \in Meanings,
         NEW reason \in Codes \cup {None}, Answered(value, meant, reason)
  PROVE  \E c \in Call :
           /\ Change(c) /\ c.phase = "answered" /\ c.op = Innermost(calls).op
           /\ c.value = value /\ c.meant = meant /\ c.reason = reason
<1>1. Innermost(calls) \in Call
  BY StackFacts DEF CallInv, TypeOK, In
<1> DEFINE c == [Innermost(calls) EXCEPT !.phase = "answered", !.value = value,
                                         !.meant = meant, !.reason = reason]
<1>2. /\ c \in Call /\ c.phase = "answered" /\ c.op = Innermost(calls).op
      /\ c.value = value /\ c.meant = meant /\ c.reason = reason
  BY <1>1 DEF Call, Phases
<1>3. Change(c)
  BY DEF Answered
<1> QED
  BY <1>2, <1>3

(* Whatever the native function answers, the wrapper will raise what it    *)
(* meant; the function has kept to what it can mean.                       *)
LEMMA NativeFacts ==
  ASSUME CallInv, NativeSucceeds \/ NativeFails \/ NativeHasNothing
  PROVE  \E value \in Values, meant \in Meanings, reason \in Codes \cup {None} :
           /\ Answered(value, meant, reason)
           /\ In("native") /\ UNCHANGED outcome /\ errno' \in Codes \cup {0}
           /\ IsRight(Raised(Innermost(calls).op, value, errno'), meant, reason)
           /\ meant \in CanMean(Innermost(calls).op)
           /\ meant = "fail" => reason # None \/ Innermost(calls).op \in Defaulted
<1> DEFINE op == Innermost(calls).op
<1>1. /\ In("native") /\ UNCHANGED outcome /\ errno \in Codes \cup {0}
  BY DEF NativeSucceeds, NativeFails, NativeHasNothing, CallInv, TypeOK
<1>2. op \in Ops
  <2>1. Innermost(calls) \in Call
    BY <1>1, StackFacts DEF CallInv, TypeOK, In
  <2> QED
    BY <2>1 DEF Call
<1>3. op \in Ambiguous \cup Defaulted => errno = 0
  BY <1>1, Classes DEF CallInv, ErrnoFresh
<1>4. /\ 0 \notin Codes /\ None \notin Codes /\ None # 0 /\ EIO \in Codes
      /\ "bad" \notin Codes /\ "good" \notin Codes /\ "nomatch" \notin Codes
  BY OpsAssumption DEF OpsAssumption
<1>5. /\ Codes \subseteq Values /\ {"good", "bad", "nomatch"} \subseteq Values
      /\ {"ok", "fail", "nothing"} \subseteq Meanings
  BY DEF Values, Meanings
<1> HIDE DEF op
<1> DEFINE Claim(value, meant, reason) ==
             /\ IsRight(Raised(op, value, errno'), meant, reason)
             /\ meant \in CanMean(op)
             /\ meant = "fail" => reason # None \/ op \in Defaulted
<1>6. CASE NativeSucceeds
  <2>1. Answered("good", "ok", None) /\ errno' \in Codes \cup {0}
    BY <1>1, <1>6 DEF NativeSucceeds
  <2>2. Raised(op, "good", errno') = None
    BY <1>2, <1>4, RaisedIs
       DEF Ops, StrictCode, AmbiguousCode, DefaultedCode, SystemCode
  <2>3. Claim("good", "ok", None)
    BY <2>2 DEF IsRight, CanMean
  <2> QED
    BY <1>1, <1>5, <2>1, <2>3 DEF op
<1>7. CASE NativeFails
  <2>1. CASE /\ op \in Strict \cup Ambiguous \cup Defaulted
             /\ \E code \in Codes : Answered("bad", "fail", code) /\ errno' = code
    <3>1. PICK code \in Codes : Answered("bad", "fail", code) /\ errno' = code
      BY <2>1
    <3>2. Raised(op, "bad", code) = code
      BY <1>4, <2>1, RaisedIs DEF StrictCode, AmbiguousCode, DefaultedCode
    <3>3. op \notin Infallible
      BY <2>1, Classes
    <3>4. Claim("bad", "fail", code)
      BY <1>4, <3>1, <3>2, <3>3 DEF IsRight, CanMean
    <3> QED
      BY <1>1, <1>5, <3>1, <3>4 DEF op
  <2>2. CASE op \in Defaulted /\ Answered("bad", "fail", None) /\ UNCHANGED errno
    <3>1. Raised(op, "bad", errno') = EIO
      BY <1>3, <2>2, RaisedIs DEF DefaultedCode, StrictCode
    <3>2. op \notin Infallible
      BY <2>2, Classes
    <3>3. Claim("bad", "fail", None)
      BY <1>4, <2>2, <3>1, <3>2 DEF IsRight, CanMean
    <3> QED
      BY <1>1, <1>5, <2>2, <3>3 DEF op
  <2>3. CASE /\ op \in Coded
             /\ \E code \in Codes : Answered(code, "fail", code)
             /\ errno' \in {errno} \cup Codes
    <3>1. PICK code \in Codes : Answered(code, "fail", code)
      BY <2>3
    <3>2. Raised(op, code, errno') = code
      BY <1>4, <2>3, RaisedIs DEF SystemCode
    <3>3. op \notin Infallible
      BY <2>3, Classes
    <3>4. Claim(code, "fail", code)
      BY <1>4, <3>1, <3>2, <3>3 DEF IsRight, CanMean
    <3> QED
      BY <1>1, <1>5, <2>3, <3>1, <3>4 DEF op
  <2> QED
    BY <1>7, <2>1, <2>2, <2>3 DEF NativeFails, op
<1>8. CASE NativeHasNothing
  <2>1. CASE op \in Ambiguous /\ Answered("bad", "nothing", None) /\ UNCHANGED errno
    <3>1. Raised(op, "bad", errno') = None
      BY <1>3, <2>1, RaisedIs DEF AmbiguousCode
    <3>2. Claim("bad", "nothing", None)
      BY <2>1, <3>1 DEF IsRight, CanMean
    <3> QED
      BY <1>1, <1>5, <2>1, <3>2 DEF op
  <2>2. CASE /\ op \in Coded
             /\ Answered("nomatch", "nothing", None)
             /\ errno' \in {errno} \cup Codes
    <3>1. Raised(op, "nomatch", errno') = None
      BY <2>2, RaisedIs DEF SystemCode
    <3>2. Claim("nomatch", "nothing", None)
      BY <2>2, <3>1 DEF IsRight, CanMean
    <3> QED
      BY <1>1, <1>5, <2>2, <3>2 DEF op
  <2> QED
    BY <1>8, <2>1, <2>2 DEF NativeHasNothing, op
<1> QED
  BY <1>6, <1>7, <1>8

LEMMA NativeInv ==
  CallInv /\ (NativeSucceeds \/ NativeFails \/ NativeHasNothing) => CallInv'
<1> SUFFICES ASSUME CallInv, NativeSucceeds \/ NativeFails \/ NativeHasNothing
             PROVE  CallInv'
  OBVIOUS
<1>1. PICK value \in Values, meant \in Meanings, reason \in Codes \cup {None} :
        /\ Answered(value, meant, reason)
        /\ In("native") /\ UNCHANGED outcome /\ errno' \in Codes \cup {0}
        /\ IsRight(Raised(Innermost(calls).op, value, errno'), meant, reason)
  BY NativeFacts
<1>2. PICK c \in Call :
        /\ Change(c) /\ c.phase = "answered" /\ c.op = Innermost(calls).op
        /\ c.value = value /\ c.meant = meant /\ c.reason = reason
  BY <1>1, AnsweredFacts
<1>3. calls # << >>
  BY <1>1 DEF In
<1>4. IsRight(Raised(c.op, c.value, errno'), c.meant, c.reason) /\ c.phase # "native"
  BY <1>1, <1>2
<1> QED
  BY <1>1, <1>2, <1>3, <1>4, ChangeInv

LEMMA NextInv == CallInv /\ [Next]_vars => CallInv'
<1> SUFFICES ASSUME CallInv, [Next]_vars
             PROVE  CallInv'
  OBVIOUS
<1>1. CASE UNCHANGED vars
  BY <1>1 DEF vars, CallInv, TypeOK, WellNested, ErrnoFresh, VerdictIsRight, NothingStale, In
<1>2. ASSUME NEW op \in Ops, Enter(op) PROVE CallInv'
  BY <1>2, EnterInv
<1> QED
  BY <1>1, <1>2, ClobberInv, FaultInv, ResetErrnoInv, NativeInv, ReturnInv DEF Next

-----------------------------------------------------------------------------
(* How each step of a call changes the height of the stack.                *)
LEMMA EnterIsHigher ==
  ASSUME CallInv, NEW op \in Ops, Enter(op)
  PROVE  Len(calls') = Len(calls) + 1
<1> DEFINE c == [op |-> op, phase |-> "entered", value |-> "good",
                 meant |-> "ok", reason |-> None]
<1>1. calls \in Seq(Call) /\ calls' = Append(calls, c)
  BY DEF CallInv, TypeOK, Enter
<1>2. c \in Call
  BY DEF Call, Phases, Values, Meanings
<1> HIDE DEF c
<1> QED
  BY <1>1, <1>2, PushFacts

LEMMA StepIsLevel ==
  ASSUME CallInv, ResetErrno \/ NativeSucceeds \/ NativeFails \/ NativeHasNothing
  PROVE  Len(calls') = Len(calls)
<1>1. \E c : calls' = Poke(calls, c)
  BY DEF ResetErrno, NativeSucceeds, NativeFails, NativeHasNothing, Answered, Change,
         Poke
<1>2. calls \in Seq(Call)
  BY DEF CallInv, TypeOK
<1>3. \A c : Len(Poke(calls, c)) = Len(calls)
  BY <1>2, StackFacts DEF Poke
<1> QED
  BY <1>1, <1>3

(* The call below an ended one is in its native function, which has called *)
(* back.                                                                   *)
LEMMA EndIsLower ==
  ASSUME CallInv, Fault \/ Return
  PROVE  Len(calls') = Len(calls) - 1 /\ InApplication'
<1>1. calls # << >> /\ calls' = Pop(calls) /\ calls \in Seq(Call)
  BY DEF CallInv, TypeOK, Fault, Return, In, End
<1>2. /\ Len(calls') = Len(calls) - 1
      /\ calls' # << >> => /\ Len(calls) - 1 \in 1 .. Len(calls) - 1
                           /\ Innermost(calls') = calls[Len(calls) - 1]
  BY <1>1, PopFacts
<1> QED
  BY <1>2 DEF CallInv, WellNested, InApplication

-----------------------------------------------------------------------------
(* The inductive invariant.                                                *)
THEOREM CallsHold == Spec => []CallInv
<1> QED
  BY InitInv, NextInv, PTL DEF Spec

(* Every call's locals, errno and outcome have their types: in particular  *)
(* no wrapper raises the code 0.                                           *)
THEOREM TypeCorrect == Spec => []TypeOK
<1>1. CallInv => TypeOK
  BY DEF CallInv
<1> QED
  BY <1>1, CallsHold, PTL

(* A wrapper raises an error exactly for an injected fault or a failure of *)
(* its native function, and with that failure's reason, whatever else has  *)
(* been in errno meanwhile (dirent.c, glob.c, stdio.c:38-52, unistd.c).    *)
THEOREM NothingIsEverStale == Spec => []NothingStale
<1>1. CallInv => NothingStale
  BY DEF CallInv
<1> QED
  BY <1>1, CallsHold, PTL

-----------------------------------------------------------------------------
(* The wrappers implement CallContract: the contract's calls are the calls *)
(* without the native values, and forgetting these commutes with each of   *)
(* the three ways the stack of calls changes.                              *)
View(s) == [i \in DOMAIN s |-> Abstract(s[i])]

Viewed == [op : Ops, meant : Meanings, reason : Codes \cup {None},
           phase : {"begun", "native", "answered"}]

LEMMA AbstractFacts ==
  ASSUME NEW c \in Call
  PROVE  /\ Abstract(c) \in Viewed
         /\ Abstract(c).op = c.op /\ Abstract(c).meant = c.meant
         /\ Abstract(c).reason = c.reason
         /\ Abstract(c).phase = IF c.phase = "entered" THEN "begun" ELSE c.phase
BY DEF Abstract, Viewed, Call, Phases

LEMMA ViewFacts ==
  ASSUME NEW s \in Seq(Call)
  PROVE  /\ View(s) \in Seq(Viewed) /\ Len(View(s)) = Len(s)
         /\ \A i \in 1 .. Len(s) : View(s)[i] = Abstract(s[i])
         /\ s # << >> <=> View(s) # << >>
         /\ s # << >> => Innermost(View(s)) = Abstract(Innermost(s))
<1>1. /\ Len(s) \in Nat /\ DOMAIN s = 1 .. Len(s) /\ \A i \in 1 .. Len(s) : s[i] \in Call
  BY StackFacts
<1>2. View(s) = [i \in 1 .. Len(s) |-> Abstract(s[i])]
  BY <1>1 DEF View
<1>3. View(s) \in [1 .. Len(s) -> Viewed]
  BY <1>1, <1>2, AbstractFacts
<1>4. View(s) \in Seq(Viewed)
  BY <1>1, <1>3, SeqDef
<1>5. Len(View(s)) = Len(s)
  <2>1. DOMAIN View(s) = 1 .. Len(s)
    BY <1>3
  <2>2. Len(View(s)) \in Nat /\ DOMAIN View(s) = 1 .. Len(View(s))
    BY <1>4, LenProperties
  <2> QED
    BY <1>1, <2>1, <2>2
<1>6. s # << >> <=> View(s) # << >>
  BY <1>1, <1>4, <1>5, EmptySeq
<1>7. s # << >> => Innermost(View(s)) = Abstract(Innermost(s))
  <2>1. s # << >> => Len(s) \in 1 .. Len(s)
    BY StackFacts
  <2> QED
    BY <1>2, <1>5, <2>1 DEF Innermost
<1> QED
  BY <1>2, <1>4, <1>5, <1>6, <1>7

(* Two views are equal if they agree call by call.                         *)
LEMMA ViewsEqual ==
  ASSUME NEW s \in Seq(Call), NEW v \in Seq(Viewed), Len(v) = Len(s),
         \A i \in 1 .. Len(s) : v[i] = Abstract(s[i])
  PROVE  v = View(s)
BY ViewFacts, SeqEqual

LEMMA ViewPush ==
  ASSUME NEW s \in Seq(Call), NEW c \in Call
  PROVE  View(Append(s, c)) = Append(View(s), Abstract(c))
<1> DEFINE v == Append(View(s), Abstract(c))
           r == Append(s, c)
<1>1. /\ View(s) \in Seq(Viewed) /\ Len(View(s)) = Len(s) /\ Len(s) \in Nat
      /\ \A i \in 1 .. Len(s) : View(s)[i] = Abstract(s[i])
      /\ Abstract(c) \in Viewed
  BY ViewFacts, StackFacts, AbstractFacts
<1>2. /\ v \in Seq(Viewed) /\ Len(v) = Len(s) + 1
      /\ \A i \in 1 .. Len(s) : v[i] = View(s)[i]
      /\ v[Len(s) + 1] = Abstract(c)
  BY <1>1, AppendProperties
<1>3. /\ r \in Seq(Call) /\ Len(r) = Len(s) + 1
      /\ \A i \in 1 .. Len(s) : r[i] = s[i]
      /\ r[Len(s) + 1] = c
  BY AppendProperties
<1> HIDE DEF v, r
<1>4. \A i \in 1 .. Len(s) + 1 : v[i] = Abstract(r[i])
  BY <1>1, <1>2, <1>3
<1>5. v = View(r)
  BY <1>2, <1>3, <1>4, ViewsEqual
<1> QED
  BY <1>5 DEF v, r

LEMMA ViewPoke ==
  ASSUME NEW s \in Seq(Call), s # << >>, NEW c \in Call
  PROVE  View(Poke(s, c)) = Poke(View(s), Abstract(c))
<1> DEFINE v == Poke(View(s), Abstract(c))
           r == Poke(s, c)
<1>1. /\ View(s) \in Seq(Viewed) /\ Len(View(s)) = Len(s) /\ Len(s) \in Nat \ {0}
      /\ \A i \in 1 .. Len(s) : View(s)[i] = Abstract(s[i])
      /\ Abstract(c) \in Viewed /\ View(s) # << >>
  BY ViewFacts, StackFacts, AbstractFacts
<1>2. /\ v \in Seq(Viewed) /\ Len(v) = Len(s)
      /\ \A i \in 1 .. Len(s) - 1 : v[i] = View(s)[i]
      /\ v[Len(s)] = Abstract(c)
  <2>1. /\ v \in Seq(Viewed) /\ Len(v) = Len(View(s)) /\ Innermost(v) = Abstract(c)
        /\ \A i \in 1 .. Len(View(s)) - 1 : v[i] = View(s)[i]
    BY <1>1, PokeFacts
  <2> HIDE DEF v
  <2> QED
    BY <1>1, <2>1 DEF Innermost
<1>3. /\ r \in Seq(Call) /\ Len(r) = Len(s)
      /\ \A i \in 1 .. Len(s) - 1 : r[i] = s[i]
      /\ r[Len(s)] = c
  <2>1. /\ r \in Seq(Call) /\ Len(r) = Len(s) /\ Innermost(r) = c
        /\ \A i \in 1 .. Len(s) - 1 : r[i] = s[i]
    BY PokeFacts
  <2> HIDE DEF r
  <2> QED
    BY <2>1 DEF Innermost
<1> HIDE DEF v, r
<1>4. \A i \in 1 .. Len(s) : v[i] = Abstract(r[i])
  <2> SUFFICES ASSUME NEW i \in 1 .. Len(s)
               PROVE  v[i] = Abstract(r[i])
    OBVIOUS
  <2>1. i = Len(s) \/ i \in 1 .. Len(s) - 1
    BY <1>1
  <2> QED
    BY <1>1, <1>2, <1>3, <2>1
<1>5. v = View(r)
  BY <1>2, <1>3, <1>4, ViewsEqual
<1> QED
  BY <1>5 DEF v, r

LEMMA ViewPop ==
  ASSUME NEW s \in Seq(Call), s # << >>
  PROVE  View(Pop(s)) = Pop(View(s))
<1> DEFINE v == Pop(View(s))
           r == Pop(s)
<1>1. /\ View(s) \in Seq(Viewed) /\ Len(View(s)) = Len(s) /\ Len(s) \in Nat \ {0}
      /\ \A i \in 1 .. Len(s) : View(s)[i] = Abstract(s[i])
      /\ View(s) # << >>
  BY ViewFacts, StackFacts
<1>2. /\ v \in Seq(Viewed) /\ Len(v) = Len(s) - 1
      /\ \A i \in 1 .. Len(s) - 1 : v[i] = View(s)[i]
  BY <1>1, PopFacts
<1>3. /\ r \in Seq(Call) /\ Len(r) = Len(s) - 1
      /\ \A i \in 1 .. Len(s) - 1 : r[i] = s[i]
  BY PopFacts
<1> HIDE DEF v, r
<1>4. \A i \in 1 .. Len(r) : v[i] = Abstract(r[i])
  <2>1. \A i \in 1 .. Len(s) - 1 : i \in 1 .. Len(s)
    BY <1>1
  <2> QED
    BY <1>1, <1>2, <1>3, <2>1
<1>5. v = View(r)
  BY <1>2, <1>3, <1>4, ViewsEqual
<1> QED
  BY <1>5 DEF v, r

-----------------------------------------------------------------------------
(* The contract's vocabulary, read through the view.                       *)
LEMMA ContractWords ==
  ASSUME CallInv
  PROVE  /\ calls \in Seq(Call) /\ Len(View(calls)) = Len(calls)
         /\ calls # << >> <=> View(calls) # << >>
         /\ calls # << >> =>
              /\ Innermost(calls) \in Call
              /\ Innermost(View(calls)) = Abstract(Innermost(calls))
              /\ Abstract(Innermost(calls)).op = Innermost(calls).op
              /\ Abstract(Innermost(calls)).meant = Innermost(calls).meant
              /\ Abstract(Innermost(calls)).reason = Innermost(calls).reason
              /\ Abstract(Innermost(calls)).phase =
                   IF Innermost(calls).phase = "entered" THEN "begun"
                   ELSE Innermost(calls).phase
<1>1. calls \in Seq(Call)
  BY DEF CallInv, TypeOK
<1>2. calls # << >> => Innermost(calls) \in Call
  BY <1>1, StackFacts
<1> QED
  BY <1>1, <1>2, ViewFacts, AbstractFacts

LEMMA SameClasses ==
  /\ Contract!Ops = Ops /\ Contract!Infallible = Infallible
  /\ Contract!Defaulted = Defaulted /\ Contract!CallsBack = CallsBack
  /\ \A op : Contract!CanMean(op) = CanMean(op)
  /\ \A s : Contract!Innermost(s) = Innermost(s)
  /\ \A s : Contract!Pop(s) = Pop(s)
<1>1. /\ Contract!UnistdOwners = UnistdOwners /\ Contract!UnistdLinks = UnistdLinks
      /\ Contract!UnistdReads = UnistdReads /\ Contract!UnistdNames = UnistdNames
      /\ Contract!StatModes = StatModes /\ Contract!StatNodes = StatNodes
      /\ Contract!StatTimes = StatTimes /\ Contract!Statvfs = Statvfs
      /\ Contract!Temporaries = Temporaries /\ Contract!Realpath = Realpath
      /\ Contract!Streams = Streams /\ Contract!Opening = Opening
      /\ Contract!Scandir = Scandir
  BY DEF Contract!UnistdOwners, UnistdOwners, Contract!UnistdLinks, UnistdLinks,
         Contract!UnistdReads, UnistdReads, Contract!UnistdNames, UnistdNames,
         Contract!StatModes, StatModes, Contract!StatNodes, StatNodes,
         Contract!StatTimes, StatTimes, Contract!Statvfs, Statvfs,
         Contract!Temporaries, Temporaries, Contract!Realpath, Realpath,
         Contract!Streams, Streams, Contract!Opening, Opening, Contract!Scandir, Scandir
<1>2. /\ Contract!DescriptorLimits = DescriptorLimits /\ Contract!PathLimits = PathLimits
      /\ Contract!StreamOfFd = StreamOfFd /\ Contract!NextEntry = NextEntry
      /\ Contract!Position = Position /\ Contract!PathParts = PathParts
      /\ Contract!Defaulted = Defaulted /\ Contract!Fnmatch = Fnmatch
      /\ Contract!Glob = Glob
  BY DEF Contract!DescriptorLimits, DescriptorLimits, Contract!PathLimits, PathLimits,
         Contract!StreamOfFd, StreamOfFd, Contract!NextEntry, NextEntry,
         Contract!Position, Position, Contract!PathParts, PathParts,
         Contract!Defaulted, Defaulted, Contract!Fnmatch, Fnmatch, Contract!Glob, Glob
<1>3. /\ Contract!Comparison = Comparison /\ Contract!Rewind = Rewind
      /\ Contract!Seek = Seek /\ Contract!FileMask = FileMask
      /\ Contract!Sync = Sync /\ Contract!Release = Release
  BY DEF Contract!Comparison, Comparison, Contract!Rewind, Rewind, Contract!Seek, Seek,
         Contract!FileMask, FileMask, Contract!Sync, Sync, Contract!Release, Release
<1>4. /\ Contract!Strict = Strict /\ Contract!Ambiguous = Ambiguous
      /\ Contract!Coded = Coded /\ Contract!Infallible = Infallible
      /\ Contract!CallsBack = CallsBack
  BY <1>1, <1>2, <1>3
     DEF Contract!Strict, Strict, Contract!Ambiguous, Ambiguous, Contract!Coded, Coded,
         Contract!Infallible, Infallible, Contract!CallsBack, CallsBack
<1>5. Contract!Ops = Ops
  BY <1>2, <1>4 DEF Contract!Ops, Ops
<1>6. \A op : Contract!CanMean(op) = CanMean(op)
  BY <1>4 DEF Contract!CanMean, CanMean
<1>7. /\ \A s : Contract!Innermost(s) = Innermost(s)
      /\ \A s : Contract!Pop(s) = Pop(s)
  BY DEF Contract!Innermost, Innermost, Contract!Pop, Pop
<1> QED
  BY <1>2, <1>4, <1>5, <1>6, <1>7

-----------------------------------------------------------------------------
(* Each action is an action of the contract; a change of errno is none.    *)
LEMMA EnterMaps ==
  ASSUME CallInv, NEW op \in Ops, Enter(op)
  PROVE  Contract!Begin(op)
<1> DEFINE c == [op |-> op, phase |-> "entered", value |-> "good",
                 meant |-> "ok", reason |-> None]
           v == View(calls)
<1>1. /\ InApplication /\ Len(calls) < MaxDepth /\ calls' = Append(calls, c)
      /\ outcome' = outcome
  BY DEF Enter
<1>2. c \in Call
  BY DEF Call, Phases, Values, Meanings
<1>3. Abstract(c) = [op |-> op, phase |-> "begun", meant |-> "ok", reason |-> None]
  BY DEF Abstract
<1>4. v' = Append(v, [op |-> op, phase |-> "begun", meant |-> "ok", reason |-> None])
  <2>1. View(calls') = Append(View(calls), Abstract(c))
    <3> HIDE DEF c
    <3> QED
      BY <1>1, <1>2, ViewPush, ContractWords
  <2> QED
    BY <1>3, <2>1
<1>5. /\ Len(v) < MaxDepth
      /\ v # << >> => /\ Contract!Innermost(v).op \in Contract!CallsBack
                      /\ Contract!Innermost(v).phase = "native"
  BY <1>1, ContractWords, SameClasses DEF InApplication
<1> HIDE DEF c
<1> QED
  BY <1>1, <1>4, <1>5 DEF Contract!Begin, Contract!InApplication, View

LEMMA FaultMaps == CallInv /\ Fault => Contract!Refuse
<1> SUFFICES ASSUME CallInv, Fault
             PROVE  Contract!Refuse
  OBVIOUS
<1> DEFINE v == View(calls)
<1>1. PICK code \in Codes : End(code, "injected", code)
  BY DEF Fault
<1>2. /\ calls # << >> /\ Innermost(calls).phase = "entered"
      /\ Innermost(calls).op \notin Infallible
      /\ calls' = Pop(calls)
      /\ outcome' = [raised |-> code, cause |-> "injected", reason |-> code]
  BY <1>1 DEF Fault, In, End
<1>3. v' = Contract!Pop(v)
  BY <1>2, ViewPop, ContractWords, SameClasses
<1>4. /\ v # << >> /\ Contract!Innermost(v).phase = "begun"
      /\ Contract!Innermost(v).op \notin Contract!Infallible
  BY <1>2, ContractWords, SameClasses
<1> QED
  BY <1>2, <1>3, <1>4 DEF Contract!Refuse, Contract!End, View

LEMMA ResetErrnoMaps == CallInv /\ ResetErrno => Contract!GoNative
<1> SUFFICES ASSUME CallInv, ResetErrno
             PROVE  Contract!GoNative
  OBVIOUS
<1> DEFINE w == Innermost(calls)
           c == [w EXCEPT !.phase = "native"]
           v == View(calls)
           a == Abstract(w)
<1>1. /\ calls # << >> /\ w.phase = "entered" /\ calls' = Poke(calls, c)
      /\ outcome' = outcome
  BY DEF ResetErrno, In, Change, Poke
<1>2. w \in Call
  BY <1>1, ContractWords
<1>3. /\ c \in Call /\ c.op = w.op /\ c.meant = w.meant /\ c.reason = w.reason
      /\ c.phase = "native"
  BY <1>2 DEF Call, Phases
<1>4. a \in Viewed /\ a.op = w.op /\ a.meant = w.meant /\ a.reason = w.reason
      /\ a.phase = "begun"
  BY <1>1, <1>2, AbstractFacts
<1>5. Abstract(c) = [a EXCEPT !.phase = "native"]
  <2>1. Abstract(c) = [op |-> w.op, meant |-> w.meant, reason |-> w.reason,
                       phase |-> "native"]
    BY <1>3 DEF Abstract
  <2> HIDE DEF a, w, c
  <2> QED
    BY <1>4, <2>1 DEF Viewed
<1> HIDE DEF c
<1>6. v' = Poke(v, Abstract(c)) /\ v # << >> /\ Contract!Innermost(v) = a
  BY <1>1, <1>3, ViewPoke, ContractWords, SameClasses
<1> HIDE DEF a, w
<1>7. v' = [v EXCEPT ![Len(v)] = [Contract!Innermost(v) EXCEPT !.phase = "native"]]
  BY <1>5, <1>6 DEF Poke
<1>8. v # << >> /\ Contract!Innermost(v).phase = "begun"
  BY <1>4, <1>6
<1> QED
  BY <1>1, <1>7, <1>8 DEF Contract!GoNative, Contract!Change, View

(* The innermost call with its answer, field by field.                     *)
LEMMA AnswerRecord ==
  ASSUME NEW a \in Viewed, NEW m, NEW r
  PROVE  [a EXCEPT !.phase = "answered", !.meant = m, !.reason = r]
           = [op |-> a.op, meant |-> m, reason |-> r, phase |-> "answered"]
<1> DEFINE F == {"op", "meant", "reason", "phase"}
           x1 == [a EXCEPT !.phase = "answered"]
           x2 == [x1 EXCEPT !.meant = m]
           x3 == [x2 EXCEPT !.reason = r]
           y == [op |-> a.op, meant |-> m, reason |-> r, phase |-> "answered"]
<1>1. a = [k \in F |-> a[k]]
  BY DEF Viewed
<1>2. x1 = [k \in F |-> IF k = "phase" THEN "answered" ELSE a[k]]
  BY <1>1
<1> HIDE DEF x1
<1>3. x2 = [k \in F |-> IF k = "meant" THEN m ELSE x1[k]]
  BY <1>2
<1> HIDE DEF x2
<1>4. x3 = [k \in F |-> IF k = "reason" THEN r ELSE x2[k]]
  BY <1>3
<1> HIDE DEF x3
<1>5. /\ x3["op"] = a["op"]
      /\ x3["meant"] = m
      /\ x3["reason"] = r
      /\ x3["phase"] = "answered"
  BY <1>2, <1>3, <1>4
<1>6. y = [k \in F |-> y[k]]
  OBVIOUS
<1>7. \A k \in F : x3[k] = y[k]
  BY <1>5
<1>8. x3 = [k \in F |-> x3[k]]
  BY <1>4
<1> HIDE DEF y, F
<1>9. x3 = y
  BY <1>6, <1>7, <1>8
<1> QED
  BY <1>9 DEF x1, x2, x3, y

LEMMA NativeMaps ==
  CallInv /\ (NativeSucceeds \/ NativeFails \/ NativeHasNothing) => Contract!Answer
<1> SUFFICES ASSUME CallInv, NativeSucceeds \/ NativeFails \/ NativeHasNothing
             PROVE  Contract!Answer
  OBVIOUS
<1> DEFINE w == Innermost(calls)
           v == View(calls)
           a == Abstract(w)
<1>1. PICK value \in Values, meant \in Meanings, reason \in Codes \cup {None} :
        /\ Answered(value, meant, reason)
        /\ In("native") /\ UNCHANGED outcome /\ errno' \in Codes \cup {0}
        /\ IsRight(Raised(w.op, value, errno'), meant, reason)
        /\ meant \in CanMean(w.op)
        /\ meant = "fail" => reason # None \/ w.op \in Defaulted
  BY NativeFacts
<1>2. PICK c \in Call :
        /\ Change(c) /\ c.phase = "answered" /\ c.op = w.op
        /\ c.value = value /\ c.meant = meant /\ c.reason = reason
  BY <1>1, AnsweredFacts
<1>3. calls # << >> /\ w.phase = "native" /\ calls' = Poke(calls, c)
  BY <1>1, <1>2 DEF In, Change, Poke
<1>4. a \in Viewed /\ a.op = w.op /\ a.phase = "native"
  BY <1>3, ContractWords, AbstractFacts
<1>5. Abstract(c) = [a EXCEPT !.phase = "answered", !.meant = meant, !.reason = reason]
  <2>1. Abstract(c) = [op |-> a.op, meant |-> meant, reason |-> reason,
                       phase |-> "answered"]
    BY <1>2, <1>4 DEF Abstract
  <2> HIDE DEF a, w
  <2>2. [a EXCEPT !.phase = "answered", !.meant = meant, !.reason = reason]
          = [op |-> a.op, meant |-> meant, reason |-> reason, phase |-> "answered"]
    BY <1>4, AnswerRecord, Zenon
  <2> QED
    BY <2>1, <2>2, Zenon
<1>6. v' = Poke(v, Abstract(c)) /\ v # << >> /\ Contract!Innermost(v) = a
  BY <1>3, ViewPoke, ContractWords, SameClasses
<1> HIDE DEF a, w
<1>7. v' = [v EXCEPT ![Len(v)] =
              [Contract!Innermost(v) EXCEPT !.phase = "answered",
                                            !.meant = meant, !.reason = reason]]
  BY <1>5, <1>6 DEF Poke
<1>8. /\ v # << >> /\ Contract!Innermost(v).phase = "native"
      /\ meant \in Contract!CanMean(Contract!Innermost(v).op)
      /\ meant = "fail" => reason # None \/ Contract!Innermost(v).op \in Contract!Defaulted
      /\ meant # "fail" => reason = None
  BY <1>1, <1>4, <1>6, SameClasses DEF IsRight
<1> QED
  BY <1>1, <1>7, <1>8 DEF Contract!Answer, Contract!Change, View

LEMMA ReturnMaps == CallInv /\ Return => Contract!Conclude
<1> SUFFICES ASSUME CallInv, Return
             PROVE  Contract!Conclude
  OBVIOUS
<1> DEFINE w == Innermost(calls)
           v == View(calls)
           raised == Raised(w.op, w.value, errno)
<1>1. /\ calls # << >> /\ w.phase = "answered" /\ calls' = Pop(calls)
      /\ outcome' = [raised |-> raised, cause |-> w.meant, reason |-> w.reason]
  BY DEF Return, In, End
<1>2. IsRight(raised, w.meant, w.reason)
  BY <1>1 DEF CallInv, VerdictIsRight, In
<1>3. v' = Contract!Pop(v)
  BY <1>1, ViewPop, ContractWords, SameClasses
<1>4. /\ v # << >> /\ Contract!Innermost(v).phase = "answered"
      /\ Contract!Innermost(v).meant = w.meant /\ Contract!Innermost(v).reason = w.reason
  BY <1>1, ContractWords, SameClasses
<1> HIDE DEF w, raised
<1>5. /\ raised \in Codes \cup {None}
      /\ raised # None <=> Contract!Innermost(v).meant = "fail"
      /\ Contract!Innermost(v).reason # None => raised = Contract!Innermost(v).reason
      /\ outcome' = [raised |-> raised, cause |-> Contract!Innermost(v).meant,
                     reason |-> Contract!Innermost(v).reason]
  BY <1>1, <1>2, <1>4 DEF IsRight
<1> QED
  BY <1>3, <1>4, <1>5 DEF Contract!Conclude, Contract!End, View

LEMMA InitMaps == Init => Contract!Init
<1> SUFFICES ASSUME Init
             PROVE  Contract!Init
  OBVIOUS
<1>1. calls = << >> /\ calls \in Seq(Call)
  BY EmptySeq DEF Init
<1>2. View(calls) = << >>
  BY <1>1, ViewFacts
<1> QED
  BY <1>2 DEF Init, Contract!Init, View

LEMMA StepMaps == CallInv /\ [Next]_vars => [Contract!Next]_(Contract!contractVars)
<1> SUFFICES ASSUME CallInv, [Next]_vars
             PROVE  [Contract!Next]_(Contract!contractVars)
  OBVIOUS
<1>1. CASE UNCHANGED vars \/ Clobber
  BY <1>1 DEF vars, Clobber, Contract!contractVars, Abstract
<1>2. ASSUME NEW op \in Ops, Enter(op) PROVE Contract!Next
  BY <1>2, EnterMaps, SameClasses DEF Contract!Next
<1>3. CASE Fault
  BY <1>3, FaultMaps DEF Contract!Next
<1>4. CASE ResetErrno
  BY <1>4, ResetErrnoMaps DEF Contract!Next
<1>5. CASE NativeSucceeds \/ NativeFails \/ NativeHasNothing
  BY <1>5, NativeMaps DEF Contract!Next
<1>6. CASE Return
  BY <1>6, ReturnMaps DEF Contract!Next
<1> QED
  BY <1>1, <1>2, <1>3, <1>4, <1>5, <1>6 DEF Next

(* WrapperCall implements CallContract, where there is no errno to be      *)
(* stale, shared or clobbered: a call is refused before its native         *)
(* function runs, or raises that function's failure and no other.          *)
THEOREM CallsKeepTheContract == Spec => ContractSpec
<1> QED
  BY InitMaps, StepMaps, CallsHold, PTL DEF Spec, ContractSpec, Contract!Spec
=============================================================================

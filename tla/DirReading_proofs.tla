------------------------- MODULE DirReading_proofs -------------------------
(***************************************************************************)
(* Proofs about DirReading, for any streams, any length of the directories *)
(* and any set of errno values.                                            *)
(***************************************************************************)
EXTENDS DirReading, TLAPS

(* A loop that is over stopped at the end of its directory, and no loop    *)
(* has gone back behind its start.                                         *)
StoppedAtEnd ==
  \A s \in Streams : from[s] <= pos[s] /\ (s \notin reading => pos[s] = Length)

ReadingInv == TypeOK /\ NothingSkipped /\ StoppedAtEnd /\ ErrorIsItsOwn

LEMMA InitReadingInv == ReadingAssumption /\ Init => ReadingInv
BY DEF ReadingAssumption, Init, ReadingInv, TypeOK, Positions, NothingSkipped,
       StoppedAtEnd, ErrorIsItsOwn, Location

(* A call that answers an error moves nothing and is taken for one.        *)
LEMMA FailureKeepsReading ==
  ASSUME ReadingAssumption, ReadingInv, NEW s \in Streams,
         Refused(s) \/ ReaddirFails(s) \/ TelldirFails(s)
  PROVE  ReadingInv'
<1>1. /\ err' \in Codes /\ err' # None
      /\ errno' \in Codes \cup {0}
      /\ UNCHANGED <<pos, seen, from>>
      /\ verdict' = [verdict EXCEPT ![s] = "error"]
      /\ cause' = [cause EXCEPT ![s] = "failed"]
      /\ failures' \in 0 .. MaxFailures
  <2>1. err' \in Codes /\ err' # None
    <3>1. CASE Refused(s)
      BY <3>1 DEF Raise, ErrnoAtCall, ReadingAssumption, Refused
    <3>2. CASE ReaddirFails(s)
      BY <3>2 DEF Raise, ErrnoAtCall, ReadingAssumption, ReaddirFails
    <3>3. CASE TelldirFails(s)
      BY <3>3 DEF Raise, ErrnoAtCall, ReadingAssumption, TelldirFails
    <3> QED
      BY <3>1, <3>2, <3>3
  <2>2. /\ errno' \in Codes \cup {0}
        /\ failures' \in 0 .. MaxFailures
    <3>1. failures' = failures + 1 /\ failures < MaxFailures
      BY DEF Refused, ReaddirFails, TelldirFails
    <3>2. failures' \in 0 .. MaxFailures
      BY <3>1 DEF ReadingAssumption, ReadingInv, TypeOK
    <3>3. errno' \in Codes \cup {0}
      BY DEF ReadingInv, TypeOK, Refused, ReaddirFails, TelldirFails
    <3> QED
      BY <3>2, <3>3
  <2>3. UNCHANGED <<pos, seen, from>> /\ cause' = [cause EXCEPT ![s] = "failed"]
    BY DEF Refused, ReaddirFails, TelldirFails, Meant
  <2>4. verdict' = [verdict EXCEPT ![s] = "error"]
    BY <2>1 DEF Refused, ReaddirFails, TelldirFails, Judge
  <2> QED
    BY <2>1, <2>2, <2>3, <2>4
<1>2. UNCHANGED <<reading, mark>>
  BY <1>1 DEF ReadingInv, TypeOK, Refused, ReaddirFails, TelldirFails
<1> QED
  BY <1>1, <1>2 DEF ReadingInv, TypeOK, NothingSkipped, StoppedAtEnd, ErrorIsItsOwn

LEMMA EntryKeepsReading ==
  ASSUME ReadingAssumption, ReadingInv, NEW s \in Streams, ReaddirEntry(s)
  PROVE  ReadingInv'
<1>1. /\ err' = ErrAtCall(s)
      /\ verdict' = [verdict EXCEPT ![s] = "ok"]
      /\ cause' = [cause EXCEPT ![s] = "ok"]
  BY DEF Raise, ErrnoAtCall, ReadingAssumption, ReaddirEntry, Judge, Meant
<1>2. /\ pos[s] \in Nat /\ from[s] \in Nat /\ Length \in Nat
      /\ pos[s] < Length /\ from[s] <= pos[s]
  BY DEF ReadingAssumption, ReadingInv, TypeOK, Positions, StoppedAtEnd, ReaddirEntry
<1>3. TypeOK'
  <2>1. pos' \in [Streams -> Positions] /\ seen' \in [Streams -> SUBSET (1 .. Length)]
    BY <1>2 DEF ReadingInv, TypeOK, Positions, ReaddirEntry
  <2>2. errno' \in Codes \cup {0} /\ err' \in Codes \cup {None}
    BY <1>1 DEF ReadingInv, TypeOK, ReaddirEntry, ErrnoAtCall, ErrAtCall
  <2> QED
    BY <1>1, <2>1, <2>2 DEF ReadingInv, TypeOK, ReaddirEntry
<1>4. NothingSkipped'
  <2>1. seen'[s] = from'[s] + 1 .. pos'[s]
    BY <1>2 DEF ReadingInv, TypeOK, NothingSkipped, ReaddirEntry
  <2> QED
    BY <2>1 DEF ReadingInv, TypeOK, NothingSkipped, ReaddirEntry
<1>5. StoppedAtEnd'
  BY <1>2 DEF ReadingInv, TypeOK, StoppedAtEnd, ReaddirEntry
<1>6. ErrorIsItsOwn'
  BY <1>1 DEF ReadingInv, TypeOK, ErrorIsItsOwn
<1> QED
  BY <1>3, <1>4, <1>5, <1>6 DEF ReadingInv

(* The end of the directory: whatever the loop makes of it, nothing moves; *)
(* a careful loop takes it for the end.                                    *)
LEMMA EndKeepsReading ==
  ASSUME ReadingAssumption, ReadingInv, NEW s \in Streams, ReaddirEnd(s)
  PROVE  ReadingInv'
<1>1. /\ err' = ErrAtCall(s)
      /\ verdict' = [verdict EXCEPT ![s] = IF err' # None THEN "error" ELSE "end"]
      /\ cause' = [cause EXCEPT ![s] = "end"]
      /\ s \in Careful => err' = None
  BY DEF Raise, ErrnoAtCall, ReadingAssumption, ReaddirEnd, Judge, Meant, ErrAtCall
<1>2. pos[s] = Length /\ reading' \subseteq reading /\ reading \ {s} \subseteq reading'
  BY DEF ReaddirEnd
<1>3. TypeOK'
  BY <1>1, <1>2 DEF ReadingInv, TypeOK, ReaddirEnd, ErrnoAtCall, ErrAtCall
<1>4. NothingSkipped' /\ StoppedAtEnd'
  BY <1>2 DEF ReadingInv, TypeOK, NothingSkipped, StoppedAtEnd, ReaddirEnd
<1>5. ErrorIsItsOwn'
  BY <1>1 DEF ReadingInv, TypeOK, ErrorIsItsOwn
<1> QED
  BY <1>3, <1>4, <1>5 DEF ReadingInv

LEMMA TelldirKeepsReading ==
  ASSUME ReadingAssumption, ReadingInv, NEW s \in Streams, Telldir(s)
  PROVE  ReadingInv'
<1>1. /\ err' = ErrAtCall(s)
      /\ verdict'[s] \in {"ok", "error"}
      /\ verdict' = [verdict EXCEPT ![s] = verdict'[s]]
      /\ cause' = [cause EXCEPT ![s] = "ok"]
      /\ s \in Careful => verdict'[s] = "ok"
  BY DEF Raise, ErrnoAtCall, ReadingAssumption, ReadingInv, TypeOK, Telldir, Judge,
                 Meant, ErrAtCall
<1>2. TypeOK'
  BY <1>1 DEF ReadingInv, TypeOK, Telldir, ErrnoAtCall, ErrAtCall
<1>3. NothingSkipped' /\ StoppedAtEnd'
  BY DEF ReadingInv, NothingSkipped, StoppedAtEnd, Telldir
<1>4. ErrorIsItsOwn'
  BY <1>1 DEF ReadingInv, TypeOK, ErrorIsItsOwn
<1> QED
  BY <1>2, <1>3, <1>4 DEF ReadingInv

LEMMA RestartKeepsReading ==
  ASSUME ReadingAssumption, ReadingInv, NEW s \in Streams,
         Rewinddir(s) \/ Seekdir(s)
  PROVE  ReadingInv'
<1>1. PICK p \in Positions : Restart(s, p)
  <2>1. 0 \in Positions
    BY DEF ReadingAssumption, Positions
  <2>2. mark[s] # None => PositionAt(mark[s]) \in Positions
    <3> SUFFICES ASSUME mark[s] # None PROVE PositionAt(mark[s]) \in Positions
      OBVIOUS
    <3>1. PICK q \in Positions : mark[s] = Location(q)
      BY DEF ReadingInv, TypeOK
    <3> QED
      BY <3>1 DEF Location, PositionAt, Positions, ReadingAssumption
  <2> QED
    BY <2>1, <2>2 DEF Rewinddir, Seekdir
<1>2. p \in Nat /\ p + 1 .. p = {}
  BY DEF ReadingAssumption, Positions
<1>3. TypeOK'
  <2>1. mark' \in [Streams -> {Location(q) : q \in Positions} \cup {None}]
    BY DEF ReadingInv, TypeOK, Rewinddir, Seekdir
  <2> QED
    BY <1>1, <2>1 DEF ReadingInv, TypeOK, Restart, Meant, ErrnoAtCall
<1>4. NothingSkipped'
  BY <1>1, <1>2 DEF ReadingInv, TypeOK, NothingSkipped, Restart
<1>5. StoppedAtEnd'
  BY <1>1, <1>2 DEF ReadingInv, TypeOK, StoppedAtEnd, Restart
<1>6. ErrorIsItsOwn'
  BY <1>1 DEF ReadingInv, TypeOK, ErrorIsItsOwn, Restart, Meant
<1> QED
  BY <1>3, <1>4, <1>5, <1>6 DEF ReadingInv

LEMMA NextKeepsReading ==
  ReadingAssumption /\ ReadingInv /\ [Next]_vars => ReadingInv'
<1> SUFFICES ASSUME ReadingAssumption, ReadingInv, [Next]_vars
             PROVE  ReadingInv'
  OBVIOUS
<1>1. CASE UNCHANGED vars
  BY <1>1 DEF vars, ReadingInv, TypeOK, NothingSkipped, StoppedAtEnd, ErrorIsItsOwn
<1>2. CASE Clobber
  BY <1>2 DEF Clobber, ReadingInv, TypeOK, NothingSkipped, StoppedAtEnd, ErrorIsItsOwn
<1>3. ASSUME NEW s \in Streams,
             \/ Refused(s)
             \/ Readdir(s)
             \/ Telldir(s) \/ TelldirFails(s)
             \/ Rewinddir(s) \/ Seekdir(s)
      PROVE  ReadingInv'
  BY <1>3, FailureKeepsReading, EntryKeepsReading, EndKeepsReading,
     TelldirKeepsReading, RestartKeepsReading DEF Readdir
<1> QED
  BY <1>1, <1>2, <1>3 DEF Next

(* The inductive invariant: what the loops have seen, where they stopped,  *)
(* and whose error they hold.                                              *)
THEOREM ReadingHolds == Spec => []ReadingInv
<1> QED
  BY InitReadingInv, NextKeepsReading, ReadingAssumption, PTL DEF Spec

(* Types of the state of the streams and the loops (dirent.c:158-250).     *)
THEOREM TypeCorrect == Spec => []TypeOK
<1>1. ReadingInv => TypeOK
  BY DEF ReadingInv
<1> QED
  BY <1>1, ReadingHolds, PTL

(* No entry between a loop's start and the stream's position is lost to a  *)
(* call that is refused or fails (dirent.c:163-170).                       *)
THEOREM NoEntryIsSkipped == Spec => []NothingSkipped
<1>1. ReadingInv => NothingSkipped
  BY DEF ReadingInv
<1> QED
  BY <1>1, ReadingHolds, PTL

(* No loop takes a failure for the end, whether it resets the error object *)
(* or not (dirent.c:167).                                                  *)
THEOREM NoFalseEnd == Spec => []EndIsTheEnd
<1>1. ReadingInv => EndIsTheEnd
  BY DEF ReadingInv, NothingSkipped, StoppedAtEnd, EndIsTheEnd
<1> QED
  BY <1>1, ReadingHolds, PTL

(* Failures are never missed; a loop that resets the error object sees no  *)
(* failure but its own (dirent.c:167 and 231).                             *)
THEOREM ErrorsAreAttributed == Spec => []ErrorIsItsOwn
<1>1. ReadingInv => ErrorIsItsOwn
  BY DEF ReadingInv
<1> QED
  BY <1>1, ReadingHolds, PTL
=============================================================================

----------------------------- MODULE DirReading -----------------------------
(***************************************************************************)
(* Reading directories with p101_readdir, p101_telldir, p101_seekdir and   *)
(* p101_rewinddir (src/src/dirent.c), as loops of one thread over several  *)
(* streams.                                                                *)
(*                                                                         *)
(* p101_readdir answers NULL at the end of the directory and after a       *)
(* failure, and p101_telldir's -1 may be a location; in both cases the     *)
(* caller looks into its error object.  A wrapper never clears that object *)
(* and the loops share it, as they share errno.  A loop is careful if it   *)
(* resets the object before each call (p101_error_reset, as the tests do,  *)
(* test/test_behavior.c:69); one that does not may take a failure of       *)
(* another loop for its own.                                               *)
(*                                                                         *)
(* The streams themselves are the C library's.  Locations are those of the *)
(* positions 0, 1, ..., starting from -1: the value that also stands for   *)
(* failure.                                                                *)
(***************************************************************************)
EXTENDS Integers

CONSTANTS
  Streams,
  Careful,      \* the streams whose loops reset the error object
  Codes,        \* errno values
  Length,       \* entries of each directory
  MaxFailures,  \* bound: calls that are refused or fail
  None          \* no error

ASSUME ReadingAssumption ==
  /\ Careful \subseteq Streams
  /\ 0 \notin Codes /\ None \notin Codes \cup Int
  /\ Length \in Nat /\ MaxFailures \in Nat

VARIABLES
  pos,       \* pos[s]: entries the C library has read from s
  errno,
  err,       \* the caller's error object
  reading,   \* the streams whose loop is not over
  mark,      \* mark[s]: the location its loop has saved, None before that
  seen,      \* seen[s]: the entries its loop was given
  from,      \* from[s]: the position its loop started at
  verdict,   \* verdict[s]: what its loop made of the latest answer
  cause,     \* history: cause[s]: what the latest answer meant
  failures   \* how many calls were refused or failed

vars == <<pos, errno, err, reading, mark, seen, from, verdict, cause, failures>>

Positions == 0 .. Length

Location(p) == p - 1
PositionAt(location) == location + 1

-----------------------------------------------------------------------------
Init ==
  /\ pos = [s \in Streams |-> 0]
  /\ errno \in Codes \cup {0}
  /\ err = None
  /\ reading = Streams
  /\ mark = [s \in Streams |-> None]
  /\ seen = [s \in Streams |-> {}]
  /\ from = [s \in Streams |-> 0]
  /\ verdict = [s \in Streams |-> "none"]
  /\ cause = [s \in Streams |-> "none"]
  /\ failures = 0

(* Definitions named Bug_... are plausible slips, none of them in the code *)
(* and none of them used by Spec: each is substituted for the definition   *)
(* it precedes, to see that a property notices (PROJECT.json, mutants).    *)

Bug_NoReset == errno

(* errno = 0, before the native call.                                      *)
ErrnoAtCall == 0

Bug_NullIsAnError(bad, code, before) == IF bad THEN code ELSE before

Bug_ChecksTooEarly(bad, code, before) ==
  IF bad /\ ErrnoAtCall # 0 THEN code ELSE before

(* The error object after a native call: P101_ERROR_RAISE_ERRNO, if the    *)
(* value is NULL or -1 and errno is not 0.                                 *)
Raise(bad, code, before) == IF bad /\ code # 0 THEN code ELSE before

(* The loop's own reset, before the call.                                  *)
ErrAtCall(s) == IF s \in Careful THEN None ELSE err

(* What the loop makes of NULL or -1, from the error object alone.         *)
Judge(s, bad, otherwise) ==
  verdict' = [verdict EXCEPT ![s] =
                IF ~ bad THEN "ok" ELSE IF err' # None THEN "error" ELSE otherwise]

Meant(s, what) == cause' = [cause EXCEPT ![s] = what]

(* The injector refuses p101_readdir or p101_telldir: NULL or -1, raised.  *)
Refused(s) ==
  /\ s \in reading
  /\ failures < MaxFailures /\ failures' = failures + 1
  /\ err' \in Codes
  /\ Judge(s, TRUE, "end")
  /\ Meant(s, "failed")
  /\ UNCHANGED <<pos, errno, reading, mark, seen, from>>

Bug_ReadThenRefuse(s) ==
  /\ s \in reading /\ pos[s] < Length
  /\ errno' \in Codes \cup {ErrnoAtCall}
  /\ pos' = [pos EXCEPT ![s] = @ + 1]
  /\ \/ /\ err' = Raise(FALSE, errno', ErrAtCall(s))
        /\ Judge(s, FALSE, "ok") /\ Meant(s, "ok")
        /\ seen' = [seen EXCEPT ![s] = @ \cup {pos[s] + 1}]
        /\ UNCHANGED failures
     \/ /\ failures < MaxFailures /\ failures' = failures + 1
        /\ err' \in Codes
        /\ Judge(s, TRUE, "end") /\ Meant(s, "failed")
        /\ UNCHANGED seen
  /\ UNCHANGED <<reading, mark, from>>

(* An entry; errno may have been changed on the way.                       *)
ReaddirEntry(s) ==
  /\ s \in reading /\ pos[s] < Length
  /\ errno' \in Codes \cup {ErrnoAtCall}
  /\ err' = Raise(FALSE, errno', ErrAtCall(s))
  /\ Judge(s, FALSE, "ok") /\ Meant(s, "ok")
  /\ pos' = [pos EXCEPT ![s] = @ + 1]
  /\ seen' = [seen EXCEPT ![s] = @ \cup {pos[s] + 1}]
  /\ UNCHANGED <<reading, mark, from, failures>>

(* The end: NULL, errno as it was at the call.  A loop that sees an error  *)
(* instead tries again.                                                    *)
ReaddirEnd(s) ==
  /\ s \in reading /\ pos[s] = Length
  /\ errno' = ErrnoAtCall
  /\ err' = Raise(TRUE, errno', ErrAtCall(s))
  /\ Judge(s, TRUE, "end") /\ Meant(s, "end")
  /\ reading' = IF verdict'[s] = "end" THEN reading \ {s} ELSE reading
  /\ UNCHANGED <<pos, mark, seen, from, failures>>

ReaddirFails(s) ==
  /\ s \in reading
  /\ failures < MaxFailures /\ failures' = failures + 1
  /\ errno' \in Codes
  /\ err' = Raise(TRUE, errno', ErrAtCall(s))
  /\ Judge(s, TRUE, "end") /\ Meant(s, "failed")
  /\ reading' = IF verdict'[s] = "end" THEN reading \ {s} ELSE reading
  /\ UNCHANGED <<pos, mark, seen, from>>

(* A location is saved unless the error object says there is none.         *)
Telldir(s) ==
  /\ s \in reading /\ mark[s] = None
  /\ errno' = ErrnoAtCall
  /\ err' = Raise(Location(pos[s]) = -1, errno', ErrAtCall(s))
  /\ Judge(s, Location(pos[s]) = -1, "ok") /\ Meant(s, "ok")
  /\ mark' = [mark EXCEPT ![s] = IF verdict'[s] = "ok" THEN Location(pos[s]) ELSE @]
  /\ UNCHANGED <<pos, reading, seen, from, failures>>

TelldirFails(s) ==
  /\ s \in reading /\ mark[s] = None
  /\ failures < MaxFailures /\ failures' = failures + 1
  /\ errno' \in Codes
  /\ err' = Raise(TRUE, errno', ErrAtCall(s))
  /\ Judge(s, TRUE, "ok") /\ Meant(s, "failed")
  /\ mark' = [mark EXCEPT ![s] = IF verdict'[s] = "ok" THEN -1 ELSE @]
  /\ UNCHANGED <<pos, reading, seen, from>>

(* A loop that is over starts again, at p: neither call can fail or raise. *)
Restart(s, p) ==
  /\ s \notin reading
  /\ reading' = reading \cup {s}
  /\ pos' = [pos EXCEPT ![s] = p]
  /\ seen' = [seen EXCEPT ![s] = {}]
  /\ from' = [from EXCEPT ![s] = p]
  /\ verdict' = [verdict EXCEPT ![s] = "none"]
  /\ Meant(s, "none")
  /\ errno' = ErrnoAtCall
  /\ UNCHANGED <<err, failures>>

Rewinddir(s) == Restart(s, 0) /\ UNCHANGED mark

(* The location is used once.                                              *)
Seekdir(s) ==
  /\ mark[s] # None
  /\ Restart(s, PositionAt(mark[s]))
  /\ mark' = [mark EXCEPT ![s] = None]

(* Other code of the thread, and the observers of p101_env.                *)
Clobber ==
  /\ errno' \in Codes \cup {0}
  /\ UNCHANGED <<pos, err, reading, mark, seen, from, verdict, cause, failures>>

Readdir(s) == ReaddirEntry(s) \/ ReaddirEnd(s) \/ ReaddirFails(s)

Next ==
  \/ Clobber
  \/ \E s \in Streams :
       \/ Refused(s)
       \/ Readdir(s)
       \/ Telldir(s) \/ TelldirFails(s)
       \/ Rewinddir(s) \/ Seekdir(s)

Spec == Init /\ [][Next]_vars

(* The application goes on with every loop it has not finished.            *)
FairSpec == Spec /\ \A s \in Streams : WF_vars(Readdir(s))

-----------------------------------------------------------------------------
TypeOK ==
  /\ pos \in [Streams -> Positions] /\ from \in [Streams -> Positions]
  /\ errno \in Codes \cup {0}
  /\ err \in Codes \cup {None}
  /\ reading \subseteq Streams
  /\ mark \in [Streams -> {Location(p) : p \in Positions} \cup {None}]
  /\ seen \in [Streams -> SUBSET (1 .. Length)]
  /\ verdict \in [Streams -> {"none", "ok", "end", "error"}]
  /\ cause \in [Streams -> {"none", "ok", "end", "failed"}]
  /\ failures \in 0 .. MaxFailures

(* A loop was given every entry between its start and the stream's         *)
(* position: a read that is refused or fails, here or in another loop,     *)
(* costs no entry, so a loop may just try again (dirent.c:163-170).        *)
NothingSkipped ==
  \A s \in Streams : seen[s] = from[s] + 1 .. pos[s]

(* A loop that believes to have reached the end has: no failure passes for *)
(* the end, even for a loop that never resets the error object             *)
(* (dirent.c:167).                                                         *)
EndIsTheEnd ==
  \A s \in Streams : s \notin reading => seen[s] = from[s] + 1 .. Length

(* A failure is never missed; and a loop that resets the error object sees *)
(* no failure but its own, whatever errno and the object held before and   *)
(* though the location may be -1 (dirent.c:167 and 231).                   *)
ErrorIsItsOwn ==
  /\ \A s \in Streams : cause[s] = "failed" => verdict[s] = "error"
  /\ \A s \in Careful : verdict[s] = "error" => cause[s] = "failed"

(* A careful loop over a directory ends, if not all its calls fail for     *)
(* ever: the end does not look like one more failure to retry              *)
(* (dirent.c:167).                                                         *)
LoopEnds == \A s \in Careful : s \in reading ~> s \notin reading
=============================================================================

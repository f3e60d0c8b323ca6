----------------------------- MODULE GlobLedger -----------------------------
(***************************************************************************)
(* Results of p101_glob against the resource ledger (src/src/glob.c).      *)
(*                                                                         *)
(* p101_glob writes an ACQUIRE record for every call that matches, and     *)
(* p101_globfree a RELEASE record whatever the result holds.  The two pair *)
(* up for an application that makes one matching call and one globfree of  *)
(* each result.  Other legal uses are permitted here result by result:     *)
(* GLOB_APPEND adds the matches of a second call to the same result; a     *)
(* call that fails may leave partial matches, so careful applications free *)
(* a result whatever the outcome; and the result of a plain glob may be    *)
(* freed through the wrapper, as test/test_behavior.c:160-165 does.        *)
(*                                                                         *)
(* What a result holds is in paths; the ledger is kept as the balance of   *)
(* records by the result's address, which is all a reader of it sees.      *)
(*                                                                         *)
(* A result belongs to one thread at a time and nothing else is shared, so *)
(* each wrapper is one action.                                             *)
(***************************************************************************)
EXTENDS Integers

CONSTANTS
  Results,   \* the application's glob_t objects
  Appended,  \* those used with GLOB_APPEND
  Cleaned,   \* those freed whatever the call's outcome was
  Mixed,     \* those also filled by the plain glob
  MaxDrift   \* bound: balances outside -MaxDrift .. MaxDrift go no further

ASSUME GlobAssumption ==
  /\ Appended \cup Cleaned \cup Mixed \subseteq Results
  /\ MaxDrift \in Nat

VARIABLES
  paths,     \* results that hold paths, whoever put them there
  count,     \* count[g]: ACQUIRE records minus RELEASE records
  matched,   \* those for which a p101_glob returned 0 since the last free
  failed     \* those whose latest call returned an error

vars == <<paths, count, matched, failed>>

-----------------------------------------------------------------------------
Init ==
  /\ paths = {} /\ matched = {} /\ failed = {}
  /\ count = [g \in Results |-> 0]

(* Without GLOB_APPEND a call overwrites the result: the application does  *)
(* not lose paths that way.                                                *)
MayCall(g) == g \in paths => g \in Appended

(* The injector refuses: its code is returned, the result is not touched.  *)
Fault(g) ==
  /\ MayCall(g)
  /\ failed' = failed \cup {g}
  /\ UNCHANGED <<paths, count, matched>>

(* Definitions named Bug_... are plausible slips, none of them in the code *)
(* and none of them used by Spec: each is substituted for the definition   *)
(* it precedes, to see that a property notices (PROJECT.json, mutants).    *)

Bug_FirstOnly(g) ==
  count' = [count EXCEPT ![g] = IF g \in paths THEN @ ELSE @ + 1]

(* P101_TRACK_POINTER_RESOURCE_ACQUIRE, with the result's address.         *)
RecordAcquire(g) == count' = [count EXCEPT ![g] = @ + 1]

GlobMatches(g) ==
  /\ MayCall(g)
  /\ count[g] <= MaxDrift
  /\ paths' = paths \cup {g}
  /\ RecordAcquire(g)
  /\ matched' = matched \cup {g}
  /\ failed' = failed \ {g}

Bug_RecordNomatch(g) ==
  /\ MayCall(g)
  /\ count[g] <= MaxDrift
  /\ RecordAcquire(g)
  /\ failed' = failed \ {g}
  /\ UNCHANGED <<paths, matched>>

(* GLOB_NOMATCH: neither an error nor a record.                            *)
GlobNomatch(g) ==
  /\ MayCall(g)
  /\ failed' = failed \ {g}
  /\ UNCHANGED <<paths, count, matched>>

Bug_FreeOnFailure(g) ==
  /\ MayCall(g)
  /\ paths' = paths \ {g}
  /\ failed' = failed \cup {g}
  /\ UNCHANGED <<count, matched>>

(* GLOB_ABORTED, GLOB_NOSPACE or an unknown code: an error and no record,  *)
(* but the paths found so far may be there.                                *)
GlobFails(g) ==
  /\ MayCall(g)
  /\ paths' \in {paths, paths \cup {g}}
  /\ failed' = failed \cup {g}
  /\ UNCHANGED <<count, matched>>

(* The application calls glob itself.                                      *)
NativeGlob(g) ==
  /\ g \in Mixed
  /\ MayCall(g)
  /\ paths' = paths \cup {g}
  /\ failed' = failed \ {g}
  /\ UNCHANGED <<count, matched>>

MayFree(g) == g \in matched \cup Cleaned \/ (g \in Mixed /\ g \in paths)

Bug_NoRelease(g) == UNCHANGED count

(* P101_TRACK_POINTER_RESOURCE_RELEASE, with the result's address.         *)
RecordRelease(g) == count' = [count EXCEPT ![g] = @ - 1]

(* p101_globfree cannot know whether anything was acquired.                *)
Globfree(g) ==
  /\ MayFree(g)
  /\ count[g] >= -MaxDrift
  /\ paths' = paths \ {g}
  /\ RecordRelease(g)
  /\ matched' = matched \ {g}
  /\ failed' = failed \ {g}

Next ==
  \E g \in Results :
    \/ Fault(g)
    \/ GlobMatches(g)
    \/ GlobNomatch(g)
    \/ GlobFails(g)
    \/ NativeGlob(g)
    \/ Globfree(g)

Spec == Init /\ [][Next]_vars

-----------------------------------------------------------------------------
(* Types; and what an acquired result holds is not lost by a later call    *)
(* that fails while appending to it.                                       *)
TypeOK ==
  /\ paths \subseteq Results /\ matched \subseteq paths
  /\ failed \subseteq Results
  /\ count \in [Results -> Int]

(* What the balance should be: 1 for a result that holds paths.            *)
Holds(g) == IF g \in paths THEN 1 ELSE 0

(* How far the ledger is from the truth about g.                           *)
Drift(g) == count[g] - Holds(g)

(* One globfree for each matching call: the ledger is right about what a   *)
(* result holds, but for one case.  A call that failed may have left paths *)
(* behind; no record says so, and nothing but the call's error does        *)
(* (glob.c:47-65).                                                         *)
PlainExact ==
  \A g \in Results \ (Appended \cup Cleaned \cup Mixed) :
    \/ Drift(g) = 0
    \/ Drift(g) = -1 /\ g \in failed \cap paths

(* The other legal uses err in opposite directions.  Without GLOB_APPEND   *)
(* no reader of the ledger sees a result that holds nothing; without frees *)
(* of what was not acquired, none misses a result that a matching call has *)
(* filled (glob.c:62-65 against 71-78).                                    *)
DriftHasADirection ==
  /\ \A g \in Results \ Appended : Drift(g) <= 0
  /\ \A g \in Results \ (Cleaned \cup Mixed) : g \in matched => Drift(g) >= 0

(* Without GLOB_APPEND nothing the application can do makes up for a free  *)
(* that found nothing acquired, or for paths that were never recorded:     *)
(* also freeing them only settles what they held, and every later result   *)
(* at that address stays hidden (glob.c:47-61 and 76).                     *)
DriftNeverHeals ==
  [][\A g \in Results \ Appended : Drift(g)' <= Drift(g)]_vars
=============================================================================

------------------------- MODULE GlobLedger_proofs -------------------------
(***************************************************************************)
(* Proofs about GlobLedger, for any set of results, any use of each of     *)
(* them and any bound on the drift.                                        *)
(***************************************************************************)
EXTENDS GlobLedger, TLAPS

(* What keeps the balances in their place.  A result filled without        *)
(* GLOB_APPEND was filled once; one that is freed only after a match is    *)
(* never freed more often than it was matched; and a plain one holds       *)
(* unmatched paths only while its latest call is one that failed.          *)
RecordsMatch ==
  /\ \A g \in Results \ Appended : count[g] <= IF g \in matched THEN 1 ELSE 0
  /\ \A g \in Results \ (Cleaned \cup Mixed) :
       count[g] >= IF g \in matched THEN 1 ELSE 0
  /\ \A g \in Results \ (Appended \cup Mixed) : g \in paths \ matched => g \in failed

LedgerInv == TypeOK /\ RecordsMatch

LEMMA InitLedgerInv == Init => LedgerInv
BY DEF Init, LedgerInv, TypeOK, RecordsMatch

LEMMA MatchKeepsLedger ==
  ASSUME LedgerInv, NEW g \in Results, GlobMatches(g)
  PROVE  LedgerInv'
<1> USE DEF LedgerInv, GlobMatches, RecordAcquire
<1>1. TypeOK'
  BY DEF TypeOK
<1>2. RecordsMatch'
  \* A result that is matched holds paths: a second call needs GLOB_APPEND.
  <2>1. g \in matched => g \in Appended
    BY DEF TypeOK, MayCall
  <2> QED
    BY <2>1 DEF TypeOK, RecordsMatch
<1> QED
  BY <1>1, <1>2

LEMMA FreeKeepsLedger ==
  ASSUME LedgerInv, NEW g \in Results, Globfree(g)
  PROVE  LedgerInv'
<1> USE DEF LedgerInv, Globfree, RecordRelease
<1>1. TypeOK'
  BY DEF TypeOK
<1>2. RecordsMatch'
  BY DEF TypeOK, RecordsMatch, MayFree
<1> QED
  BY <1>1, <1>2

(* A call that fails, finds nothing or is the application's own writes no  *)
(* record.                                                                 *)
LEMMA SilentKeepsLedger ==
  ASSUME LedgerInv, NEW g \in Results,
         Fault(g) \/ GlobNomatch(g) \/ GlobFails(g) \/ NativeGlob(g)
  PROVE  LedgerInv'
<1>1. /\ UNCHANGED <<count, matched>>
      /\ failed' \in {failed \cup {g}, failed \ {g}}
      /\ paths \subseteq paths' /\ paths' \subseteq paths \cup {g}
  BY DEF Fault, GlobNomatch, GlobFails, NativeGlob
<1>2. TypeOK'
  BY <1>1 DEF LedgerInv, TypeOK
<1>3. ASSUME NEW h \in Results \ (Appended \cup Mixed), h \in paths' \ matched'
      PROVE  h \in failed'
  <2>1. CASE h = g
    \* What it did not hold it may hold only after GlobFails; what it held
    \* it was not called for.
    BY <1>3, <2>1 DEF Fault, GlobNomatch, GlobFails, NativeGlob, MayCall
  <2>2. CASE h # g
    BY <1>1, <1>3, <2>2 DEF LedgerInv, RecordsMatch
  <2> QED
    BY <2>1, <2>2
<1> QED
  BY <1>1, <1>2, <1>3 DEF LedgerInv, RecordsMatch

LEMMA NextKeepsLedger == LedgerInv /\ [Next]_vars => LedgerInv'
<1> SUFFICES ASSUME LedgerInv, [Next]_vars
             PROVE  LedgerInv'
  OBVIOUS
<1>1. CASE UNCHANGED vars
  BY <1>1 DEF vars, LedgerInv, TypeOK, RecordsMatch
<1>2. CASE Next
  BY <1>2, MatchKeepsLedger, FreeKeepsLedger, SilentKeepsLedger DEF Next
<1> QED
  BY <1>1, <1>2

(* The inductive invariant: types, and records that agree with the calls   *)
(* that returned 0.                                                        *)
THEOREM LedgerHolds == Spec => []LedgerInv
<1> QED
  BY InitLedgerInv, NextKeepsLedger, PTL DEF Spec

-----------------------------------------------------------------------------
(* Types; and what an acquired result holds is not lost by a later call    *)
(* that fails (glob.c:41-65).                                              *)
THEOREM TypeCorrect == Spec => []TypeOK
<1>1. LedgerInv => TypeOK
  BY DEF LedgerInv
<1> QED
  BY <1>1, LedgerHolds, PTL

(* One globfree for each matching call: the ledger is right about what the *)
(* result holds, except that it does not show the paths a failed call left *)
(* behind (glob.c:47-65).                                                  *)
THEOREM PlainUseIsExact == Spec => []PlainExact
<1>1. LedgerInv => PlainExact
  <2> SUFFICES ASSUME LedgerInv,
                      NEW g \in Results \ (Appended \cup Cleaned \cup Mixed)
               PROVE  \/ Drift(g) = 0
                      \/ Drift(g) = -1 /\ g \in failed \cap paths
    BY DEF PlainExact
  <2>1. count[g] = IF g \in matched THEN 1 ELSE 0
    BY DEF LedgerInv, RecordsMatch, TypeOK
  <2>2. g \in matched => g \in paths
    BY DEF LedgerInv, TypeOK
  <2>3. g \in paths \ matched => g \in failed
    BY DEF LedgerInv, RecordsMatch
  <2> QED
    BY <2>1, <2>2, <2>3 DEF Drift, Holds
<1> QED
  BY <1>1, LedgerHolds, PTL

(* Appending only ever makes the ledger show too much, freeing what was    *)
(* not acquired only too little (glob.c:62-65 and 71-78).                  *)
THEOREM DriftIsDirected == Spec => []DriftHasADirection
<1>1. LedgerInv => DriftHasADirection
  <2>1. ASSUME LedgerInv, NEW g \in Results \ Appended
        PROVE  Drift(g) <= 0
    BY <2>1 DEF LedgerInv, RecordsMatch, TypeOK, Drift, Holds
  <2>2. ASSUME LedgerInv, NEW g \in Results \ (Cleaned \cup Mixed), g \in matched
        PROVE  Drift(g) >= 0
    BY <2>2 DEF LedgerInv, RecordsMatch, TypeOK, Drift, Holds
  <2> QED
    BY <2>1, <2>2 DEF DriftHasADirection
<1> QED
  BY <1>1, LedgerHolds, PTL

(* What the ledger has once missed about a result used without GLOB_APPEND *)
(* it misses for ever (glob.c:47-61 and 76).                               *)
THEOREM DriftIsPermanent == Spec => DriftNeverHeals
<1> DEFINE Worse == \A g \in Results \ Appended : Drift(g)' <= Drift(g)
<1>1. ASSUME LedgerInv, [Next]_vars
      PROVE  [Worse]_vars
  <2> SUFFICES ASSUME NEW g \in Results \ Appended, Next
               PROVE  Drift(g)' <= Drift(g)
    BY <1>1
  <2> USE DEF Drift, Holds
  <2>1. count \in [Results -> Int]
    BY <1>1 DEF LedgerInv, TypeOK
  <2>2. PICK h \in Results :
          \/ GlobMatches(h) \/ Globfree(h)
          \/ Fault(h) \/ GlobNomatch(h) \/ GlobFails(h) \/ NativeGlob(h)
    BY DEF Next
  <2>3. CASE GlobMatches(h)
    \* Without GLOB_APPEND it held nothing: the record is about all of it.
    BY <2>1, <2>3 DEF GlobMatches, RecordAcquire, MayCall
  <2>4. CASE Globfree(h)
    BY <2>1, <2>4 DEF Globfree, RecordRelease
  <2>5. CASE Fault(h) \/ GlobNomatch(h) \/ GlobFails(h) \/ NativeGlob(h)
    <3>1. count' = count /\ paths \subseteq paths'
      BY <2>5 DEF Fault, GlobNomatch, GlobFails, NativeGlob
    <3> QED
      BY <2>1, <3>1
  <2> QED
    BY <2>2, <2>3, <2>4, <2>5
<1> QED
  BY <1>1, LedgerHolds, PTL DEF Spec, DriftNeverHeals
=============================================================================

---------------------------- MODULE AllocLedger ----------------------------
(***************************************************************************)
(* Memory that the C library allocates inside a wrapped call and hands to  *)
(* the application: p101_scandir (src/src/dirent.c) and p101_realpath      *)
(* (src/src/stdlib.c), against the ledger of allocations.                  *)
(*                                                                         *)
(* scandir returns an array and as many entries as it points to, each a    *)
(* block of its own, which the wrapper records one after the other.        *)
(* realpath returns a block only when the caller passed no buffer.  The    *)
(* application frees every block by p101_free.  Meanwhile other threads    *)
(* run, and may be given a block again that another has freed and not yet  *)
(* recorded as freed.                                                      *)
(*                                                                         *)
(* Wrappers called by scandir's own callbacks, sel and compar, come and go *)
(* before scandir returns its blocks: to the ledger they are calls of      *)
(* another thread.                                                         *)
(***************************************************************************)
EXTENDS Integers, Sequences, FiniteSets, Functions

CONSTANTS
  Threads,
  Blocks,      \* addresses of heap blocks
  MaxEntries,  \* bound: entries of one directory that sel accepts
  None         \* no block

ASSUME AllocAssumption ==
  /\ IsFiniteSet(Threads)
  /\ None \notin Blocks
  /\ MaxEntries \in Nat

VARIABLES
  heap,   \* blocks that are allocated
  owned,  \* blocks the application owns
  count,  \* count[b]: ALLOC records minus FREE records
  pc      \* pc[t]: the function thread t executes, and its locals

vars == <<heap, owned, count, pc>>

Ops == {"scandir", "realpath", "free"}

Idle == [op |-> "none", step |-> "idle", buffer |-> None, got |-> << >>, index |-> 0]

At(t, op, step) == pc[t].op = op /\ pc[t].step = step

Call(t, op, buffer) ==
  pc' = [pc EXCEPT ![t] = [op |-> op, step |-> "called", buffer |-> buffer,
                           got |-> << >>, index |-> 0]]

Proceed(t, step) == pc' = [pc EXCEPT ![t].step = step]

(* The blocks of got are recorded from index 1 on.                         *)
Obtain(t, got) ==
  pc' = [pc EXCEPT ![t].step = "record", ![t].got = got, ![t].index = 1]

Return(t) == pc' = [pc EXCEPT ![t] = Idle]

Passed(t) == {pc[t].buffer} \cap Blocks

-----------------------------------------------------------------------------
Init ==
  /\ heap = {} /\ owned = {}
  /\ count = [b \in Blocks |-> 0]
  /\ pc = [t \in Threads |-> Idle]

(* The application: p101_malloc, for instance of a buffer for realpath.    *)
AppAlloc(t) ==
  /\ pc[t] = Idle
  /\ \E b \in Blocks \ heap :
       /\ heap' = heap \cup {b}
       /\ owned' = owned \cup {b}
       /\ count' = [count EXCEPT ![b] = @ + 1]
  /\ UNCHANGED pc

CallScandir(t) ==
  /\ pc[t] = Idle
  /\ Call(t, "scandir", None)
  /\ UNCHANGED <<heap, owned, count>>

(* realpath with no buffer (a buffer that is not on the heap concerns the  *)
(* ledger as little as a call that fails) ...                              *)
CallRealpath(t) ==
  /\ pc[t] = Idle
  /\ Call(t, "realpath", None)
  /\ UNCHANGED <<heap, owned, count>>

(* ... or into a block, which nobody frees until the call returns.         *)
CallRealpathInto(t) ==
  /\ pc[t] = Idle
  /\ \E b \in owned : Call(t, "realpath", b) /\ owned' = owned \ {b}
  /\ UNCHANGED <<heap, count>>

(* p101_free gives the block back and records that it did, in either order.*)
CallFree(t) ==
  /\ pc[t] = Idle
  /\ \E b \in owned : Call(t, "free", b) /\ owned' = owned \ {b}
  /\ UNCHANGED <<heap, count>>

FreeBlock(t) ==
  /\ pc[t].op = "free" /\ pc[t].step \in {"called", "recorded"}
  /\ heap' = heap \ Passed(t)
  /\ IF pc[t].step = "called" THEN Proceed(t, "freed") ELSE Return(t)
  /\ UNCHANGED <<owned, count>>

RecordFree(t) ==
  /\ pc[t].op = "free" /\ pc[t].step \in {"called", "freed"}
  /\ count' = [count EXCEPT ![pc[t].buffer] = @ - 1]
  /\ IF pc[t].step = "called" THEN Proceed(t, "recorded") ELSE Return(t)
  /\ UNCHANGED <<heap, owned>>

-----------------------------------------------------------------------------
(* Definitions named Bug_... are plausible slips, none of them in the code *)
(* and none of them used by Spec: each is substituted for the definition   *)
(* it precedes, to see that a property notices (PROJECT.json, mutants).    *)

Bug_FreeBuffer(t) ==
  /\ pc[t].op \in {"scandir", "realpath"} /\ pc[t].step = "called"
  /\ heap' = heap \ Passed(t)
  /\ owned' = owned \cup Passed(t)
  /\ Return(t)
  /\ UNCHANGED count

(* The injector refuses, or the native call fails and keeps no block: the  *)
(* caller has its buffer again and nothing is recorded.                    *)
Fails(t) ==
  /\ pc[t].op \in {"scandir", "realpath"} /\ pc[t].step = "called"
  /\ owned' = owned \cup Passed(t)
  /\ Return(t)
  /\ UNCHANGED <<heap, count>>

(* The array and n entries, all newly allocated.                           *)
ScandirNative(t) ==
  /\ At(t, "scandir", "called")
  /\ \E n \in 0 .. MaxEntries : \E got \in Injection(1 .. n + 1, Blocks \ heap) :
       /\ heap' = heap \cup Range(got)
       /\ Obtain(t, got)
  /\ UNCHANGED <<owned, count>>

(* No entry, and no array either: the wrapper checks *namelist.            *)
ScandirEmpty(t) ==
  /\ At(t, "scandir", "called")
  /\ Return(t)
  /\ UNCHANGED <<heap, owned, count>>

Bug_RecordBuffer(t) ==
  /\ At(t, "realpath", "called") /\ pc[t].buffer # None
  /\ Obtain(t, <<pc[t].buffer>>)
  /\ UNCHANGED <<heap, owned, count>>

(* The path is in the caller's buffer: no record, the caller made it.      *)
RealpathInto(t) ==
  /\ At(t, "realpath", "called") /\ pc[t].buffer # None
  /\ owned' = owned \cup Passed(t)
  /\ Return(t)
  /\ UNCHANGED <<heap, count>>

(* resolved_name is NULL: the C library allocates.                         *)
RealpathNew(t) ==
  /\ At(t, "realpath", "called") /\ pc[t].buffer = None
  /\ \E b \in Blocks \ heap : heap' = heap \cup {b} /\ Obtain(t, <<b>>)
  /\ UNCHANGED <<owned, count>>

Bug_OneShort(t) == pc[t].index >= Len(pc[t].got) - 1

(* The loop over the entries is over.                                      *)
LastRecorded(t) == pc[t].index = Len(pc[t].got)

(* P101_TRACK_ALLOC for the array, then for each entry; the caller owns    *)
(* the blocks when the wrapper returns.                                    *)
RecordAlloc(t) ==
  /\ pc[t].step = "record"
  /\ count' = [count EXCEPT ![pc[t].got[pc[t].index]] = @ + 1]
  /\ IF LastRecorded(t)
       THEN owned' = owned \cup Range(pc[t].got) /\ Return(t)
       ELSE UNCHANGED owned /\ pc' = [pc EXCEPT ![t].index = @ + 1]
  /\ UNCHANGED heap

Wrapper(t) ==
  \/ Fails(t)
  \/ ScandirNative(t) \/ ScandirEmpty(t)
  \/ RealpathInto(t) \/ RealpathNew(t)
  \/ RecordAlloc(t)
  \/ FreeBlock(t) \/ RecordFree(t)

Application(t) ==
  \/ AppAlloc(t)
  \/ CallScandir(t) \/ CallRealpath(t) \/ CallRealpathInto(t)
  \/ CallFree(t)

Next == \E t \in Threads : Application(t) \/ Wrapper(t)

Spec == Init /\ [][Next]_vars

-----------------------------------------------------------------------------
TypeOK ==
  /\ owned \subseteq heap /\ heap \subseteq Blocks
  /\ count \in [Blocks -> Int]
  /\ pc \in [Threads -> [op : Ops \cup {"none"},
                         step : {"idle", "called", "record", "freed", "recorded"},
                         buffer : Blocks \cup {None}, got : Seq(Blocks),
                         index : Nat]]

(* The threads that owe the ledger a record of b, and those that have      *)
(* written one ahead of the fact.                                          *)
AllocOwed(b) ==
  {t \in Threads : /\ pc[t].step = "record"
                   /\ \E i \in pc[t].index .. Len(pc[t].got) : pc[t].got[i] = b}
FreeOwed(b)  == {t \in Threads : At(t, "free", "freed") /\ pc[t].buffer = b}
FreeAhead(b) == {t \in Threads : At(t, "free", "recorded") /\ pc[t].buffer = b}

InUse(b) == IF b \in heap THEN 1 ELSE 0

(* Every block the C library allocated is recorded once, and no block it   *)
(* did not allocate, for any number of entries, with or without a buffer,  *)
(* whoever is given the block in between (dirent.c:202-207, stdlib.c:112). *)
AllocBalance ==
  \A b \in Blocks :
    count[b] + Cardinality(AllocOwed(b)) + Cardinality(FreeAhead(b)) =
      InUse(b) + Cardinality(FreeOwed(b))

(* What a wrapper hands over is recorded before anyone can free it, so a   *)
(* FREE never precedes its ALLOC in the ledger (dirent.c:202-211).         *)
OwnedIsRecorded ==
  /\ \A b \in owned : count[b] >= 1
  /\ \A b \in Blocks : count[b] >= 0
=============================================================================

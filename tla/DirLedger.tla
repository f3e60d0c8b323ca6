----------------------------- MODULE DirLedger -----------------------------
(***************************************************************************)
(* Directory streams and descriptors against the resource ledger:          *)
(* p101_opendir, p101_fdopendir and p101_closedir (src/src/dirent.c) and   *)
(* p101_mkstemp (src/src/stdlib.c), called by several threads.             *)
(*                                                                         *)
(* Each wrapper first does the native call and then writes, one after the  *)
(* other, the records of what the call opened or closed.  Between the two  *)
(* other threads run, and the system may hand them a descriptor or a DIR   *)
(* pointer that the first thread has freed but not yet recorded as freed.  *)
(*                                                                         *)
(* The ledger (p101_env, external) is kept as balances: records of opening *)
(* minus records of closing, for each descriptor and for each pointer.     *)
(***************************************************************************)
EXTENDS Integers, FiniteSets

CONSTANTS
  Threads,
  Fds,       \* descriptors the process may have open
  Pointers,  \* addresses at which the C library may put a DIR
  MaxLost,   \* bound: closes that fail natively
  None       \* no descriptor, no stream

ASSUME LedgerAssumption ==
  /\ IsFiniteSet(Threads)
  /\ None \notin Fds \cup Pointers
  /\ "free" \notin Fds \cup {None}
  /\ MaxLost \in Nat

VARIABLES
  fds,       \* fds[fd]: what the kernel has open there: "free", a "file", a
             \* "dir" opened as a plain descriptor, or the one of a "stream"
  dirs,      \* dirs[p]: "free", or the descriptor (None: the stream has
             \* none, dirfd fails) of the DIR that lives at p
  raw,       \* the plain descriptors the application owns
  held,      \* the streams the application owns
  fdCount,   \* fdCount[fd]: OPEN records minus CLOSE records
  dirCount,  \* dirCount[p]: ACQUIRE records minus RELEASE records
  lostFd,    \* history: descriptors gone although closedir reported failure
  lostDir,   \* history: the same, for streams
  pc         \* pc[t]: the wrapper thread t executes, its step, its locals

vars == <<fds, dirs, raw, held, fdCount, dirCount, lostFd, lostDir, pc>>

kernel  == <<fds, dirs>>
owned   == <<raw, held>>
ledger  == <<fdCount, dirCount>>
history == <<lostFd, lostDir>>

Ops   == {"opendir", "fdopendir", "closedir", "mkstemp"}
Steps == {"called", "ready", "track_fd", "track_ptr"}
Idle  == [op |-> "none", step |-> "idle", ptr |-> None, fd |-> None]

At(t, op, step) == pc[t].op = op /\ pc[t].step = step

Goto(t, op, step, p, fd) ==
  pc' = [pc EXCEPT ![t] = [op |-> op, step |-> step, ptr |-> p, fd |-> fd]]

Proceed(t, step) == pc' = [pc EXCEPT ![t].step = step]

Return(t) == pc' = [pc EXCEPT ![t] = Idle]

Free(resources) == {x \in DOMAIN resources : resources[x] = "free"}

-----------------------------------------------------------------------------
Init ==
  /\ fds = [fd \in Fds |-> "free"]
  /\ dirs = [p \in Pointers |-> "free"]
  /\ raw = {} /\ held = {}
  /\ fdCount = [fd \in Fds |-> 0] /\ dirCount = [p \in Pointers |-> 0]
  /\ lostFd = [fd \in Fds |-> 0] /\ lostDir = [p \in Pointers |-> 0]
  /\ pc = [t \in Threads |-> Idle]

(* The application, between calls.  Code outside this repository opens and *)
(* closes plain descriptors and records both (p101_open, p101_close).      *)
AppOpen(t) ==
  /\ pc[t] = Idle
  /\ \E fd \in Free(fds) :
       /\ fds' = [fds EXCEPT ![fd] = "dir"]
       /\ raw' = raw \cup {fd}
       /\ fdCount' = [fdCount EXCEPT ![fd] = @ + 1]
  /\ UNCHANGED <<dirs, held, dirCount, history, pc>>

AppClose(t) ==
  /\ pc[t] = Idle
  /\ \E fd \in raw :
       /\ fds' = [fds EXCEPT ![fd] = "free"]
       /\ raw' = raw \ {fd}
       /\ fdCount' = [fdCount EXCEPT ![fd] = @ - 1]
  /\ UNCHANGED <<dirs, held, dirCount, history, pc>>

(* The application gives up what it passes until it sees the outcome.      *)
Call(t) ==
  /\ pc[t] = Idle
  /\ \/ /\ \E op \in {"opendir", "mkstemp"} : Goto(t, op, "called", None, None)
        /\ UNCHANGED owned
     \/ \E fd \in raw : /\ Goto(t, "fdopendir", "called", None, fd)
                        /\ raw' = raw \ {fd}
                        /\ UNCHANGED held
     \/ \E p \in held : /\ Goto(t, "closedir", "called", p, None)
                        /\ held' = held \ {p}
                        /\ UNCHANGED raw
  /\ UNCHANGED <<kernel, ledger, history>>

(* Definitions named Bug_... are plausible slips, none of them in the code *)
(* and none of them used by Spec: each is substituted for the definition   *)
(* it precedes, to see that a property notices (PROJECT.json, mutants).    *)

Bug_NullIsAStream(t) ==
  /\ held' = held \cup {pc[t].ptr}
  /\ raw' = raw \cup ({pc[t].fd} \cap Fds)

(* The arguments of a call that did nothing are the application's again.   *)
GiveBack(t) ==
  /\ held' = held \cup ({pc[t].ptr} \cap Pointers)
  /\ raw' = raw \cup ({pc[t].fd} \cap Fds)

(* The injector refuses the call before anything happens.                  *)
Fault(t) ==
  /\ pc[t].step = "called"
  /\ GiveBack(t)
  /\ Return(t)
  /\ UNCHANGED <<kernel, ledger, history>>

(* The native call fails and changes nothing (NULL or -1, whether or not   *)
(* errno says why): no record.  For closedir see ClosedirFails.            *)
NativeFails(t) ==
  /\ pc[t].step = "called"
  /\ pc[t].op # "closedir"
  /\ GiveBack(t)
  /\ Return(t)
  /\ UNCHANGED <<kernel, ledger, history>>

-----------------------------------------------------------------------------
Opendir(t) ==
  /\ At(t, "opendir", "called")
  /\ \E p \in Free(dirs) :
       \/ \E fd \in Free(fds) :
            /\ dirs' = [dirs EXCEPT ![p] = fd]
            /\ fds' = [fds EXCEPT ![fd] = "stream"]
            /\ Goto(t, "opendir", "track_fd", p, fd)
       \/ /\ dirs' = [dirs EXCEPT ![p] = None]
          /\ Goto(t, "opendir", "track_ptr", p, None)
          /\ UNCHANGED fds
  /\ UNCHANGED <<owned, ledger, history>>

Bug_FaultAfterFdopendir(t) ==
  /\ At(t, "fdopendir", "called")
  /\ fds[pc[t].fd] = "dir"
  /\ \E p \in Free(dirs) :
       /\ dirs' = [dirs EXCEPT ![p] = pc[t].fd]
       /\ fds' = [fds EXCEPT ![pc[t].fd] = "stream"]
       /\ \/ Goto(t, "fdopendir", "track_ptr", p, pc[t].fd) /\ UNCHANGED owned
          \/ GiveBack(t) /\ Return(t)
  /\ UNCHANGED <<ledger, history>>

(* The stream takes over the descriptor, which was recorded when opened.   *)
Fdopendir(t) ==
  /\ At(t, "fdopendir", "called")
  /\ fds[pc[t].fd] = "dir"
  /\ \E p \in Free(dirs) :
       /\ dirs' = [dirs EXCEPT ![p] = pc[t].fd]
       /\ fds' = [fds EXCEPT ![pc[t].fd] = "stream"]
       /\ Goto(t, "fdopendir", "track_ptr", p, pc[t].fd)
  /\ UNCHANGED <<owned, ledger, history>>

Bug_FaultAfterMkstemp(t) ==
  /\ At(t, "mkstemp", "called")
  /\ \E fd \in Free(fds) :
       /\ fds' = [fds EXCEPT ![fd] = "file"]
       /\ Goto(t, "mkstemp", "track_fd", None, fd) \/ Return(t)
  /\ UNCHANGED <<dirs, owned, ledger, history>>

Mkstemp(t) ==
  /\ At(t, "mkstemp", "called")
  /\ \E fd \in Free(fds) :
       /\ fds' = [fds EXCEPT ![fd] = "file"]
       /\ Goto(t, "mkstemp", "track_fd", None, fd)
  /\ UNCHANGED <<dirs, owned, ledger, history>>

Bug_NoDescriptor(p) == None

(* p101_closedir spells the pointer and asks for the descriptor while the  *)
(* stream is still there ...                                               *)
DescriptorOf(p) == dirs[p]

ReadDescriptor(t) ==
  /\ At(t, "closedir", "called")
  /\ Goto(t, "closedir", "ready", pc[t].ptr, DescriptorOf(pc[t].ptr))
  /\ UNCHANGED <<kernel, owned, ledger, history>>

(* What closing the stream does to the system.                             *)
Consume(p) ==
  /\ dirs' = [dirs EXCEPT ![p] = "free"]
  /\ fds' = [fd \in Fds |-> IF fd = dirs[p] THEN "free" ELSE fds[fd]]

Bug_InjectableDirfd(t) ==
  /\ At(t, "closedir", "ready")
  /\ Consume(pc[t].ptr)
  /\ \/ /\ Proceed(t, IF pc[t].fd = None THEN "track_ptr" ELSE "track_fd")
        /\ UNCHANGED owned
     \/ GiveBack(t) /\ Return(t)
  /\ UNCHANGED <<ledger, history>>

(* ... and needs neither of them afterwards.                               *)
Closedir(t) ==
  /\ At(t, "closedir", "ready")
  /\ Consume(pc[t].ptr)
  /\ Proceed(t, IF pc[t].fd = None THEN "track_ptr" ELSE "track_fd")
  /\ UNCHANGED <<owned, ledger, history>>

Bug_ReleaseOnFailure(t) ==
  /\ At(t, "closedir", "ready")
  /\ Proceed(t, "track_ptr")
  /\ UNCHANGED <<kernel, owned, ledger, history>>

Bug_RetryOnFailure(t) ==
  /\ At(t, "closedir", "ready")
  /\ Proceed(t, "called")
  /\ UNCHANGED <<kernel, owned, ledger, history>>

(* closedir returns -1: an error and no record.  The C library may or may  *)
(* not have consumed the stream; the application cannot know, and gives    *)
(* the stream up.                                                          *)
ClosedirFails(t) ==
  /\ At(t, "closedir", "ready")
  /\ \A p \in Pointers : lostDir[p] < MaxLost
  /\ \/ /\ Consume(pc[t].ptr)
        /\ lostDir' = [lostDir EXCEPT ![pc[t].ptr] = @ + 1]
        /\ lostFd' = [fd \in Fds |-> IF fd = dirs[pc[t].ptr] THEN lostFd[fd] + 1
                                                            ELSE lostFd[fd]]
     \/ UNCHANGED <<kernel, history>>
  /\ Return(t)
  /\ UNCHANGED <<owned, ledger>>

-----------------------------------------------------------------------------
Bug_MkstempUnrecorded(t) ==
  /\ pc[t].step = "track_fd"
  /\ pc[t].op \in {"opendir", "mkstemp"}
  /\ IF pc[t].op = "mkstemp"
       THEN raw' = raw \cup {pc[t].fd} /\ Return(t) /\ UNCHANGED fdCount
       ELSE /\ fdCount' = [fdCount EXCEPT ![pc[t].fd] = @ + 1]
            /\ Proceed(t, "track_ptr") /\ UNCHANGED raw
  /\ UNCHANGED <<kernel, held, dirCount, history>>

(* The records, in the order the wrappers write them.                      *)
TrackOpen(t) ==
  /\ pc[t].step = "track_fd"
  /\ pc[t].op \in {"opendir", "mkstemp"}
  /\ fdCount' = [fdCount EXCEPT ![pc[t].fd] = @ + 1]
  /\ IF pc[t].op = "mkstemp" THEN raw' = raw \cup {pc[t].fd} /\ Return(t)
                             ELSE Proceed(t, "track_ptr") /\ UNCHANGED raw
  /\ UNCHANGED <<kernel, held, dirCount, history>>

TrackClose(t) ==
  /\ At(t, "closedir", "track_fd")
  /\ fdCount' = [fdCount EXCEPT ![pc[t].fd] = @ - 1]
  /\ Proceed(t, "track_ptr")
  /\ UNCHANGED <<kernel, owned, dirCount, history>>

TrackAcquire(t) ==
  /\ pc[t].step = "track_ptr"
  /\ pc[t].op \in {"opendir", "fdopendir"}
  /\ dirCount' = [dirCount EXCEPT ![pc[t].ptr] = @ + 1]
  /\ held' = held \cup {pc[t].ptr}
  /\ Return(t)
  /\ UNCHANGED <<kernel, raw, fdCount, history>>

TrackRelease(t) ==
  /\ At(t, "closedir", "track_ptr")
  /\ dirCount' = [dirCount EXCEPT ![pc[t].ptr] = @ - 1]
  /\ Return(t)
  /\ UNCHANGED <<kernel, owned, fdCount, history>>

(* A thread inside a wrapper: every step it can take there.                *)
Wrapper(t) ==
  \/ Fault(t) \/ NativeFails(t)
  \/ Opendir(t) \/ Fdopendir(t) \/ Mkstemp(t)
  \/ ReadDescriptor(t) \/ Closedir(t) \/ ClosedirFails(t)
  \/ TrackOpen(t) \/ TrackClose(t) \/ TrackAcquire(t) \/ TrackRelease(t)

Next == \E t \in Threads : AppOpen(t) \/ AppClose(t) \/ Call(t) \/ Wrapper(t)

Spec == Init /\ [][Next]_vars

(* A native directory call returns, and a thread inside a wrapper is run.  *)
Fairness == \A t \in Threads : WF_vars(Wrapper(t))

FairSpec == Spec /\ Fairness

-----------------------------------------------------------------------------
TypeOK ==
  /\ fds \in [Fds -> {"free", "file", "dir", "stream"}]
  /\ dirs \in [Pointers -> Fds \cup {None, "free"}]
  /\ raw \subseteq Fds /\ held \subseteq Pointers
  /\ fdCount \in [Fds -> Int] /\ dirCount \in [Pointers -> Int]
  /\ lostFd \in [Fds -> Nat] /\ lostDir \in [Pointers -> Nat]
  /\ pc \in [Threads -> {Idle} \cup
               [op : Ops, step : Steps, ptr : Pointers \cup {None},
                fd : Fds \cup {None}]]

(* The threads that owe the ledger a record.                               *)
OpenOwed(fd) ==
  {t \in Threads : /\ pc[t].step = "track_fd" /\ pc[t].op \in {"opendir", "mkstemp"}
                   /\ pc[t].fd = fd}
CloseOwed(fd) == {t \in Threads : At(t, "closedir", "track_fd") /\ pc[t].fd = fd}

AcquireOwed(p) ==
  {t \in Threads : /\ pc[t].step \in {"track_fd", "track_ptr"}
                   /\ pc[t].op \in {"opendir", "fdopendir"} /\ pc[t].ptr = p}
ReleaseOwed(p) ==
  {t \in Threads : /\ pc[t].step \in {"track_fd", "track_ptr"}
                   /\ pc[t].op = "closedir" /\ pc[t].ptr = p}

InUse(x) == IF x = "free" THEN 0 ELSE 1

(* The balance of a descriptor counts exactly what the kernel has open,    *)
(* the records still owed and the closes that failed after the fact: no    *)
(* interleaving loses a record, writes one twice or charges it to another  *)
(* descriptor (dirent.c:68-81 and 142-152, stdlib.c:75-85).                *)
DescriptorsBalance ==
  \A fd \in Fds :
    fdCount[fd] + Cardinality(OpenOwed(fd)) =
      InUse(fds[fd]) + Cardinality(CloseOwed(fd)) + lostFd[fd]

(* The same for streams, by address (dirent.c:61, 82, 122 and 151).        *)
StreamsBalance ==
  \A p \in Pointers :
    dirCount[p] + Cardinality(AcquireOwed(p)) =
      InUse(dirs[p]) + Cardinality(ReleaseOwed(p)) + lostDir[p]

(* A prefix of the ledger never shows more closes than opens, even when a  *)
(* freed descriptor or address is reused before its closing is recorded.   *)
NeverNegative ==
  /\ \A fd \in Fds : fdCount[fd] >= 0
  /\ \A p \in Pointers : dirCount[p] >= 0

(* What the application owns after any outcome of any call is really there *)
(* and the ledger knows it: a refused closedir has not consumed the stream *)
(* and a successful one is not owned any more (dirent.c:56 and 63-70).     *)
OwnedIsThere ==
  /\ \A p \in held : /\ dirs[p] # "free" /\ dirCount[p] > 0
                     /\ dirs[p] \in Fds =>
                          fds[dirs[p]] = "stream" /\ fdCount[dirs[p]] > 0
  /\ \A fd \in raw : fds[fd] \in {"file", "dir"} /\ fdCount[fd] > 0

(* No descriptor serves two streams: fdopendir hands its descriptor over   *)
(* exactly when it succeeds (dirent.c:107-127).                            *)
OneStreamPerDescriptor ==
  \A p, q \in Pointers : p # q /\ dirs[p] \in Fds => dirs[p] # dirs[q]

(* Without a second thread nothing is reused before it is recorded.  Where *)
(* no close has failed after it had taken effect, the ledger reads as an   *)
(* alternation of opening and closing, and between calls it is the truth.  *)
(* A close that did (dirent.c:72-75 cannot tell) leaves its descriptor and *)
(* its stream in the ledger for good: between calls it shows too much of   *)
(* them, never too little.                                                 *)
AloneExact ==
  LET Shown(count, lost, use) == IF lost = 0 THEN count = use ELSE count > use
  IN Cardinality(Threads) = 1 =>
       /\ \A fd \in Fds : lostFd[fd] = 0 => fdCount[fd] \in {0, 1}
       /\ \A p \in Pointers : lostDir[p] = 0 => dirCount[p] \in {0, 1}
       /\ (\A t \in Threads : pc[t] = Idle) =>
            /\ \A fd \in Fds : Shown(fdCount[fd], lostFd[fd], InUse(fds[fd]))
            /\ \A p \in Pointers : Shown(dirCount[p], lostDir[p], InUse(dirs[p]))

(* Every call ends with its records written: however threads compete for   *)
(* descriptors and addresses, none waits in a wrapper for another, and no  *)
(* debt to the ledger lasts (dirent.c:49-156, stdlib.c:57-94).             *)
DebtsPaid == \A t \in Threads : pc[t] # Idle ~> pc[t] = Idle

-----------------------------------------------------------------------------
(* The implementation of the contract: the records a call still owes count *)
(* as written, and its steps after the native call as one.                 *)
Abstract(c) ==
  [op |-> c.op, ptr |-> c.ptr, fd |-> IF c.op = "closedir" THEN None ELSE c.fd,
   phase |-> CASE c.step \in {"called", "ready"}       -> "pending"
               [] c.step \in {"track_fd", "track_ptr"} -> "done"
               [] OTHER                                -> "none"]

Contract ==
  INSTANCE DirLedgerContract
    WITH calls  <- [t \in Threads |-> Abstract(pc[t])],
         fdLog  <- [fd \in Fds |-> fdCount[fd] + Cardinality(OpenOwed(fd))
                                               - Cardinality(CloseOwed(fd))],
         dirLog <- [p \in Pointers |-> dirCount[p] + Cardinality(AcquireOwed(p))
                                                   - Cardinality(ReleaseOwed(p))]

(* Each call has its effect on the system and on the ledger at one moment, *)
(* that of the native call, whatever the other threads' records in between *)
(* (dirent.c:49-87 and 107-156, stdlib.c:57-94).                           *)
ContractSpec == Contract!Spec
=============================================================================

# lib_filesystem in TLA+

`lib_filesystem` wraps the directory, path, metadata and traversal calls of the
C library for the p101 portable subset.  A wrapper adds four things to the call
it wraps: it asks a *fault injector* whether to fail instead, it turns the
native failure convention into an *error object*, it writes *records* of the
resources the call opened or closed into a ledger, and, for the tree walks, it
finds the caller's *callback* again inside a native function that has no user
data.  These modules specify those four things, check them with TLC on small
instances, and prove their safety and their refinements with TLAPS for all
instances.

Paths below are relative to the repository's own `src/` (so `ftw.c` is
`src/src/ftw.c` in `PROJECT.json`).

## Inventory

| Part | State | Operations | What makes it hard | What makes it correct |
|---|---|---|---|---|
| Tree walks (`ftw.c`) | one structure per walk on the C stack; one thread-local pointer per family | `p101_ftw`, `p101_nftw`, two dispatchers | callbacks start walks; threads; a callback's -1 against the walker's -1; `longjmp`; errno that the walker did not set | each entry reaches the callback of its own walk; the caller gets an error exactly for a failure |
| Streams and descriptors (`dirent.c`, `mkstemp` in `stdlib.c`) | kernel descriptors, DIR objects, ledger records | `opendir`, `fdopendir`, `closedir`, `mkstemp` | native call and record are separate steps, so descriptors and addresses are reused in between; `closedir` may fail after it has consumed the stream; who owns a descriptor after a failed `fdopendir` | the ledger balances with the kernel; the caller knows what it owns |
| Error protocol (all files) | errno, the error object | 57 wrappers around one native call each | errno is shared and stale; NULL or -1 need not be a failure; callbacks of `scandir` and `glob` run other wrappers | an error is raised exactly for a failure, with its own code |
| Glob results (`glob.c`) | ledger records by the result's address | `glob`, `globfree` | partial results of an aborted `glob`; `GLOB_APPEND` acquires twice; `globfree` releases whatever it is given | the ledger is right about plain results whose calls did not fail, and errs in a known direction otherwise |
| Allocations (`scandir` in `dirent.c`, `realpath` in `stdlib.c`) | heap blocks, ledger records | `scandir`, `realpath`; freeing is `p101_free`'s | one result is many blocks, recorded one by one while other threads free and allocate; `realpath` allocates only without a buffer | one record for each block the C library made, before anyone can free it |
| Reading streams (`dirent.c`) | the stream's position (the C library's), errno, the caller's error object | `readdir`, `telldir`, `seekdir`, `rewinddir` | NULL is the end or a failure, -1 a location or a failure; the error object is never cleared by a wrapper and is shared by loops | no entry is lost, no failure passes for the end, no end for a failure |
| `p101_env`, `p101_error` | other repositories | injector, observers, ledger, error objects | | external here |

The parts meet in the step sequence that all wrappers share
(`p101_env/wrapper.h`): trace, injector, `errno = 0`, native call, raise,
record, trace.  The ledger and the error object are written by the wrapper's own
thread, synchronously.

## Modules

| Module | Models | Checked by | Proved in |
|---|---|---|---|
| `TreeWalkTypes` | constants and vocabulary of the walks | | |
| `TreeWalkContract` | what a walk promises, without pointers | | |
| `TreeWalk` | `ftw.c:20-137`; implements `TreeWalkContract` | `MCTreeWalk` | `TreeWalk_proofs` |
| `DirLedgerContract` | a ledger that changes together with the system | | |
| `DirLedger` | `dirent.c:49-87, 107-156`, `stdlib.c:57-94`; implements `DirLedgerContract` | `MCDirLedger` | `DirLedger_proofs` |
| `WrapperOps` | the wrappers by class | | |
| `CallContract` | what a call promises, without errno | | |
| `WrapperCall` | the shared step sequence; implements `CallContract` | `MCWrapperCall` | `WrapperCall_proofs` |
| `WalkCalls` | `TreeWalk` and `WrapperCall` in one thread | `MCWalkCalls` | `WalkCalls_proofs` |
| `GlobLedger` | `glob.c:38-78` | `MCGlobLedger` | `GlobLedger_proofs` |
| `AllocLedger` | `dirent.c:185-212`, `stdlib.c:99-119` | `MCAllocLedger` | `AllocLedger_proofs` |
| `DirReading` | `dirent.c:158-182, 214-238` | `MCDirReading` | `DirReading_proofs` |
| `CountingLemmas` | no code: how the size of a set follows one member | | itself |

**TreeWalk.** `frames[t]` is thread *t*'s stack of walks in progress.  A frame
is the wrapper's local structure (`callback`, `stopped`, `previous`), plus where
the native walker is (`phase`), plus the dispatcher's locals (`context`, and the
function it called, `running`).  `active` holds the two `_Thread_local` pointers.
An address is `<<thread, depth>>`; it is *live* while that frame exists.  Reading
a callback through an address that is not live yields any function, which is how
an undefined read shows.  One action per piece of code that runs without giving
up control: `InjectedFault`, `InvalidArguments`, `StartFtw`/`StartNftw` (from
filling the structure to entering the native walker), `CallFtwCallback`/
`CallNftwCallback` (the dispatcher up to the callback), `CallbackReturns` (the
rest of the dispatcher), `ReturnFtw`/`ReturnNftw` (the epilogue).  The native walker is
external: `NativeEnds` lets it succeed or fail at any time it is running, with
errno set or not.  `LongJump` is a callback that leaves walks without their
epilogues.

**DirLedger.** The wrapper's steps are separated exactly where another thread can
see the difference: before the native call, after it, and after each record.
`pc[t]` holds the step and the wrapper's locals (the spelled pointer and the
descriptor that `p101_closedir` reads before the stream goes away).  The ledger
is kept as balances.  The application gives up what it passes to a call and gets
it back only if the call did nothing; it may pass a stream from one thread to
another.  Opening and closing plain descriptors happens outside this repository
and is one external action each.  `DirLedgerContract` has the same calls but a single
moment at which the system and the ledger change together; the refinement counts
the records a call still owes as written.

**WrapperCall.** One call is `Enter`, `Fault` or `ResetErrno`, one of
`NativeSucceeds`, `NativeFails`, `NativeHasNothing`, and `Return`, which decides
from the value and errno alone.  What the native function *meant* is a history
component that `Return` does not read.  The 57 wrappers appear by name, in the
sets of `WrapperOps`, and behave by class: `Strict`, `Ambiguous` (`&& errno != 0`),
`Defaulted` (`renameat`), `Coded` (`fnmatch`, `glob`), `Infallible`.

**WalkCalls** joins the two in one thread by instantiating both.  `stack` is the
order in which walks and calls are nested; only the innermost may proceed, and
application code runs where the innermost lets it.  What `TreeWalk` leaves to
`SetErrno` is here done by calls, and what `WrapperCall` leaves to `Clobber` by walks.

**GlobLedger.** One action per wrapper and outcome: a result belongs to one thread
at a time and shares nothing.  The constants name, result by result, which of the
legal uses the application makes of it (`Appended`, `Cleaned`, `Mixed`).  `paths`
is what the results really hold, whoever put it there, and every property compares
the ledger with it; `matched` and `failed` are what the calls returned to the
application.

**AllocLedger.** The wrapper's steps are the native call and then each
`P101_TRACK_ALLOC`; `got` and `index` are the loop's.  `p101_free` is external
and its two halves may come in either order.  Wrappers called by `sel` and `compar`
finish before `scandir` returns blocks, so to this ledger they are another thread's.

**DirReading.** One action per answer of a wrapper, together with what the loop
makes of it (`Judge`), since nothing of the thread runs in between.  `Careful` are
the loops that reset the error object before each call.  Positions and locations
belong to the C library; the first location is -1 to coincide with the failure value.

What the native function meant has three values (`Meanings`).  `nothing` is whatever
the wrapper is not to report: the end of a directory, no limit, no match, but also
the NULL without errno that `fdopendir`, `basename` and `dirname` might return.  That
would be a failure, and it goes unreported (`dirent.c:116`, `libgen.c:45`):
`NothingStale` speaks of failures that give a reason, and of `renameat`'s.

Definitions named `Bug_...` are plausible slips, used by no specification.  The
`mutants` of `PROJECT.json` substitute each for the definition it precedes, and
TLC must then find the named property violated.

## What the runs check

| Run | Instance | Properties | Shows |
|---|---|---|---|
| `walk_nested` | 1 thread, depth 3, 2 callbacks | `TypeOK`, `PointersChained`, `NothingDangles`, `DispatchToOwner`, `NoSpuriousError`, `NativeFailureReported` | nested walks, portable contract |
| `walk_threads` | 2 threads, depth 2, 1 code | `DispatchToOwner` | the pointers must be thread-local |
| `walk_contract` | 1 thread, depth 3, skip requests, `longjmp` | `WalkInv`, `ContractSpec` | refinement of `TreeWalkContract`; the inductive invariant |
| `ledger_threads` | 3 threads, 2 descriptors, 2 addresses | `TypeOK`, `DescriptorsBalance`, `StreamsBalance`, `NeverNegative`, `OwnedIsThere`, `OneStreamPerDescriptor` | no interleaving corrupts the ledger or the ownership |
| `ledger_alone` | 1 thread | `AloneExact` | one thread's ledger is the truth between calls, except about what a failing close has taken |
| `ledger_live` | 2 threads, 1 descriptor, 1 address, fairness | `DebtsPaid` | every call ends with its records written |
| `ledger_contract` | 2 threads, 2 descriptors, 2 addresses | `ContractSpec` | a call changes system and ledger as if at once |
| `glob_results` | 5 results, one for each kind of use | `TypeOK`, `PlainExact`, `DriftHasADirection`, `DriftNeverHeals` | where the ledger is right about results, where it errs and that it then stays wrong |
| `alloc_ledger` | 3 threads, 5 blocks, up to 3 entries | `TypeOK`, `AllocBalance`, `OwnedIsRecorded` | one record per block, in time |
| `dir_reading` | a careful and a careless loop, 2 entries, 3 failures, fairness | `TypeOK`, `NothingSkipped`, `EndIsTheEnd`, `ErrorIsItsOwn`, `LoopEnds` | verdicts of reading loops are true, and a careful loop that retries ends |
| `walk_calls` | 2 walks and 2 calls nested, 3 wrappers | `TypeOK`, `DispatchToOwner`, `NothingStale`, `WalksKeepContract`, `CallsKeepContract` | walks and calls do not disturb each other |
| `wrapper_errno` | all 57 wrappers, 2 codes, calls nested 3 deep | `TypeOK`, `NothingStale`, `ContractSpec` | errno never leaks into a verdict; a call is refused before anything native or not at all |

**Observations worth knowing.**  The ledger balances in every interleaving,
but it is not a strict alternation once there are two threads: thread B may
record OPEN of a descriptor number, or ACQUIRE of an address, that thread A has
freed but not yet recorded as freed.  A reader of the records that pairs them one
by one rather than counting them will pair them wrongly (`AloneExact` holds only
for one thread).  With one thread the alternation has an exception too: a
`closedir` that fails although it has consumed the stream writes no record
(`dirent.c:72-75`), so the ledger keeps that descriptor and that stream, and a reuse
of the number reads OPEN after OPEN.  `AloneExact` claims exactness where no close has
failed in that way, and that otherwise the ledger shows too much, never too little.
And a walk whose callback answered with a skip request under
`FTW_ACTIONRETVAL` has its `stopped` flag set, so a native failure later in that
walk returns -1 with no error raised (`ftw.c:61, 130`); `NativeFailureReported`
is therefore asserted for `SkipResults = {}` and the contract states the
exception.  The library's manifest covers the portable intersection only, in
which that flag does not exist.

The records of glob results are right only for plain use, one `globfree` for each
matching call, and then with an exception: the paths that an aborted call leaves
behind have to be freed and no record shows them (`PlainExact`).  An application
that therefore frees a result whatever the outcome, or that frees a plain `glob`'s
result through the wrapper, as `test_behavior.c:160-165` does, drives the balance
down (`glob.c:76` releases unconditionally).  A later result at that address is
then hidden from a reader who looks for positive balances, and so is every one
after it: without `GLOB_APPEND` the balance never catches up (`DriftNeverHeals`).
`GLOB_APPEND` drives it up and shows a leak that is none (`glob.c:64`).
`DriftHasADirection` says that neither kind does the other's harm.
And a reading loop must reset its error object: the wrappers never do, so after
any earlier error the end of a directory is judged a failure.  Such a loop still
never takes a failure for the end (`EndIsTheEnd` holds for careless loops too).

**Bounds.** `MaxDepth` bounds nested walks and nested calls.  Depth 3 contains
the patterns that matter: same family directly nested, the other family in
between, and a third walk after one of them was left.  Two callbacks suffice to
tell the right one from a wrong one, two codes to tell the right errno from a
stale one.  In `DirLedger`, `MaxLost` bounds failing closes; two descriptors and
addresses with three threads make a thread that frees, one that reuses and one
that holds.  Symmetry is used over callbacks, threads, descriptors, addresses, blocks
in the runs that check invariants only.  `walk_threads` nests each thread's walks
once, so that one thread's epilogue can come between another's start and dispatch;
errno plays no part in it and one code is enough.  In `ledger_contract` two threads
suffice for a call to come between another's native call and its records.
`MaxEntries` = 3 gives the recording loop a first, a middle and a last round, and
five blocks let a second thread allocate beside it.  `MaxDrift` bounds how far
the balance of one result may go, `MaxFailures` the calls of all reading loops that fail: more
than one loop needs to fail, retry and fail again.  Two entries make a beginning, a
middle and an end.  In `walk_calls` two walks and two calls contain a walk inside a
call inside a walk and the converse; `scandir` calls back, `readdir` and `renameat`
are the classes that decide from errno.

**Fairness.** Two properties are about liveness.  For `DebtsPaid`, `Fairness` is weak
fairness of `Wrapper(t)` for each thread: a thread that is inside a wrapper is
eventually run and the native directory calls return.  Nothing is assumed of the
application.  For `LoopEnds`, weak fairness of `Readdir(s)` says that the
application goes on with a loop it has not finished and that native `readdir`
returns; failures are bounded by `MaxFailures`, without which no retry need ever
succeed.  The walks get no liveness property: a native walk takes as long as
the tree and its callbacks do.

## What is proved

Every invariant and action property of the runs, and each of the five
refinements, is a theorem `Spec => ...` that TLAPS checks for every value of
the constants.  A proof assumes the `ASSUME` of its component's module and
nothing else: that the constants are what their names say (codes are not 0,
bounds are numbers, sets of threads are finite where they are counted) and that
the values standing for "none" are not among the values they stand beside.  For
`DirLedger` the latter includes `"free" \notin Fds \cup {None}`: a DIR
that is free and one over a descriptor, or over none, must be told apart.

| Module | Inductive invariant | Results |
|---|---|---|
| `TreeWalk_proofs` | `WalkInv` | `TypeCorrect`, `DispatchCorrect`, `PointersCorrect`, `ErrorsAreGenuine`, `FailuresAreReported`, `NothingDanglesEver`, `WalksKeepTheContract` |
| `DirLedger_proofs` | `Owners`, then `LedgerInv` | `TypeCorrect`, `DescriptorsAreExclusive`, `DescriptorsAlwaysBalance`, `StreamsAlwaysBalance`, `NoNegativeBalance`, `OwnedIsAlwaysThere`, `AloneIsExact`, `LedgerKeepsTheContract` |
| `AllocLedger_proofs` | `LedgerInv` | `TypeCorrect`, `AllocationsAlwaysBalance`, `OwnedIsAlwaysRecorded` |
| `GlobLedger_proofs` | `LedgerInv` | `TypeCorrect`, `PlainUseIsExact`, `DriftIsDirected`, `DriftIsPermanent` |
| `DirReading_proofs` | `ReadingInv` | `TypeCorrect`, `NoEntryIsSkipped`, `NoFalseEnd`, `ErrorsAreAttributed` |
| `WrapperCall_proofs` | `CallInv` | `TypeCorrect`, `NothingIsEverStale`, `CallsKeepTheContract` |
| `WalkCalls_proofs` | `ThreadInv` | `TypeCorrect`, `DispatchCorrect`, `NothingIsEverStale`, `WalksAreUndisturbed`, `CallsAreUndisturbed`, `WalksStillKeepTheContract`, `CallsStillKeepTheContract` |

**Walks.** `DispatchToOwner` is not inductive by itself.  When the dispatcher reads the
pointer it must be the innermost walk's, which is `PointersChained`, first part.
When a walk ends, the pointer becomes what that walk saved, which must be the
next walk of the same family down the stack, its second part.  The callback's
answer is charged through the address the dispatcher loaded before the call, so
the address must still be the thread's innermost frame: only the innermost walk
runs code (`EnclosingInCallback`).  The verdict needs the flag, the result and
the phase of a walk to agree (`VerdictsAgree`).  Every step changes one thread's
stack by pushing a frame, replacing the innermost one or cutting the stack;
`PushFacts`, `PokeFacts` and `CutFacts` describe these pointwise, and one lemma
per action reduces the action to its kind.  `PointersChained` says nothing of a
family that has no walk, so `NothingDangles` needs more: without `longjmp` every
pointer, published or saved, is *exactly* the nearest walk of its family further
out, or null if there is none (`PointersExact`).  For the refinement, forgetting
the pointers commutes with the three changes of a stack (`WalksPush`,
`WalksPoke`, `WalksCut`); then `DispatchToOwner` is what makes a dispatcher's step
a `Deliver` of the contract.

**Streams and descriptors.** A balance counts threads that owe a record, and a
record names a descriptor by its number.  That the count stays right rests on who
is responsible for what (`Owners`): each open stream or descriptor is the
application's or one call's, never two calls'; what `p101_closedir` remembered of
its stream is true until its own `closedir`; and only then may its records speak of
what is by now somebody else's.  Each action changes what one thread owes, so each
cardinality changes by at most one (`CountStep` in `CountingLemmas`).
`NeverNegative` and `OwnedIsThere` follow from the balances and the owners,
`AloneExact` from the sets of debtors having at most one member, the lost closes
being what a balance exceeds the truth by.  In the
refinement the contract's ledger is the balances with the records owed counted as
written, which by `LedgerInv` is what is in use plus what failed closes took
(`LogsAreTrue`): native steps change it, records do not.

**Allocations** follow the same line, with a loop: a call in its recording loop
owes exactly the blocks from its index on, and it names each once because the
blocks of one result are distinct.

**Glob results** need that the records agree with the calls that returned 0 as far as
the use of a result lets them, and that a plain result holds unmatched paths only
while its latest call is one that failed (`RecordsMatch`).  `DriftNeverHeals` needs
types only: a call without `GLOB_APPEND` finds the result empty.  **Reading loops** need that a loop that is over
stopped at the end, and that none has gone back behind its start (`StoppedAtEnd`).

**Calls.** `NothingStale` speaks of calls that have ended; what must be known of those in
progress is that the verdict about to be computed is right (`VerdictIsRight`).
That in turn needs errno to be 0 when the native function starts, unless it calls
back (`ErrnoFresh`), and that only calls that call back have calls inside them
(`WellNested`): those two, `scandir` and `glob`, read errno only after a failure
that has set it, or not at all.

**Walks and calls together** need no proof of their own about errno.  Every step of
`WalkCalls` is a step, or none, of `TreeWalk` and also of `WrapperCall`
(`StepOfWalks`, `StepOfCalls`), because whatever is not innermost waits in a callback
(`OthersWait`).  So the invariants and refinements of both are carried over from
the two modules of proofs, used through `INSTANCE` with the thread's part of
errno.

**Only model-checked:** the two liveness properties, `DebtsPaid` and `LoopEnds`.
Neither fairness nor ENABLED is within the prover's reach.

## What is not modelled, and why

* The files and directories the native calls act on: the wrappers pass arguments
  and results through.  Trace, wording of messages, path spelling.
* The order in which an application frees a `scandir` result: it is the
  application's, and freeing is outside this repository.
* Calls that lose memory or use it after it is freed: a `glob` without
  `GLOB_APPEND` over a result that holds paths, a `seekdir` to a location that
  `telldir` failed to give.
* Thread safety of the native functions themselves (`basename`, `umask`).
* `p101_env` and `p101_error` are other repositories; they appear through what
  the macros do at their uses here.
* Signal handlers that change errno without restoring it.
* That a refused call leaves errno alone: one line of each wrapper and of `Fault`,
  and nothing in this code depends on it; `test_fault_wrappers_dirent.c:246` checks
  it.  That refusal comes before the native call is in the contract of calls and in
  the balances.
* A `longjmp` out of some but not all walks of one family: the code does not
  survive it (the outer walk's pointer dangles) and claims nothing about it.
* `design/unsupported`, generated tests, build files.

## Plan

1. Done: `TreeWalk` with its contract and invariant proof; `DirLedger` with its
   contract; `WrapperCall` with its contract; `WalkCalls`; `GlobLedger`;
   `AllocLedger`; `DirReading`.
2. Done: proofs of the safety properties and of the refinements of all components.
3. Worth adding: a theorem that a weaker application (one that closes a descriptor
   it does not own) breaks `OwnedIsThere` only for that descriptor; the safety half
   of `DebtsPaid`, that a call in progress always has a step it can take, stated
   without ENABLED.

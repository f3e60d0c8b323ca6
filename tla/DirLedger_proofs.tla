-------------------------- MODULE DirLedger_proofs --------------------------
(***************************************************************************)
(* Proofs about DirLedger, for any finite number of threads and any sets   *)
(* of descriptors and addresses.                                           *)
(*                                                                         *)
(* The balances are not inductive by themselves: that a record is neither  *)
(* lost nor charged to another resource rests on who is responsible for    *)
(* which resource.  A stream or a descriptor that is open belongs to the   *)
(* application or to one call in progress, never to two of them; what a    *)
(* call remembers of a stream is true until its own closedir; and it is    *)
(* only after that closedir that a call's records speak of resources which *)
(* may already be somebody else's.                                         *)
(***************************************************************************)
EXTENDS DirLedger, CountingLemmas

-----------------------------------------------------------------------------
(* What the locals of a call are at each of its steps.                     *)
WellFormed(c) ==
  /\ c.step = "ready"    => c.op = "closedir"
  /\ c.step = "track_fd" => c.op # "fdopendir" /\ c.fd \in Fds
  /\ c.op = "mkstemp"    => c.step \in {"called", "track_fd"} /\ c.ptr = None
  /\ c.op = "closedir"   => c.ptr \in Pointers
  /\ c.op = "fdopendir"  => c.fd \in Fds
  /\ c.step = "called"   => /\ c.op # "closedir" => c.ptr = None
                            /\ c.op # "fdopendir" => c.fd = None
  /\ c.step # "called" /\ c.op \in {"opendir", "fdopendir"} => c.ptr \in Pointers

Shapes == \A t \in Threads : WellFormed(pc[t])

(* The call is responsible for the stream at c.ptr: it has made it or is   *)
(* about to close it.                                                      *)
HasStream(c) ==
  \/ c.op \in {"opendir", "fdopendir"} /\ c.step \in {"track_fd", "track_ptr"}
  \/ c.op = "closedir" /\ c.step \in {"called", "ready"}

(* The call is responsible for the plain descriptor c.fd.                  *)
HasPlain(c) ==
  \/ c.op = "fdopendir" /\ c.step = "called"
  \/ c.op = "mkstemp" /\ c.step = "track_fd"

(* A stream is open while somebody is responsible for it, and that is the  *)
(* application or one call; the call knows the stream's descriptor.        *)
StreamOwners ==
  /\ \A p \in held : dirs[p] # "free"
  /\ \A t \in Threads : HasStream(pc[t]) =>
       /\ dirs[pc[t].ptr] # "free" /\ pc[t].ptr \notin held
       /\ pc[t].step # "called" => pc[t].fd = dirs[pc[t].ptr]
  /\ \A t, u \in Threads :
       t # u /\ HasStream(pc[t]) /\ HasStream(pc[u]) => pc[t].ptr # pc[u].ptr

(* The same for the descriptors that are not a stream's.                   *)
PlainOwners ==
  /\ \A fd \in raw : fds[fd] \in {"file", "dir"}
  /\ \A t \in Threads : HasPlain(pc[t]) =>
       fds[pc[t].fd] \in {"file", "dir"} /\ pc[t].fd \notin raw
  /\ \A t, u \in Threads :
       t # u /\ HasPlain(pc[t]) /\ HasPlain(pc[u]) => pc[t].fd # pc[u].fd

StreamDescriptors ==
  /\ \A p \in Pointers : dirs[p] \in Fds => fds[dirs[p]] = "stream"
  /\ OneStreamPerDescriptor

Owners == TypeOK /\ Shapes /\ StreamOwners /\ PlainOwners /\ StreamDescriptors

(* A thread that is alone finds what it closed still free when it records  *)
(* the closing.                                                            *)
AloneFree ==
  Cardinality(Threads) = 1 =>
    \A t \in Threads : pc[t].op = "closedir" =>
      /\ pc[t].step = "track_fd" => fds[pc[t].fd] = "free"
      /\ pc[t].step \in {"track_fd", "track_ptr"} => dirs[pc[t].ptr] = "free"

LedgerInv == Owners /\ DescriptorsBalance /\ StreamsBalance /\ AloneFree

-----------------------------------------------------------------------------
(* A step of one thread, as seen from pc.                                  *)
Records ==
  {Idle} \cup
  [op : Ops, step : Steps, ptr : Pointers \cup {None}, fd : Fds \cup {None}]

Moves(t) ==
  pc' \in [Threads -> Records] /\ \A u \in Threads \ {t} : pc'[u] = pc[u]

LEMMA GotoMoves ==
  ASSUME TypeOK, NEW t \in Threads, NEW op \in Ops, NEW step \in Steps,
         NEW p \in Pointers \cup {None}, NEW fd \in Fds \cup {None},
         Goto(t, op, step, p, fd)
  PROVE  /\ Moves(t)
         /\ pc'[t].op = op /\ pc'[t].step = step
         /\ pc'[t].ptr = p /\ pc'[t].fd = fd
BY DEF TypeOK, Goto, Moves, Records

LEMMA ProceedMoves ==
  ASSUME TypeOK, NEW t \in Threads, NEW step \in Steps, pc[t].op \in Ops,
         Proceed(t, step)
  PROVE  /\ Moves(t)
         /\ pc'[t].op = pc[t].op /\ pc'[t].step = step
         /\ pc'[t].ptr = pc[t].ptr /\ pc'[t].fd = pc[t].fd
BY DEF TypeOK, Proceed, Moves, Records, Idle, Ops

LEMMA ReturnMoves ==
  ASSUME TypeOK, NEW t \in Threads, Return(t)
  PROVE  /\ Moves(t)
         /\ pc'[t] = Idle /\ pc'[t].op = "none" /\ pc'[t].step = "idle"
BY DEF TypeOK, Return, Moves, Records, Idle

(* The locals of a call, at each step.                                     *)
LEMMA CallFacts ==
  ASSUME Owners, NEW t \in Threads
  PROVE  /\ pc[t] \in Records /\ WellFormed(pc[t])
         /\ pc[t] = Idle <=> pc[t].op = "none"
         /\ pc[t] = Idle <=> pc[t].step = "idle"
         /\ pc[t].op # "none" => /\ pc[t].op \in Ops /\ pc[t].step \in Steps
                                 /\ pc[t].ptr \in Pointers \cup {None}
                                 /\ pc[t].fd \in Fds \cup {None}
         /\ HasStream(pc[t]) => pc[t].ptr \in Pointers
         /\ HasPlain(pc[t]) => pc[t].fd \in Fds
<1>1. pc[t] \in Records /\ WellFormed(pc[t])
  BY DEF Owners, TypeOK, Records, Shapes
<1>2. pc[t] \in Records => /\ pc[t] = Idle <=> pc[t].op = "none"
                           /\ pc[t] = Idle <=> pc[t].step = "idle"
                           /\ pc[t] # Idle => /\ pc[t].op \in Ops /\ pc[t].step \in Steps
                                              /\ pc[t].ptr \in Pointers \cup {None}
                                              /\ pc[t].fd \in Fds \cup {None}
  BY DEF Records, Idle, Ops, Steps
<1> QED
  BY <1>1, <1>2 DEF WellFormed, HasStream, HasPlain, Ops, Steps

-----------------------------------------------------------------------------
LEMMA InitOwners == LedgerAssumption /\ Init => Owners
<1> SUFFICES ASSUME LedgerAssumption, Init
             PROVE  Owners
  OBVIOUS
<1>1. \A t \in Threads : pc[t] = Idle /\ pc[t].op = "none" /\ pc[t].step = "idle"
  BY DEF Init, Idle
<1>2. TypeOK
  BY DEF Init, TypeOK
<1>3. Shapes
  BY <1>1 DEF Shapes, WellFormed
<1>4. StreamOwners /\ PlainOwners
  BY <1>1 DEF Init, StreamOwners, PlainOwners, HasStream, HasPlain
<1>5. StreamDescriptors
  BY DEF Init, LedgerAssumption, StreamDescriptors, OneStreamPerDescriptor
<1> QED
  BY <1>2, <1>3, <1>4, <1>5 DEF Owners

LEMMA AppOpenKeepsOwners ==
  ASSUME LedgerAssumption, Owners, NEW t \in Threads, AppOpen(t)
  PROVE  Owners'
<1>1. PICK fd \in Fds : /\ fds[fd] = "free"
                        /\ fds' = [fds EXCEPT ![fd] = "dir"]
                        /\ raw' = raw \cup {fd}
                        /\ fdCount' = [fdCount EXCEPT ![fd] = @ + 1]
  BY DEF AppOpen, Free, Owners, TypeOK
<1> USE DEF AppOpen, Owners, history
<1>2. TypeOK'
  BY <1>1 DEF TypeOK
<1>3. Shapes'
  BY DEF Shapes
<1>4. StreamOwners'
  BY DEF StreamOwners
<1>5. PlainOwners'
  BY <1>1, CallFacts DEF TypeOK, PlainOwners
<1>6. StreamDescriptors'
  BY <1>1 DEF TypeOK, StreamDescriptors, OneStreamPerDescriptor
<1> QED
  BY <1>2, <1>3, <1>4, <1>5, <1>6

LEMMA AppCloseKeepsOwners ==
  ASSUME LedgerAssumption, Owners, NEW t \in Threads, AppClose(t)
  PROVE  Owners'
<1>1. PICK fd \in raw : /\ fds' = [fds EXCEPT ![fd] = "free"]
                        /\ raw' = raw \ {fd}
                        /\ fdCount' = [fdCount EXCEPT ![fd] = @ - 1]
  BY DEF AppClose
<1> USE DEF AppClose, Owners, history
<1>2. TypeOK'
  BY <1>1 DEF TypeOK
<1>3. Shapes'
  BY DEF Shapes
<1>4. StreamOwners'
  BY DEF StreamOwners
<1>5. PlainOwners'
  BY <1>1, CallFacts DEF TypeOK, PlainOwners
<1>6. StreamDescriptors'
  BY <1>1 DEF TypeOK, StreamDescriptors, OneStreamPerDescriptor, PlainOwners
<1> QED
  BY <1>2, <1>3, <1>4, <1>5, <1>6

(* The application hands over what it passes ...                           *)
LEMMA CallKeepsOwners ==
  ASSUME LedgerAssumption, Owners, NEW t \in Threads, Call(t)
  PROVE  Owners'
<1>1. PICK op \in Ops, p \in Pointers \cup {None}, fd \in Fds \cup {None} :
        /\ Goto(t, op, "called", p, fd)
        /\ op = "closedir" => p \in held
        /\ op # "closedir" => p = None
        /\ op = "fdopendir" => fd \in raw
        /\ op # "fdopendir" => fd = None
        /\ held' = held \ {p} /\ raw' = raw \ {fd}
  <2>1. None \notin raw /\ None \notin held
    BY DEF LedgerAssumption, Owners, TypeOK
  <2>2. CASE \E op \in {"opendir", "mkstemp"} :
               Goto(t, op, "called", None, None) /\ UNCHANGED owned
    BY <2>1, <2>2 DEF Ops, owned
  <2>3. CASE \E fd \in raw : /\ Goto(t, "fdopendir", "called", None, fd)
                             /\ raw' = raw \ {fd} /\ UNCHANGED held
    BY <2>1, <2>3 DEF Ops, Owners, TypeOK
  <2>4. CASE \E p \in held : /\ Goto(t, "closedir", "called", p, None)
                             /\ held' = held \ {p} /\ UNCHANGED raw
    BY <2>1, <2>4 DEF Ops, Owners, TypeOK
  <2> QED
    BY <2>2, <2>3, <2>4 DEF Call
<1>2. /\ Moves(t)
      /\ pc'[t].op = op /\ pc'[t].step = "called"
      /\ pc'[t].ptr = p /\ pc'[t].fd = fd
  BY <1>1, GotoMoves DEF Owners, Steps
<1>3. UNCHANGED <<kernel, ledger, history>>
  BY DEF Call
<1> USE DEF Owners, kernel, ledger, history
<1>4. TypeOK'
  BY <1>1, <1>2, <1>3 DEF TypeOK, Moves, Records
<1>5. Shapes'
  BY <1>1, <1>2 DEF Shapes, WellFormed, Moves, TypeOK
<1>6. StreamOwners'
  BY <1>1, <1>2, <1>3 DEF StreamOwners, HasStream, Moves
<1>7. PlainOwners'
  BY <1>1, <1>2, <1>3 DEF PlainOwners, HasPlain, Moves
<1>8. StreamDescriptors'
  BY <1>3 DEF StreamDescriptors, OneStreamPerDescriptor
<1> QED
  BY <1>4, <1>5, <1>6, <1>7, <1>8

(* ... and is responsible for it again if nothing was done.                *)
LEMMA RefusalKeepsOwners ==
  ASSUME LedgerAssumption, Owners, NEW t \in Threads, Fault(t) \/ NativeFails(t)
  PROVE  Owners'
<1>1. /\ Moves(t)
      /\ pc'[t] = Idle /\ pc'[t].op = "none" /\ pc'[t].step = "idle"
  BY ReturnMoves DEF Fault, NativeFails, Owners
<1>2. /\ pc[t].step = "called" /\ pc[t].op \in Ops
      /\ UNCHANGED <<kernel, ledger, history>>
  BY CallFacts DEF Fault, NativeFails
<1>3. /\ held' = held \cup {p \in Pointers : pc[t].op = "closedir" /\ p = pc[t].ptr}
      /\ raw' = raw \cup {fd \in Fds : pc[t].op = "fdopendir" /\ fd = pc[t].fd}
  BY <1>2, CallFacts DEF Fault, NativeFails, GiveBack, WellFormed, LedgerAssumption
<1> USE DEF Owners, kernel, ledger, history
<1>4. TypeOK'
  BY <1>1, <1>2, <1>3 DEF TypeOK, Moves, Records
<1>5. Shapes'
  BY <1>1 DEF Shapes, WellFormed, Moves
<1>6. StreamOwners'
  BY <1>1, <1>2, <1>3 DEF StreamOwners, HasStream, Moves
<1>7. PlainOwners'
  BY <1>1, <1>2, <1>3 DEF PlainOwners, HasPlain, Moves
<1>8. StreamDescriptors'
  BY <1>2 DEF StreamDescriptors, OneStreamPerDescriptor
<1> QED
  BY <1>4, <1>5, <1>6, <1>7, <1>8

(* A stream is put at a free address, with a descriptor nobody else uses   *)
(* or with none.                                                           *)
LEMMA OpendirEffect ==
  ASSUME LedgerAssumption, TypeOK, NEW t \in Threads, Opendir(t)
  PROVE  \E p \in Pointers, fd \in Fds \cup {None}, step \in {"track_fd", "track_ptr"} :
           /\ dirs[p] = "free" /\ dirs' = [dirs EXCEPT ![p] = fd]
           /\ fd \in Fds => fds[fd] = "free"
           /\ fds' = [x \in Fds |-> IF x = fd THEN "stream" ELSE fds[x]]
           /\ step = "track_fd" <=> fd \in Fds
           /\ Goto(t, "opendir", step, p, fd)
<1>1. PICK p \in Free(dirs) :
        \/ \E fd \in Free(fds) : /\ dirs' = [dirs EXCEPT ![p] = fd]
                                /\ fds' = [fds EXCEPT ![fd] = "stream"]
                                /\ Goto(t, "opendir", "track_fd", p, fd)
        \/ /\ dirs' = [dirs EXCEPT ![p] = None]
           /\ Goto(t, "opendir", "track_ptr", p, None)
           /\ UNCHANGED fds
  BY DEF Opendir
<1>2. p \in Pointers /\ dirs[p] = "free" /\ fds \in [Fds -> {"free", "file", "dir", "stream"}]
  BY DEF Free, TypeOK
<1>3. ASSUME NEW fd \in Free(fds), fds' = [fds EXCEPT ![fd] = "stream"]
      PROVE  /\ fd \in Fds /\ fds[fd] = "free"
             /\ fds' = [x \in Fds |-> IF x = fd THEN "stream" ELSE fds[x]]
  BY <1>2, <1>3 DEF Free
<1>4. UNCHANGED fds => fds' = [x \in Fds |-> IF x = None THEN "stream" ELSE fds[x]]
  BY <1>2 DEF LedgerAssumption
<1>5. None \notin Fds
  BY DEF LedgerAssumption
<1> QED
  BY <1>1, <1>2, <1>3, <1>4, <1>5

LEMMA OpendirKeepsOwners ==
  ASSUME LedgerAssumption, Owners, NEW t \in Threads, Opendir(t)
  PROVE  Owners'
<1>1. PICK p \in Pointers, fd \in Fds \cup {None}, step \in {"track_fd", "track_ptr"} :
        /\ dirs[p] = "free" /\ dirs' = [dirs EXCEPT ![p] = fd]
        /\ fd \in Fds => fds[fd] = "free"
        /\ fds' = [x \in Fds |-> IF x = fd THEN "stream" ELSE fds[x]]
        /\ step = "track_fd" <=> fd \in Fds
        /\ Goto(t, "opendir", step, p, fd)
  BY OpendirEffect DEF Owners
<1>2. /\ Moves(t)
      /\ pc'[t].op = "opendir" /\ pc'[t].step = step
      /\ pc'[t].ptr = p /\ pc'[t].fd = fd
  BY <1>1, GotoMoves DEF Owners, Steps, Ops
<1>3. UNCHANGED <<owned, ledger, history>>
  BY DEF Opendir
<1>4. fd # "free" /\ None \notin Pointers
  BY <1>1 DEF LedgerAssumption
<1> USE DEF Owners, owned, ledger, history
<1>5. TypeOK'
  BY <1>1, <1>2, <1>3 DEF TypeOK, Moves, Records
<1>6. Shapes'
  BY <1>1, <1>2 DEF Shapes, WellFormed, Moves
<1>7. StreamOwners'
  \* Nobody is responsible for the free address p.
  <2>1. \A u \in Threads : HasStream(pc[u]) => pc[u].ptr \in Pointers /\ pc[u].ptr # p
    BY <1>1, CallFacts DEF StreamOwners
  <2>2. p \notin held
    BY <1>1 DEF StreamOwners
  <2>3. \A u \in Threads \ {t} : pc'[u] = pc[u]
    BY <1>2 DEF Moves
  <2>4. \A q \in Pointers \ {p} : dirs'[q] = dirs[q]
    BY <1>1 DEF TypeOK
  <2>5. dirs'[p] = fd
    BY <1>1 DEF TypeOK
  <2> QED
    BY <1>2, <1>3, <1>4, <2>1, <2>2, <2>3, <2>4, <2>5 DEF TypeOK, StreamOwners
<1>8. PlainOwners'
  BY <1>1, <1>2, <1>3, CallFacts DEF TypeOK, PlainOwners, HasPlain, Moves
<1>9. StreamDescriptors'
  BY <1>1, <1>4 DEF TypeOK, StreamDescriptors, OneStreamPerDescriptor
<1> QED
  BY <1>5, <1>6, <1>7, <1>8, <1>9

(* The descriptor passed becomes the stream's.                             *)
LEMMA FdopendirKeepsOwners ==
  ASSUME LedgerAssumption, Owners, NEW t \in Threads, Fdopendir(t)
  PROVE  Owners'
<1> DEFINE fd == pc[t].fd
<1>1. /\ pc[t].op = "fdopendir" /\ pc[t].step = "called"
      /\ HasPlain(pc[t]) /\ ~ HasStream(pc[t])
      /\ fd \in Fds /\ fds[fd] = "dir"
  BY CallFacts DEF Fdopendir, At, HasPlain, HasStream
<1>2. PICK p \in Pointers :
        /\ dirs[p] = "free" /\ dirs' = [dirs EXCEPT ![p] = fd]
        /\ fds' = [fds EXCEPT ![fd] = "stream"]
        /\ Goto(t, "fdopendir", "track_ptr", p, fd)
  BY DEF Fdopendir, Free, Owners, TypeOK
<1>3. /\ Moves(t)
      /\ pc'[t].op = "fdopendir" /\ pc'[t].step = "track_ptr"
      /\ pc'[t].ptr = p /\ pc'[t].fd = fd
  BY <1>1, <1>2, GotoMoves DEF Owners, Steps, Ops
<1>4. UNCHANGED <<owned, ledger, history>>
  BY DEF Fdopendir
<1>5. fd # "free" /\ None \notin Pointers
  BY <1>1 DEF LedgerAssumption
<1> HIDE DEF fd
<1> USE DEF Owners, owned, ledger, history
<1>6. TypeOK'
  BY <1>1, <1>2, <1>3, <1>4 DEF TypeOK, Moves, Records
<1>7. Shapes'
  BY <1>1, <1>2, <1>3 DEF Shapes, WellFormed, Moves
<1>8. StreamOwners'
  BY <1>1, <1>2, <1>3, <1>4, <1>5, CallFacts DEF TypeOK, StreamOwners, HasStream, Moves
<1>9. PlainOwners'
  BY <1>1, <1>2, <1>3, <1>4, CallFacts DEF TypeOK, PlainOwners, HasPlain, Moves, fd
<1>10. StreamDescriptors'
  \* No stream uses fd yet: it is a plain descriptor.
  <2>1. \A q \in Pointers : dirs[q] # fd
    BY <1>1 DEF StreamDescriptors
  <2> QED
    BY <1>1, <1>2, <1>5, <2>1 DEF TypeOK, StreamDescriptors, OneStreamPerDescriptor
<1> QED
  BY <1>6, <1>7, <1>8, <1>9, <1>10

LEMMA MkstempKeepsOwners ==
  ASSUME LedgerAssumption, Owners, NEW t \in Threads, Mkstemp(t)
  PROVE  Owners'
<1>1. PICK fd \in Fds : /\ fds[fd] = "free"
                        /\ fds' = [fds EXCEPT ![fd] = "file"]
                        /\ Goto(t, "mkstemp", "track_fd", None, fd)
  BY DEF Mkstemp, Free, Owners, TypeOK
<1>2. /\ Moves(t)
      /\ pc'[t].op = "mkstemp" /\ pc'[t].step = "track_fd"
      /\ pc'[t].ptr = None /\ pc'[t].fd = fd
  BY <1>1, GotoMoves DEF Owners, Steps, Ops
<1>3. UNCHANGED <<dirs, owned, ledger, history>>
  BY DEF Mkstemp
<1> USE DEF Owners, owned, ledger, history
<1>4. TypeOK'
  BY <1>1, <1>2, <1>3 DEF TypeOK, Moves, Records
<1>5. Shapes'
  BY <1>1, <1>2 DEF Shapes, WellFormed, Moves
<1>6. StreamOwners'
  BY <1>2, <1>3 DEF StreamOwners, HasStream, Moves
<1>7. PlainOwners'
  BY <1>1, <1>2, <1>3, CallFacts DEF TypeOK, PlainOwners, HasPlain, Moves
<1>8. StreamDescriptors'
  BY <1>1, <1>3 DEF TypeOK, StreamDescriptors, OneStreamPerDescriptor
<1> QED
  BY <1>4, <1>5, <1>6, <1>7, <1>8

LEMMA ReadDescriptorKeepsOwners ==
  ASSUME LedgerAssumption, Owners, NEW t \in Threads, ReadDescriptor(t)
  PROVE  Owners'
<1> DEFINE p == pc[t].ptr
<1>1. /\ pc[t].op = "closedir" /\ pc[t].step = "called"
      /\ HasStream(pc[t]) /\ ~ HasPlain(pc[t]) /\ p \in Pointers
      /\ dirs[p] \in Fds \cup {None}
  <2>1. /\ pc[t].op = "closedir" /\ pc[t].step = "called"
        /\ HasStream(pc[t]) /\ ~ HasPlain(pc[t]) /\ p \in Pointers
    BY CallFacts DEF ReadDescriptor, At, HasPlain, HasStream
  <2>2. dirs[p] # "free"
    BY <2>1 DEF Owners, StreamOwners
  <2> QED
    BY <2>1, <2>2 DEF Owners, TypeOK
<1>2. /\ Moves(t)
      /\ pc'[t].op = "closedir" /\ pc'[t].step = "ready"
      /\ pc'[t].ptr = p /\ pc'[t].fd = dirs[p]
  BY <1>1, GotoMoves DEF ReadDescriptor, DescriptorOf, Owners, Steps, Ops
<1>3. UNCHANGED <<kernel, owned, ledger, history>>
  BY DEF ReadDescriptor
<1> HIDE DEF p
<1> USE DEF Owners, kernel, owned, ledger, history
<1>4. TypeOK'
  BY <1>1, <1>2, <1>3 DEF TypeOK, Moves, Records
<1>5. Shapes'
  BY <1>1, <1>2 DEF Shapes, WellFormed, Moves
<1>6. StreamOwners'
  BY <1>1, <1>2, <1>3 DEF StreamOwners, HasStream, Moves, p
<1>7. PlainOwners'
  BY <1>1, <1>2, <1>3 DEF PlainOwners, HasPlain, Moves
<1>8. StreamDescriptors'
  BY <1>3 DEF StreamDescriptors, OneStreamPerDescriptor
<1> QED
  BY <1>4, <1>5, <1>6, <1>7, <1>8

(* The call that is about to close a stream knows its descriptor, and      *)
(* nobody else is responsible for either.                                  *)
LEMMA ReadyFacts ==
  ASSUME LedgerAssumption, Owners, NEW t \in Threads, At(t, "closedir", "ready")
  PROVE  /\ HasStream(pc[t]) /\ ~ HasPlain(pc[t])
         /\ pc[t].ptr \in Pointers /\ pc[t].ptr \notin held
         /\ pc[t].fd = dirs[pc[t].ptr] /\ pc[t].fd \in Fds \cup {None}
         /\ dirs[pc[t].ptr] # "free"
         /\ \A fd \in Fds : fd = dirs[pc[t].ptr] => fds[fd] = "stream"
<1>1. /\ HasStream(pc[t]) /\ ~ HasPlain(pc[t]) /\ pc[t].ptr \in Pointers
      /\ pc[t].step = "ready"
  BY CallFacts DEF At, HasPlain, HasStream
<1>2. /\ pc[t].ptr \notin held /\ pc[t].fd = dirs[pc[t].ptr]
      /\ dirs[pc[t].ptr] # "free"
  BY <1>1 DEF Owners, StreamOwners
<1> QED
  BY <1>1, <1>2 DEF Owners, TypeOK, StreamDescriptors

(* Closing a stream leaves what the others are responsible for alone,      *)
(* whether the call goes on to its records or gives up.                    *)
LEMMA ConsumeKeepsOwners ==
  ASSUME LedgerAssumption, Owners, NEW t \in Threads, At(t, "closedir", "ready"),
         Consume(pc[t].ptr), Moves(t),
         ~ HasStream(pc[t])', ~ HasPlain(pc[t])', WellFormed(pc[t])',
         UNCHANGED <<owned, ledger>>,
         lostFd' \in [Fds -> Nat], lostDir' \in [Pointers -> Nat]
  PROVE  Owners'
<1> DEFINE p == pc[t].ptr
<1>1. /\ HasStream(pc[t]) /\ ~ HasPlain(pc[t])
      /\ p \in Pointers /\ p \notin held /\ dirs[p] # "free"
      /\ \A fd \in Fds : fd = dirs[p] => fds[fd] = "stream"
  BY ReadyFacts
<1>2. /\ dirs' = [dirs EXCEPT ![p] = "free"]
      /\ fds' = [fd \in Fds |-> IF fd = dirs[p] THEN "free" ELSE fds[fd]]
  BY DEF Consume
<1>3. UNCHANGED <<owned, ledger>>
  OBVIOUS
<1> USE DEF Owners, owned, ledger
<1>4. TypeOK'
  BY <1>1, <1>2, <1>3 DEF TypeOK, Moves, Records
<1>5. Shapes'
  BY DEF Shapes, Moves
<1>6. StreamOwners'
  <2>1. \A u \in Threads \ {t} : HasStream(pc[u]) => pc[u].ptr \in Pointers /\ pc[u].ptr # p
    BY <1>1, CallFacts DEF StreamOwners
  <2>2. \A u \in Threads : HasStream(pc'[u]) => u # t /\ pc'[u] = pc[u]
    BY DEF Moves
  <2> HIDE DEF p
  <2> QED
    BY <1>1, <1>2, <1>3, <2>1, <2>2 DEF TypeOK, StreamOwners
<1>7. PlainOwners'
  <2>1. \A fd \in Fds : fds[fd] \in {"file", "dir"} => fds'[fd] = fds[fd]
    BY <1>1, <1>2
  <2>2. \A u \in Threads : HasPlain(pc'[u]) =>
          u # t /\ pc'[u] = pc[u] /\ pc[u].fd \in Fds
    BY CallFacts DEF Moves
  <2> HIDE DEF p
  <2> QED
    BY <1>3, <2>1, <2>2 DEF TypeOK, PlainOwners
<1>8. StreamDescriptors'
  <2> HIDE DEF p
  <2>1. \A q \in Pointers : dirs'[q] \in Fds =>
          q # p /\ dirs'[q] = dirs[q] /\ dirs[q] # dirs[p]
    BY <1>1, <1>2 DEF TypeOK, StreamDescriptors, OneStreamPerDescriptor, LedgerAssumption
  <2> QED
    BY <1>1, <1>2, <2>1 DEF TypeOK, StreamDescriptors, OneStreamPerDescriptor
<1> QED
  BY <1>4, <1>5, <1>6, <1>7, <1>8

LEMMA ClosedirKeepsOwners ==
  ASSUME LedgerAssumption, Owners, NEW t \in Threads, Closedir(t)
  PROVE  Owners'
<1>1. /\ At(t, "closedir", "ready") /\ pc[t].op = "closedir"
      /\ Consume(pc[t].ptr)
      /\ UNCHANGED <<owned, ledger, history>>
  BY DEF Closedir, At
<1>2. PICK step \in {"track_fd", "track_ptr"} :
        Proceed(t, step) /\ (step = "track_fd" => pc[t].fd # None)
  BY DEF Closedir
<1>3. /\ Moves(t)
      /\ pc'[t].op = "closedir" /\ pc'[t].step = step
      /\ pc'[t].ptr = pc[t].ptr /\ pc'[t].fd = pc[t].fd
  BY <1>1, <1>2, ProceedMoves DEF Owners, Ops, Steps
<1>4. /\ ~ HasStream(pc[t])' /\ ~ HasPlain(pc[t])' /\ WellFormed(pc[t])'
  BY <1>1, <1>2, <1>3, ReadyFacts DEF HasStream, HasPlain, WellFormed
<1>5. lostFd' \in [Fds -> Nat] /\ lostDir' \in [Pointers -> Nat]
  BY <1>1 DEF Owners, TypeOK, history
<1> QED
  BY <1>1, <1>3, <1>4, <1>5, ConsumeKeepsOwners

LEMMA ClosedirFailsKeepsOwners ==
  ASSUME LedgerAssumption, Owners, NEW t \in Threads, ClosedirFails(t)
  PROVE  Owners'
<1>1. /\ At(t, "closedir", "ready")
      /\ UNCHANGED <<owned, ledger>>
      /\ Moves(t)
      /\ pc'[t] = Idle /\ pc'[t].op = "none" /\ pc'[t].step = "idle"
  BY ReturnMoves DEF ClosedirFails, Owners
<1>2. ~ HasStream(pc[t])' /\ ~ HasPlain(pc[t])' /\ WellFormed(pc[t])'
  BY <1>1 DEF HasStream, HasPlain, WellFormed
<1>3. CASE Consume(pc[t].ptr) /\ ~ UNCHANGED <<kernel, history>>
  <2>1. lostFd' \in [Fds -> Nat] /\ lostDir' \in [Pointers -> Nat]
    BY <1>1, <1>3, ReadyFacts DEF ClosedirFails, Owners, TypeOK
  <2> QED
    BY <1>1, <1>2, <1>3, <2>1, ConsumeKeepsOwners
<1>4. CASE UNCHANGED <<kernel, history>>
  <2> USE DEF Owners, kernel, history, owned, ledger
  <2>1. TypeOK'
    BY <1>1, <1>4 DEF TypeOK, Moves, Records
  <2>2. Shapes'
    BY <1>1, <1>2 DEF Shapes, Moves
  <2>3. StreamOwners' /\ PlainOwners'
    BY <1>1, <1>2, <1>4 DEF StreamOwners, PlainOwners, Moves
  <2>4. StreamDescriptors'
    BY <1>4 DEF StreamDescriptors, OneStreamPerDescriptor
  <2> QED
    BY <2>1, <2>2, <2>3, <2>4
<1> QED
  BY <1>3, <1>4 DEF ClosedirFails

(* The descriptor of an opened stream stays with the call, that of a file  *)
(* goes to the application.                                                *)
LEMMA TrackOpenKeepsOwners ==
  ASSUME LedgerAssumption, Owners, NEW t \in Threads, TrackOpen(t)
  PROVE  Owners'
<1> USE DEF Owners, kernel, history
<1>1. /\ pc[t].step = "track_fd" /\ pc[t].op \in Ops /\ pc[t].fd \in Fds
      /\ UNCHANGED <<kernel, held, dirCount, history>>
      /\ fdCount' \in [Fds -> Int]
  BY CallFacts DEF TrackOpen, TypeOK, WellFormed
<1>2. CASE pc[t].op = "mkstemp"
  <2>1. Moves(t) /\ pc'[t] = Idle /\ pc'[t].op = "none" /\ pc'[t].step = "idle"
    BY <1>2, ReturnMoves DEF TrackOpen
  <2>2. raw' = raw \cup {pc[t].fd} /\ HasPlain(pc[t])
    BY <1>1, <1>2 DEF TrackOpen, HasPlain
  <2>3. TypeOK'
    BY <1>1, <2>1, <2>2 DEF TypeOK, Moves, Records
  <2>4. Shapes'
    BY <2>1 DEF Shapes, WellFormed, Moves
  <2>5. StreamOwners'
    BY <1>1, <2>1 DEF StreamOwners, HasStream, Moves
  <2>6. PlainOwners'
    BY <1>1, <2>1, <2>2 DEF PlainOwners, HasPlain, Moves
  <2>7. StreamDescriptors'
    BY <1>1 DEF StreamDescriptors, OneStreamPerDescriptor
  <2> QED
    BY <2>3, <2>4, <2>5, <2>6, <2>7
<1>3. CASE pc[t].op = "opendir"
  <2>1. /\ Moves(t) /\ pc'[t].op = "opendir" /\ pc'[t].step = "track_ptr"
        /\ pc'[t].ptr = pc[t].ptr /\ pc'[t].fd = pc[t].fd
    BY <1>1, <1>3, ProceedMoves DEF TrackOpen, Steps
  <2>2. UNCHANGED raw
    BY <1>3 DEF TrackOpen
  <2>3. TypeOK'
    BY <1>1, <2>1, <2>2 DEF TypeOK, Moves, Records
  <2>4. Shapes'
    BY <1>1, <1>3, <2>1 DEF Shapes, WellFormed, Moves
  <2>5. StreamOwners'
    BY <1>1, <1>3, <2>1 DEF StreamOwners, HasStream, Moves
  <2>6. PlainOwners'
    BY <1>1, <2>1, <2>2 DEF PlainOwners, HasPlain, Moves
  <2>7. StreamDescriptors'
    BY <1>1 DEF StreamDescriptors, OneStreamPerDescriptor
  <2> QED
    BY <2>3, <2>4, <2>5, <2>6, <2>7
<1> QED
  BY <1>2, <1>3 DEF TrackOpen

LEMMA TrackAcquireKeepsOwners ==
  ASSUME LedgerAssumption, Owners, NEW t \in Threads, TrackAcquire(t)
  PROVE  Owners'
<1> USE DEF Owners, kernel, history
<1>1. /\ pc[t].step = "track_ptr" /\ pc[t].op \in {"opendir", "fdopendir"}
      /\ HasStream(pc[t]) /\ pc[t].ptr \in Pointers
      /\ held' = held \cup {pc[t].ptr}
      /\ UNCHANGED <<kernel, raw, fdCount, history>>
      /\ dirCount' \in [Pointers -> Int]
  BY CallFacts DEF TrackAcquire, TypeOK, HasStream
<1>2. Moves(t) /\ pc'[t] = Idle /\ pc'[t].op = "none" /\ pc'[t].step = "idle"
  BY ReturnMoves DEF TrackAcquire
<1>3. TypeOK'
  BY <1>1, <1>2 DEF TypeOK, Moves, Records
<1>4. Shapes'
  BY <1>2 DEF Shapes, WellFormed, Moves
<1>5. StreamOwners'
  BY <1>1, <1>2 DEF StreamOwners, HasStream, Moves
<1>6. PlainOwners'
  BY <1>1, <1>2 DEF PlainOwners, HasPlain, Moves
<1>7. StreamDescriptors'
  BY <1>1 DEF StreamDescriptors, OneStreamPerDescriptor
<1> QED
  BY <1>3, <1>4, <1>5, <1>6, <1>7

(* The records of a closing are nobody's responsibility but the call's.    *)
LEMMA TrackClosingKeepsOwners ==
  ASSUME LedgerAssumption, Owners, NEW t \in Threads,
         TrackClose(t) \/ TrackRelease(t)
  PROVE  Owners'
<1> USE DEF Owners, kernel, owned, history
<1>1. /\ pc[t].op = "closedir" /\ pc[t].step \in {"track_fd", "track_ptr"}
      /\ ~ HasStream(pc[t]) /\ ~ HasPlain(pc[t])
      /\ UNCHANGED <<kernel, owned, history>>
  BY DEF TrackClose, TrackRelease, At, HasStream, HasPlain
<1>2. fdCount' \in [Fds -> Int] /\ dirCount' \in [Pointers -> Int]
  BY DEF TrackClose, TrackRelease, TypeOK
<1>3. /\ Moves(t) /\ WellFormed(pc'[t])
      /\ ~ HasStream(pc'[t]) /\ ~ HasPlain(pc'[t])
  <2>1. CASE TrackClose(t)
    <3>1. /\ Moves(t) /\ pc'[t].op = "closedir" /\ pc'[t].step = "track_ptr"
          /\ pc'[t].ptr = pc[t].ptr
      BY <1>1, <2>1, ProceedMoves DEF TrackClose, Steps, Ops
    <3> QED
      BY <1>1, <3>1, CallFacts DEF WellFormed, HasStream, HasPlain
  <2>2. CASE TrackRelease(t)
    BY <2>2, ReturnMoves DEF TrackRelease, WellFormed, HasStream, HasPlain
  <2> QED
    BY <2>1, <2>2
<1>4. TypeOK'
  BY <1>1, <1>2, <1>3 DEF TypeOK, Moves, Records
<1>5. Shapes'
  BY <1>3 DEF Shapes, Moves
<1>6. StreamOwners' /\ PlainOwners'
  BY <1>1, <1>3 DEF StreamOwners, PlainOwners, Moves
<1>7. StreamDescriptors'
  BY <1>1 DEF StreamDescriptors, OneStreamPerDescriptor
<1> QED
  BY <1>4, <1>5, <1>6, <1>7

LEMMA StutterKeepsOwners ==
  ASSUME Owners, UNCHANGED vars
  PROVE  Owners'
BY DEF Owners, vars, TypeOK, Shapes, StreamOwners, PlainOwners, StreamDescriptors,
       OneStreamPerDescriptor

LEMMA NextKeepsOwners == LedgerAssumption /\ Owners /\ [Next]_vars => Owners'
<1> SUFFICES ASSUME LedgerAssumption, Owners, [Next]_vars
             PROVE  Owners'
  OBVIOUS
<1>1. CASE UNCHANGED vars
  BY <1>1, StutterKeepsOwners
<1>2. ASSUME NEW t \in Threads, AppOpen(t) \/ AppClose(t) \/ Call(t)
      PROVE  Owners'
  BY <1>2, AppOpenKeepsOwners, AppCloseKeepsOwners, CallKeepsOwners
<1>3. ASSUME NEW t \in Threads, Wrapper(t)
      PROVE  Owners'
  BY <1>3, RefusalKeepsOwners, OpendirKeepsOwners, FdopendirKeepsOwners,
     MkstempKeepsOwners, ReadDescriptorKeepsOwners, ClosedirKeepsOwners,
     ClosedirFailsKeepsOwners, TrackOpenKeepsOwners, TrackAcquireKeepsOwners,
     TrackClosingKeepsOwners DEF Wrapper
<1> QED
  BY <1>1, <1>2, <1>3 DEF Next

(* An open stream or descriptor is the application's or one call's.        *)
THEOREM OwnersHold == Spec => []Owners
<1> QED
  BY InitOwners, NextKeepsOwners, LedgerAssumption, PTL DEF Spec

(* Types of the kernel's and the ledger's state and of the calls.          *)
THEOREM TypeCorrect == Spec => []TypeOK
<1>1. Owners => TypeOK
  BY DEF Owners
<1> QED
  BY <1>1, OwnersHold, PTL

(* No descriptor serves two streams (dirent.c:107-127).                    *)
THEOREM DescriptorsAreExclusive == Spec => []OneStreamPerDescriptor
<1>1. Owners => OneStreamPerDescriptor
  BY DEF Owners, StreamDescriptors
<1> QED
  BY <1>1, OwnersHold, PTL

-----------------------------------------------------------------------------
(* What the thread at c owes the ledger for a descriptor or a stream.      *)
OpenDue(c, fd) ==
  IF c.step = "track_fd" /\ c.op \in {"opendir", "mkstemp"} /\ c.fd = fd THEN 1 ELSE 0
CloseDue(c, fd) ==
  IF c.step = "track_fd" /\ c.op = "closedir" /\ c.fd = fd THEN 1 ELSE 0
AcquireDue(c, p) ==
  IF /\ c.step \in {"track_fd", "track_ptr"}
     /\ c.op \in {"opendir", "fdopendir"} /\ c.ptr = p THEN 1 ELSE 0
ReleaseDue(c, p) ==
  IF c.step \in {"track_fd", "track_ptr"} /\ c.op = "closedir" /\ c.ptr = p THEN 1 ELSE 0

(* The part of the balances that a step of t can change.                   *)
FdAccount(t, fd) ==
  fdCount[fd] + OpenDue(pc[t], fd) - CloseDue(pc[t], fd) - InUse(fds[fd]) - lostFd[fd]
DirAccount(t, p) ==
  dirCount[p] + AcquireDue(pc[t], p) - ReleaseDue(pc[t], p) - InUse(dirs[p]) - lostDir[p]

(* The step leaves these parts as they are.                                *)
Neutral(t) ==
  /\ Moves(t)
  /\ \A fd \in Fds : FdAccount(t, fd)' = FdAccount(t, fd)
  /\ \A p \in Pointers : DirAccount(t, p)' = DirAccount(t, p)

(* Only the debts of the thread that moves change.                         *)
LEMMA FdDebts ==
  ASSUME LedgerAssumption, NEW t \in Threads, Moves(t), NEW fd
  PROVE  /\ Cardinality(OpenOwed(fd)) \in Nat /\ Cardinality(OpenOwed(fd))' \in Nat
         /\ Cardinality(OpenOwed(fd))' =
              Cardinality(OpenOwed(fd)) + OpenDue(pc[t], fd)' - OpenDue(pc[t], fd)
         /\ Cardinality(CloseOwed(fd)) \in Nat /\ Cardinality(CloseOwed(fd))' \in Nat
         /\ Cardinality(CloseOwed(fd))' =
              Cardinality(CloseOwed(fd)) + CloseDue(pc[t], fd)' - CloseDue(pc[t], fd)
<1>1. /\ OpenOwed(fd) \in SUBSET Threads /\ OpenOwed(fd)' \in SUBSET Threads
      /\ OpenOwed(fd) \ {t} = OpenOwed(fd)' \ {t}
      /\ Weight(t, OpenOwed(fd)) = OpenDue(pc[t], fd)
      /\ Weight(t, OpenOwed(fd)') = OpenDue(pc[t], fd)'
  BY DEF OpenOwed, OpenDue, Weight, Moves
<1>2. /\ CloseOwed(fd) \in SUBSET Threads /\ CloseOwed(fd)' \in SUBSET Threads
      /\ CloseOwed(fd) \ {t} = CloseOwed(fd)' \ {t}
      /\ Weight(t, CloseOwed(fd)) = CloseDue(pc[t], fd)
      /\ Weight(t, CloseOwed(fd)') = CloseDue(pc[t], fd)'
  BY DEF CloseOwed, CloseDue, Weight, Moves, At
<1>3. IsFiniteSet(Threads)
  BY DEF LedgerAssumption
<1>4. /\ Cardinality(OpenOwed(fd)) \in Nat /\ Cardinality(OpenOwed(fd)') \in Nat
      /\ Cardinality(OpenOwed(fd)') =
           Cardinality(OpenOwed(fd)) + OpenDue(pc[t], fd)' - OpenDue(pc[t], fd)
  BY <1>1, <1>3, CountStep
<1>5. /\ Cardinality(CloseOwed(fd)) \in Nat /\ Cardinality(CloseOwed(fd)') \in Nat
      /\ Cardinality(CloseOwed(fd)') =
           Cardinality(CloseOwed(fd)) + CloseDue(pc[t], fd)' - CloseDue(pc[t], fd)
  BY <1>2, <1>3, CountStep
<1> QED
  BY <1>4, <1>5

LEMMA DirDebts ==
  ASSUME LedgerAssumption, NEW t \in Threads, Moves(t), NEW p
  PROVE  /\ Cardinality(AcquireOwed(p)) \in Nat /\ Cardinality(AcquireOwed(p))' \in Nat
         /\ Cardinality(AcquireOwed(p))' =
              Cardinality(AcquireOwed(p)) + AcquireDue(pc[t], p)' - AcquireDue(pc[t], p)
         /\ Cardinality(ReleaseOwed(p)) \in Nat /\ Cardinality(ReleaseOwed(p))' \in Nat
         /\ Cardinality(ReleaseOwed(p))' =
              Cardinality(ReleaseOwed(p)) + ReleaseDue(pc[t], p)' - ReleaseDue(pc[t], p)
<1>1. /\ AcquireOwed(p) \in SUBSET Threads /\ AcquireOwed(p)' \in SUBSET Threads
      /\ AcquireOwed(p) \ {t} = AcquireOwed(p)' \ {t}
      /\ Weight(t, AcquireOwed(p)) = AcquireDue(pc[t], p)
      /\ Weight(t, AcquireOwed(p)') = AcquireDue(pc[t], p)'
  BY DEF AcquireOwed, AcquireDue, Weight, Moves
<1>2. /\ ReleaseOwed(p) \in SUBSET Threads /\ ReleaseOwed(p)' \in SUBSET Threads
      /\ ReleaseOwed(p) \ {t} = ReleaseOwed(p)' \ {t}
      /\ Weight(t, ReleaseOwed(p)) = ReleaseDue(pc[t], p)
      /\ Weight(t, ReleaseOwed(p)') = ReleaseDue(pc[t], p)'
  BY DEF ReleaseOwed, ReleaseDue, Weight, Moves
<1>3. IsFiniteSet(Threads)
  BY DEF LedgerAssumption
<1>4. /\ Cardinality(AcquireOwed(p)) \in Nat /\ Cardinality(AcquireOwed(p)') \in Nat
      /\ Cardinality(AcquireOwed(p)') =
           Cardinality(AcquireOwed(p)) + AcquireDue(pc[t], p)' - AcquireDue(pc[t], p)
  BY <1>1, <1>3, CountStep
<1>5. /\ Cardinality(ReleaseOwed(p)) \in Nat /\ Cardinality(ReleaseOwed(p)') \in Nat
      /\ Cardinality(ReleaseOwed(p)') =
           Cardinality(ReleaseOwed(p)) + ReleaseDue(pc[t], p)' - ReleaseDue(pc[t], p)
  BY <1>2, <1>3, CountStep
<1> QED
  BY <1>4, <1>5

(* A neutral step keeps the balances.                                      *)
LEMMA NeutralKeepsBalance ==
  ASSUME LedgerAssumption, TypeOK, TypeOK', DescriptorsBalance, StreamsBalance,
         NEW t \in Threads, Neutral(t)
  PROVE  DescriptorsBalance' /\ StreamsBalance'
<1>1. ASSUME NEW fd \in Fds
      PROVE  (fdCount[fd] + Cardinality(OpenOwed(fd)) =
                InUse(fds[fd]) + Cardinality(CloseOwed(fd)) + lostFd[fd])'
  <2>1. /\ fdCount[fd] \in Int /\ fdCount'[fd] \in Int
        /\ lostFd[fd] \in Int /\ lostFd'[fd] \in Int
    BY DEF TypeOK
  <2>2. /\ InUse(fds[fd]) \in Int /\ InUse(fds[fd])' \in Int
        /\ OpenDue(pc[t], fd) \in Int /\ OpenDue(pc[t], fd)' \in Int
        /\ CloseDue(pc[t], fd) \in Int /\ CloseDue(pc[t], fd)' \in Int
    BY DEF InUse, OpenDue, CloseDue
  <2>3. FdAccount(t, fd)' = FdAccount(t, fd) /\ Moves(t)
    BY DEF Neutral
  <2>4. fdCount[fd] + Cardinality(OpenOwed(fd)) =
          InUse(fds[fd]) + Cardinality(CloseOwed(fd)) + lostFd[fd]
    BY DEF DescriptorsBalance
  <2>5. /\ Cardinality(OpenOwed(fd)) \in Nat /\ Cardinality(OpenOwed(fd))' \in Nat
        /\ Cardinality(OpenOwed(fd))' =
             Cardinality(OpenOwed(fd)) + OpenDue(pc[t], fd)' - OpenDue(pc[t], fd)
        /\ Cardinality(CloseOwed(fd)) \in Nat /\ Cardinality(CloseOwed(fd))' \in Nat
        /\ Cardinality(CloseOwed(fd))' =
             Cardinality(CloseOwed(fd)) + CloseDue(pc[t], fd)' - CloseDue(pc[t], fd)
    BY <2>3, FdDebts
  <2> QED
    BY <2>1, <2>2, <2>3, <2>4, <2>5 DEF FdAccount
<1>2. ASSUME NEW p \in Pointers
      PROVE  (dirCount[p] + Cardinality(AcquireOwed(p)) =
                InUse(dirs[p]) + Cardinality(ReleaseOwed(p)) + lostDir[p])'
  <2>1. /\ dirCount[p] \in Int /\ dirCount'[p] \in Int
        /\ lostDir[p] \in Int /\ lostDir'[p] \in Int
    BY DEF TypeOK
  <2>2. /\ InUse(dirs[p]) \in Int /\ InUse(dirs[p])' \in Int
        /\ AcquireDue(pc[t], p) \in Int /\ AcquireDue(pc[t], p)' \in Int
        /\ ReleaseDue(pc[t], p) \in Int /\ ReleaseDue(pc[t], p)' \in Int
    BY DEF InUse, AcquireDue, ReleaseDue
  <2>3. DirAccount(t, p)' = DirAccount(t, p) /\ Moves(t)
    BY DEF Neutral
  <2>4. dirCount[p] + Cardinality(AcquireOwed(p)) =
          InUse(dirs[p]) + Cardinality(ReleaseOwed(p)) + lostDir[p]
    BY DEF StreamsBalance
  <2>5. /\ Cardinality(AcquireOwed(p)) \in Nat /\ Cardinality(AcquireOwed(p))' \in Nat
        /\ Cardinality(AcquireOwed(p))' =
             Cardinality(AcquireOwed(p)) + AcquireDue(pc[t], p)' - AcquireDue(pc[t], p)
        /\ Cardinality(ReleaseOwed(p)) \in Nat /\ Cardinality(ReleaseOwed(p))' \in Nat
        /\ Cardinality(ReleaseOwed(p))' =
             Cardinality(ReleaseOwed(p)) + ReleaseDue(pc[t], p)' - ReleaseDue(pc[t], p)
    BY <2>3, DirDebts
  <2> QED
    BY <2>1, <2>2, <2>3, <2>4, <2>5 DEF DirAccount
<1> QED
  BY <1>1, <1>2 DEF DescriptorsBalance, StreamsBalance

LEMMA AppIsNeutral ==
  ASSUME LedgerAssumption, Owners, NEW t \in Threads, AppOpen(t) \/ AppClose(t)
  PROVE  Neutral(t)
<1>1. UNCHANGED <<dirs, dirCount, history, pc>>
  BY DEF AppOpen, AppClose
<1>2. PICK fd \in Fds :
        \/ /\ fds[fd] = "free" /\ fds' = [fds EXCEPT ![fd] = "dir"]
           /\ fdCount' = [fdCount EXCEPT ![fd] = @ + 1]
        \/ /\ fds[fd] # "free" /\ fds' = [fds EXCEPT ![fd] = "free"]
           /\ fdCount' = [fdCount EXCEPT ![fd] = @ - 1]
  BY DEF AppOpen, AppClose, Free, Owners, TypeOK, PlainOwners
<1>3. Moves(t)
  BY <1>1 DEF Owners, TypeOK, Moves, Records
<1>4. ASSUME NEW x \in Fds PROVE FdAccount(t, x)' = FdAccount(t, x)
  <2>1. /\ fdCount'[x] - InUse(fds'[x]) = fdCount[x] - InUse(fds[x])
        /\ fdCount[x] \in Int /\ fdCount'[x] \in Int /\ lostFd[x] \in Int
        /\ InUse(fds[x]) \in Int /\ InUse(fds'[x]) \in Int
    BY <1>2 DEF InUse, Owners, TypeOK
  <2>2. OpenDue(pc[t], x) \in Int /\ CloseDue(pc[t], x) \in Int
    BY DEF OpenDue, CloseDue
  <2>3. pc' = pc /\ lostFd' = lostFd
    BY <1>1 DEF history
  <2> QED
    BY <2>1, <2>2, <2>3 DEF FdAccount
<1>5. \A p \in Pointers : DirAccount(t, p)' = DirAccount(t, p)
  BY <1>1 DEF DirAccount, history
<1> QED
  BY <1>3, <1>4, <1>5 DEF Neutral

(* Before the native call a thread owes nothing, and nothing is owed for a *)
(* call that is refused, fails or only asks for the descriptor.            *)
LEMMA QuietIsNeutral ==
  ASSUME LedgerAssumption, Owners, NEW t \in Threads,
         Call(t) \/ Fault(t) \/ NativeFails(t) \/ ReadDescriptor(t)
  PROVE  Neutral(t)
<1>1. UNCHANGED <<kernel, ledger, history>>
  BY DEF Call, Fault, NativeFails, ReadDescriptor
<1>2. pc[t].step \in {"idle", "called"}
  BY DEF Call, Fault, NativeFails, ReadDescriptor, At, Idle
<1>3. pc' = [pc EXCEPT ![t] = pc'[t]] /\ pc'[t].step \in {"idle", "called", "ready"}
  BY DEF Call, Fault, NativeFails, ReadDescriptor, Goto, Return, Idle, Owners, TypeOK
<1>4. Moves(t)
  <2>1. TypeOK'
    BY CallKeepsOwners, RefusalKeepsOwners, ReadDescriptorKeepsOwners DEF Owners
  <2> QED
    BY <1>3, <2>1 DEF TypeOK, Moves, Records
<1>5. ASSUME NEW fd \in Fds PROVE FdAccount(t, fd)' = FdAccount(t, fd)
  BY <1>1, <1>2, <1>3 DEF FdAccount, OpenDue, CloseDue, kernel, ledger, history
<1>6. ASSUME NEW p \in Pointers PROVE DirAccount(t, p)' = DirAccount(t, p)
  BY <1>1, <1>2, <1>3 DEF DirAccount, AcquireDue, ReleaseDue, kernel, ledger, history
<1> QED
  BY <1>4, <1>5, <1>6 DEF Neutral

LEMMA OpendirIsNeutral ==
  ASSUME LedgerAssumption, Owners, NEW t \in Threads, Opendir(t)
  PROVE  Neutral(t)
<1>1. PICK p \in Pointers, fd \in Fds \cup {None}, step \in {"track_fd", "track_ptr"} :
        /\ dirs[p] = "free" /\ dirs' = [dirs EXCEPT ![p] = fd]
        /\ fd \in Fds => fds[fd] = "free"
        /\ fds' = [x \in Fds |-> IF x = fd THEN "stream" ELSE fds[x]]
        /\ step = "track_fd" <=> fd \in Fds
        /\ Goto(t, "opendir", step, p, fd)
  BY OpendirEffect DEF Owners
<1>2. /\ Moves(t)
      /\ pc'[t].op = "opendir" /\ pc'[t].step = step
      /\ pc'[t].ptr = p /\ pc'[t].fd = fd
  BY <1>1, GotoMoves DEF Owners, Steps, Ops
<1>3. /\ UNCHANGED <<ledger, history>> /\ pc[t].step = "called"
      /\ fd # "free"
  BY DEF Opendir, At, LedgerAssumption
<1>4. ASSUME NEW x \in Fds PROVE FdAccount(t, x)' = FdAccount(t, x)
  <2>1. /\ InUse(fds'[x]) = InUse(fds[x]) + OpenDue(pc'[t], x)
        /\ CloseDue(pc'[t], x) = 0 /\ CloseDue(pc[t], x) = 0 /\ OpenDue(pc[t], x) = 0
        /\ InUse(fds[x]) \in Int /\ OpenDue(pc'[t], x) \in Int
    BY <1>1, <1>2, <1>3 DEF InUse, OpenDue, CloseDue
  <2> QED
    BY <1>3, <2>1 DEF FdAccount, Owners, TypeOK, ledger, history
<1>5. ASSUME NEW q \in Pointers PROVE DirAccount(t, q)' = DirAccount(t, q)
  <2>1. /\ InUse(dirs'[q]) = InUse(dirs[q]) + AcquireDue(pc'[t], q)
        /\ ReleaseDue(pc'[t], q) = 0 /\ ReleaseDue(pc[t], q) = 0
        /\ AcquireDue(pc[t], q) = 0
        /\ InUse(dirs[q]) \in Int /\ AcquireDue(pc'[t], q) \in Int
    BY <1>1, <1>2, <1>3 DEF InUse, AcquireDue, ReleaseDue, Owners, TypeOK
  <2> QED
    BY <1>3, <2>1 DEF DirAccount, Owners, TypeOK, ledger, history
<1> QED
  BY <1>2, <1>4, <1>5 DEF Neutral

LEMMA FdopendirIsNeutral ==
  ASSUME LedgerAssumption, Owners, NEW t \in Threads, Fdopendir(t)
  PROVE  Neutral(t)
<1> DEFINE fd == pc[t].fd
<1>1. /\ pc[t].op = "fdopendir" /\ pc[t].step = "called"
      /\ fd \in Fds /\ fds[fd] = "dir" /\ fd # "free"
      /\ UNCHANGED <<ledger, history>>
  BY CallFacts DEF Fdopendir, At, WellFormed, LedgerAssumption
<1>2. PICK p \in Pointers :
        /\ dirs[p] = "free" /\ dirs' = [dirs EXCEPT ![p] = fd]
        /\ fds' = [fds EXCEPT ![fd] = "stream"]
        /\ Goto(t, "fdopendir", "track_ptr", p, fd)
  BY DEF Fdopendir, Free, Owners, TypeOK
<1>3. /\ Moves(t)
      /\ pc'[t].op = "fdopendir" /\ pc'[t].step = "track_ptr"
      /\ pc'[t].ptr = p /\ pc'[t].fd = fd
  BY <1>1, <1>2, GotoMoves DEF Owners, Steps, Ops
<1> HIDE DEF fd
<1>4. ASSUME NEW x \in Fds PROVE FdAccount(t, x)' = FdAccount(t, x)
  <2>1. /\ InUse(fds'[x]) = InUse(fds[x])
        /\ OpenDue(pc'[t], x) = 0 /\ OpenDue(pc[t], x) = 0
        /\ CloseDue(pc'[t], x) = 0 /\ CloseDue(pc[t], x) = 0
    BY <1>1, <1>2, <1>3 DEF InUse, OpenDue, CloseDue, Owners, TypeOK
  <2> QED
    BY <1>1, <2>1 DEF FdAccount, ledger, history
<1>5. ASSUME NEW q \in Pointers PROVE DirAccount(t, q)' = DirAccount(t, q)
  <2>1. /\ InUse(dirs'[q]) = InUse(dirs[q]) + AcquireDue(pc'[t], q)
        /\ ReleaseDue(pc'[t], q) = 0 /\ ReleaseDue(pc[t], q) = 0
        /\ AcquireDue(pc[t], q) = 0
        /\ InUse(dirs[q]) \in Int /\ AcquireDue(pc'[t], q) \in Int
    BY <1>1, <1>2, <1>3 DEF InUse, AcquireDue, ReleaseDue, Owners, TypeOK
  <2> QED
    BY <1>1, <2>1 DEF DirAccount, Owners, TypeOK, ledger, history
<1> QED
  BY <1>3, <1>4, <1>5 DEF Neutral

LEMMA MkstempIsNeutral ==
  ASSUME LedgerAssumption, Owners, NEW t \in Threads, Mkstemp(t)
  PROVE  Neutral(t)
<1>1. PICK fd \in Fds : /\ fds[fd] = "free"
                        /\ fds' = [fds EXCEPT ![fd] = "file"]
                        /\ Goto(t, "mkstemp", "track_fd", None, fd)
  BY DEF Mkstemp, Free, Owners, TypeOK
<1>2. /\ Moves(t)
      /\ pc'[t].op = "mkstemp" /\ pc'[t].step = "track_fd" /\ pc'[t].fd = fd
  BY <1>1, GotoMoves DEF Owners, Steps, Ops
<1>3. UNCHANGED <<dirs, ledger, history>> /\ pc[t].step = "called"
  BY DEF Mkstemp, At
<1>4. ASSUME NEW x \in Fds PROVE FdAccount(t, x)' = FdAccount(t, x)
  <2>1. /\ InUse(fds'[x]) = InUse(fds[x]) + OpenDue(pc'[t], x)
        /\ CloseDue(pc'[t], x) = 0 /\ CloseDue(pc[t], x) = 0 /\ OpenDue(pc[t], x) = 0
        /\ InUse(fds[x]) \in Int /\ OpenDue(pc'[t], x) \in Int
    BY <1>1, <1>2, <1>3 DEF InUse, OpenDue, CloseDue, Owners, TypeOK
  <2> QED
    BY <1>3, <2>1 DEF FdAccount, Owners, TypeOK, ledger, history
<1>5. ASSUME NEW q \in Pointers PROVE DirAccount(t, q)' = DirAccount(t, q)
  BY <1>2, <1>3 DEF DirAccount, AcquireDue, ReleaseDue, ledger, history
<1> QED
  BY <1>2, <1>4, <1>5 DEF Neutral

(* The stream and its descriptor are gone, and both records are owed.      *)
LEMMA ClosedirIsNeutral ==
  ASSUME LedgerAssumption, Owners, NEW t \in Threads, Closedir(t)
  PROVE  Neutral(t)
<1> DEFINE p == pc[t].ptr
<1>1. /\ At(t, "closedir", "ready") /\ UNCHANGED <<ledger, history>>
      /\ dirs' = [dirs EXCEPT ![p] = "free"]
      /\ fds' = [fd \in Fds |-> IF fd = dirs[p] THEN "free" ELSE fds[fd]]
      /\ pc[t].op = "closedir" /\ pc[t].step = "ready"
  BY DEF Closedir, Consume, At
<1>2. /\ p \in Pointers /\ dirs[p] # "free"
      /\ pc[t].fd = dirs[p] /\ pc[t].fd \in Fds \cup {None}
      /\ \A fd \in Fds : fd = dirs[p] => fds[fd] = "stream"
  BY <1>1, ReadyFacts
<1>3. /\ Moves(t) /\ pc'[t].op = "closedir"
      /\ pc'[t].step = IF pc[t].fd = None THEN "track_ptr" ELSE "track_fd"
      /\ pc'[t].ptr = p /\ pc'[t].fd = pc[t].fd
  BY <1>1, ProceedMoves DEF Closedir, Owners, Steps, Ops
<1> HIDE DEF p
<1>4. ASSUME NEW x \in Fds PROVE FdAccount(t, x)' = FdAccount(t, x)
  <2>1. /\ InUse(fds'[x]) = InUse(fds[x]) - CloseDue(pc'[t], x)
        /\ OpenDue(pc'[t], x) = 0 /\ OpenDue(pc[t], x) = 0 /\ CloseDue(pc[t], x) = 0
        /\ InUse(fds[x]) \in Int /\ CloseDue(pc'[t], x) \in Int
    BY <1>1, <1>2, <1>3 DEF InUse, OpenDue, CloseDue, LedgerAssumption
  <2> QED
    BY <1>1, <2>1 DEF FdAccount, Owners, TypeOK, ledger, history
<1>5. ASSUME NEW q \in Pointers PROVE DirAccount(t, q)' = DirAccount(t, q)
  <2>1. /\ InUse(dirs'[q]) = InUse(dirs[q]) - ReleaseDue(pc'[t], q)
        /\ AcquireDue(pc'[t], q) = 0 /\ AcquireDue(pc[t], q) = 0
        /\ ReleaseDue(pc[t], q) = 0
        /\ InUse(dirs[q]) \in Int /\ ReleaseDue(pc'[t], q) \in Int
    BY <1>1, <1>2, <1>3 DEF InUse, AcquireDue, ReleaseDue, Owners, TypeOK
  <2> QED
    BY <1>1, <2>1 DEF DirAccount, Owners, TypeOK, ledger, history
<1> QED
  BY <1>3, <1>4, <1>5 DEF Neutral

(* A closedir that fails owes nothing; what it took is counted as lost.    *)
LEMMA ClosedirFailsIsNeutral ==
  ASSUME LedgerAssumption, Owners, NEW t \in Threads, ClosedirFails(t)
  PROVE  Neutral(t)
<1> DEFINE p == pc[t].ptr
<1>1. /\ At(t, "closedir", "ready") /\ UNCHANGED ledger /\ pc[t].step = "ready"
  BY DEF ClosedirFails, At
<1>2. Moves(t) /\ pc'[t].step = "idle"
  BY ReturnMoves DEF ClosedirFails, Owners
<1>3. /\ p \in Pointers /\ dirs[p] # "free"
      /\ \A fd \in Fds : fd = dirs[p] => fds[fd] = "stream"
  BY <1>1, ReadyFacts
<1>4. \/ UNCHANGED <<kernel, history>>
      \/ /\ dirs' = [dirs EXCEPT ![p] = "free"]
         /\ fds' = [fd \in Fds |-> IF fd = dirs[p] THEN "free" ELSE fds[fd]]
         /\ lostDir' = [lostDir EXCEPT ![p] = @ + 1]
         /\ lostFd' = [fd \in Fds |-> IF fd = dirs[p] THEN lostFd[fd] + 1 ELSE lostFd[fd]]
  BY DEF ClosedirFails, Consume
<1> HIDE DEF p
<1>5. ASSUME NEW x \in Fds PROVE FdAccount(t, x)' = FdAccount(t, x)
  <2>1. /\ OpenDue(pc'[t], x) = 0 /\ OpenDue(pc[t], x) = 0
        /\ CloseDue(pc'[t], x) = 0 /\ CloseDue(pc[t], x) = 0
    BY <1>1, <1>2 DEF OpenDue, CloseDue
  <2>2. InUse(fds'[x]) + lostFd'[x] = InUse(fds[x]) + lostFd[x]
    BY <1>3, <1>4 DEF InUse, kernel, history, Owners, TypeOK
  <2>3. /\ lostFd[x] \in Int /\ InUse(fds[x]) \in Int
        /\ lostFd'[x] \in Int /\ InUse(fds'[x]) \in Int
    BY <1>4 DEF InUse, history, Owners, TypeOK
  <2> QED
    BY <1>1, <2>1, <2>2, <2>3 DEF FdAccount, Owners, TypeOK, ledger
<1>6. ASSUME NEW q \in Pointers PROVE DirAccount(t, q)' = DirAccount(t, q)
  <2>1. /\ AcquireDue(pc'[t], q) = 0 /\ AcquireDue(pc[t], q) = 0
        /\ ReleaseDue(pc'[t], q) = 0 /\ ReleaseDue(pc[t], q) = 0
    BY <1>1, <1>2 DEF AcquireDue, ReleaseDue
  <2>2. InUse(dirs'[q]) + lostDir'[q] = InUse(dirs[q]) + lostDir[q]
    BY <1>3, <1>4 DEF InUse, kernel, history, Owners, TypeOK
  <2>3. /\ lostDir[q] \in Int /\ InUse(dirs[q]) \in Int
        /\ lostDir'[q] \in Int /\ InUse(dirs'[q]) \in Int
    BY <1>3, <1>4 DEF InUse, history, Owners, TypeOK
  <2> QED
    BY <1>1, <2>1, <2>2, <2>3 DEF DirAccount, Owners, TypeOK, ledger
<1> QED
  BY <1>2, <1>5, <1>6 DEF Neutral

(* A record is written in the same step in which it stops being owed.      *)
LEMMA TrackFdIsNeutral ==
  ASSUME LedgerAssumption, Owners, NEW t \in Threads, TrackOpen(t) \/ TrackClose(t)
  PROVE  Neutral(t)
<1> DEFINE fd == pc[t].fd
           n  == IF pc[t].op = "closedir" THEN -1 ELSE 1
<1>1. /\ pc[t].step = "track_fd" /\ pc[t].op \in {"opendir", "mkstemp", "closedir"}
      /\ UNCHANGED <<kernel, dirCount, history>>
      /\ fdCount' = [fdCount EXCEPT ![fd] = @ + n]
      /\ fd \in Fds
  BY CallFacts DEF TrackOpen, TrackClose, At, WellFormed, Owners, TypeOK
<1>2. /\ Moves(t)
      /\ pc[t].op = "mkstemp" => pc'[t].step = "idle"
      /\ pc[t].op # "mkstemp" => /\ pc'[t].op = pc[t].op /\ pc'[t].step = "track_ptr"
                                 /\ pc'[t].ptr = pc[t].ptr
  BY <1>1, ReturnMoves, ProceedMoves DEF TrackOpen, TrackClose, At, Owners, Steps, Ops
<1> HIDE DEF fd
<1>3. ASSUME NEW x \in Fds PROVE FdAccount(t, x)' = FdAccount(t, x)
  <2>1. fdCount'[x] = fdCount[x] + (IF x = fd THEN n ELSE 0)
    BY <1>1 DEF Owners, TypeOK
  <2>2. /\ OpenDue(pc'[t], x) = 0 /\ CloseDue(pc'[t], x) = 0
        /\ OpenDue(pc[t], x) - CloseDue(pc[t], x) = IF x = fd THEN n ELSE 0
        /\ OpenDue(pc[t], x) \in Int /\ CloseDue(pc[t], x) \in Int
    BY <1>1, <1>2 DEF OpenDue, CloseDue, fd
  <2>3. InUse(fds[x]) \in Int /\ lostFd[x] \in Int /\ fdCount[x] \in Int
    BY DEF InUse, Owners, TypeOK
  <2> QED
    BY <1>1, <2>1, <2>2, <2>3 DEF FdAccount, kernel, history
<1>4. ASSUME NEW p \in Pointers PROVE DirAccount(t, p)' = DirAccount(t, p)
  <2>1. pc[t].op = "mkstemp" => pc[t].ptr = None
    BY CallFacts DEF WellFormed
  <2>2. /\ AcquireDue(pc'[t], p) = AcquireDue(pc[t], p)
        /\ ReleaseDue(pc'[t], p) = ReleaseDue(pc[t], p)
    BY <1>1, <1>2, <2>1 DEF AcquireDue, ReleaseDue
  <2> QED
    BY <1>1, <2>2 DEF DirAccount, kernel, history
<1> QED
  BY <1>2, <1>3, <1>4 DEF Neutral

LEMMA TrackPtrIsNeutral ==
  ASSUME LedgerAssumption, Owners, NEW t \in Threads, TrackAcquire(t) \/ TrackRelease(t)
  PROVE  Neutral(t)
<1> DEFINE p == pc[t].ptr
           n == IF pc[t].op = "closedir" THEN -1 ELSE 1
<1>1. /\ pc[t].step = "track_ptr" /\ pc[t].op \in {"opendir", "fdopendir", "closedir"}
      /\ UNCHANGED <<kernel, fdCount, history>>
      /\ dirCount' = [dirCount EXCEPT ![p] = @ + n]
      /\ p \in Pointers
  BY CallFacts DEF TrackAcquire, TrackRelease, At, WellFormed, Owners, TypeOK
<1>2. Moves(t) /\ pc'[t].step = "idle"
  BY ReturnMoves DEF TrackAcquire, TrackRelease, Owners
<1> HIDE DEF p
<1>3. ASSUME NEW x \in Fds PROVE FdAccount(t, x)' = FdAccount(t, x)
  BY <1>1, <1>2 DEF FdAccount, OpenDue, CloseDue, kernel, history
<1>4. ASSUME NEW q \in Pointers PROVE DirAccount(t, q)' = DirAccount(t, q)
  <2>1. dirCount'[q] = dirCount[q] + (IF q = p THEN n ELSE 0)
    BY <1>1 DEF Owners, TypeOK
  <2>2. /\ AcquireDue(pc'[t], q) = 0 /\ ReleaseDue(pc'[t], q) = 0
        /\ AcquireDue(pc[t], q) - ReleaseDue(pc[t], q) = IF q = p THEN n ELSE 0
        /\ AcquireDue(pc[t], q) \in Int /\ ReleaseDue(pc[t], q) \in Int
    BY <1>1, <1>2 DEF AcquireDue, ReleaseDue, p
  <2>3. InUse(dirs[q]) \in Int /\ lostDir[q] \in Int /\ dirCount[q] \in Int
    BY DEF InUse, Owners, TypeOK
  <2> QED
    BY <1>1, <2>1, <2>2, <2>3 DEF DirAccount, kernel, history
<1> QED
  BY <1>2, <1>3, <1>4 DEF Neutral

(* Without other threads nothing that t has closed is opened again before  *)
(* t has recorded the closing.                                             *)
LEMMA NextKeepsAlone ==
  ASSUME LedgerAssumption, Owners, AloneFree, NEW t \in Threads,
         AppOpen(t) \/ AppClose(t) \/ Call(t) \/ Wrapper(t)
  PROVE  AloneFree'
<1> SUFFICES ASSUME Cardinality(Threads) = 1, pc'[t].op = "closedir"
             PROVE  /\ pc'[t].step = "track_fd" => fds'[pc'[t].fd] = "free"
                    /\ pc'[t].step \in {"track_fd", "track_ptr"} => dirs'[pc'[t].ptr] = "free"
  <2>1. IsFiniteSet(Threads)
    BY DEF LedgerAssumption
  <2>2. Cardinality(Threads) = 1 => \A u \in Threads : u = t
    BY <2>1, FS_Singleton
  <2> QED
    BY <2>2 DEF AloneFree
<1>1. CASE Closedir(t)
  <2>1. /\ At(t, "closedir", "ready")
        /\ dirs' = [dirs EXCEPT ![pc[t].ptr] = "free"]
        /\ fds' = [fd \in Fds |-> IF fd = dirs[pc[t].ptr] THEN "free" ELSE fds[fd]]
        /\ pc'[t].ptr = pc[t].ptr /\ pc'[t].fd = pc[t].fd
    BY <1>1, ProceedMoves DEF Closedir, Consume, At, Owners, Steps, Ops
  <2>2. /\ pc[t].ptr \in Pointers /\ pc[t].fd = dirs[pc[t].ptr]
    BY <2>1, ReadyFacts
  <2>3. pc'[t].step = "track_fd" => pc[t].fd \in Fds
    BY <1>1, <2>1, ClosedirKeepsOwners DEF Owners, Shapes, WellFormed
  <2> QED
    BY <2>1, <2>2, <2>3 DEF Owners, TypeOK
<1>2. CASE TrackClose(t)
  <2>1. /\ pc[t].op = "closedir" /\ pc[t].step = "track_fd"
        /\ pc'[t].step = "track_ptr" /\ pc'[t].ptr = pc[t].ptr
        /\ UNCHANGED dirs
    BY <1>2, ProceedMoves DEF TrackClose, At, Owners, Steps, Ops, kernel
  <2> QED
    BY <2>1 DEF AloneFree
<1>3. CASE Call(t) \/ ReadDescriptor(t)
  BY <1>3 DEF Call, ReadDescriptor, Goto, Owners, TypeOK
<1>4. CASE AppOpen(t) \/ AppClose(t)
  BY <1>4 DEF AppOpen, AppClose, Idle
<1>5. CASE Fault(t) \/ NativeFails(t) \/ ClosedirFails(t) \/ TrackAcquire(t) \/ TrackRelease(t)
  BY <1>5, ReturnMoves DEF Fault, NativeFails, ClosedirFails, TrackAcquire, TrackRelease,
                           Owners
<1>6. CASE Opendir(t) \/ Fdopendir(t) \/ Mkstemp(t)
  BY <1>6 DEF Opendir, Fdopendir, Mkstemp, Goto, Owners, TypeOK
<1>7. CASE TrackOpen(t)
  BY <1>7, ReturnMoves, ProceedMoves DEF TrackOpen, Owners, Steps, Ops
<1> QED
  BY <1>1, <1>2, <1>3, <1>4, <1>5, <1>6, <1>7 DEF Wrapper

-----------------------------------------------------------------------------
LEMMA InitLedgerInv == LedgerAssumption /\ Init => LedgerInv
<1> SUFFICES ASSUME LedgerAssumption, Init
             PROVE  LedgerInv
  OBVIOUS
<1>1. Owners
  BY InitOwners
<1>2. \A t \in Threads : pc[t].op = "none" /\ pc[t].step = "idle"
  BY DEF Init, Idle
<1>3. /\ \A fd \in Fds : OpenOwed(fd) = {} /\ CloseOwed(fd) = {}
      /\ \A p \in Pointers : AcquireOwed(p) = {} /\ ReleaseOwed(p) = {}
  BY <1>2 DEF OpenOwed, CloseOwed, AcquireOwed, ReleaseOwed, At
<1>4. /\ \A fd \in Fds : Cardinality(OpenOwed(fd)) = 0 /\ Cardinality(CloseOwed(fd)) = 0
      /\ \A p \in Pointers :
           Cardinality(AcquireOwed(p)) = 0 /\ Cardinality(ReleaseOwed(p)) = 0
  BY <1>3, FS_EmptySet, Zenon
<1>5. DescriptorsBalance /\ StreamsBalance
  BY <1>4 DEF Init, DescriptorsBalance, StreamsBalance, InUse
<1>6. AloneFree
  BY <1>2 DEF AloneFree
<1> QED
  BY <1>1, <1>5, <1>6 DEF LedgerInv

LEMMA NextKeepsLedger == LedgerAssumption /\ LedgerInv /\ [Next]_vars => LedgerInv'
<1> SUFFICES ASSUME LedgerAssumption, LedgerInv, [Next]_vars
             PROVE  LedgerInv'
  OBVIOUS
<1>1. CASE UNCHANGED vars
  <2>1. Owners'
    BY <1>1, StutterKeepsOwners DEF LedgerInv
  <2>2. DescriptorsBalance' /\ StreamsBalance' /\ AloneFree'
    BY <1>1 DEF LedgerInv, vars, DescriptorsBalance, StreamsBalance, AloneFree, OpenOwed,
                CloseOwed, AcquireOwed, ReleaseOwed, At
  <2> QED
    BY <2>1, <2>2 DEF LedgerInv
<1>2. ASSUME NEW t \in Threads, AppOpen(t) \/ AppClose(t) \/ Call(t) \/ Wrapper(t)
      PROVE  LedgerInv'
  <2>1. Owners /\ Owners'
    BY <1>2, NextKeepsOwners DEF LedgerInv, Next
  <2>2. Neutral(t)
    BY <1>2, <2>1, AppIsNeutral, QuietIsNeutral, OpendirIsNeutral, FdopendirIsNeutral,
       MkstempIsNeutral, ClosedirIsNeutral, ClosedirFailsIsNeutral, TrackFdIsNeutral,
       TrackPtrIsNeutral DEF Wrapper
  <2>3. DescriptorsBalance' /\ StreamsBalance'
    BY <2>1, <2>2, NeutralKeepsBalance DEF LedgerInv, Owners
  <2>4. AloneFree'
    BY <1>2, <2>1, NextKeepsAlone DEF LedgerInv
  <2> QED
    BY <2>1, <2>3, <2>4 DEF LedgerInv
<1> QED
  BY <1>1, <1>2 DEF Next

(* The inductive invariant: responsibilities, and the balances they imply. *)
THEOREM LedgerHolds == Spec => []LedgerInv
<1> QED
  BY InitLedgerInv, NextKeepsLedger, LedgerAssumption, PTL DEF Spec

(* However the threads' native calls and records interleave, the balance   *)
(* of a descriptor differs from what the kernel has open there by exactly  *)
(* the records still owed and the closes that failed after the fact        *)
(* (dirent.c:68-81 and 142-152, stdlib.c:75-85).                           *)
THEOREM DescriptorsAlwaysBalance == Spec => []DescriptorsBalance
<1>1. LedgerInv => DescriptorsBalance
  BY DEF LedgerInv
<1> QED
  BY <1>1, LedgerHolds, PTL

(* The same for streams, by address (dirent.c:61, 82, 122 and 151).        *)
THEOREM StreamsAlwaysBalance == Spec => []StreamsBalance
<1>1. LedgerInv => StreamsBalance
  BY DEF LedgerInv
<1> QED
  BY <1>1, LedgerHolds, PTL

(* At most one thread owes the opening of a resource, and the resource is  *)
(* then open: whoever is responsible for it is the one who owes.           *)
LEMMA OneDebtor ==
  ASSUME LedgerAssumption, Owners
  PROVE  /\ \A fd \in Fds :
              /\ Cardinality(OpenOwed(fd)) \in {0, 1}
              /\ Cardinality(OpenOwed(fd)) = 1 => InUse(fds[fd]) = 1
         /\ \A p \in Pointers :
              /\ Cardinality(AcquireOwed(p)) \in {0, 1}
              /\ Cardinality(AcquireOwed(p)) = 1 => InUse(dirs[p]) = 1
<1>1. IsFiniteSet(Threads)
  BY DEF LedgerAssumption
<1>2. ASSUME NEW p \in Pointers
      PROVE  /\ Cardinality(AcquireOwed(p)) \in {0, 1}
             /\ Cardinality(AcquireOwed(p)) = 1 => InUse(dirs[p]) = 1
  <2>1. AcquireOwed(p) \in SUBSET Threads
    BY DEF AcquireOwed
  <2>2. \A t \in AcquireOwed(p) : t \in Threads /\ HasStream(pc[t]) /\ pc[t].ptr = p
    BY DEF AcquireOwed, HasStream
  <2>3. \A t, u \in AcquireOwed(p) : t = u
    BY <2>2 DEF Owners, StreamOwners
  <2>4. AcquireOwed(p) # {} => dirs[p] # "free"
    BY <2>2 DEF Owners, StreamOwners
  <2> QED
    BY <1>1, <2>1, <2>3, <2>4, CountAtMostOne DEF InUse
<1>3. ASSUME NEW fd \in Fds
      PROVE  /\ Cardinality(OpenOwed(fd)) \in {0, 1}
             /\ Cardinality(OpenOwed(fd)) = 1 => InUse(fds[fd]) = 1
  <2>1. OpenOwed(fd) \in SUBSET Threads
    BY DEF OpenOwed
  \* Either a stream of the thread's own is there, or a file of its own.
  <2>2. \A t \in OpenOwed(fd) :
          \/ /\ HasStream(pc[t]) /\ pc[t].ptr \in Pointers
             /\ dirs[pc[t].ptr] = fd /\ fds[fd] = "stream"
          \/ HasPlain(pc[t]) /\ pc[t].fd = fd /\ fds[fd] \in {"file", "dir"}
    <3> TAKE t \in OpenOwed(fd)
    <3>1. /\ t \in Threads /\ pc[t].step = "track_fd" /\ pc[t].fd = fd
          /\ pc[t].op \in {"opendir", "mkstemp"}
      BY DEF OpenOwed
    <3>2. CASE pc[t].op = "opendir"
      <4>1. HasStream(pc[t]) /\ pc[t].ptr \in Pointers
        BY <3>1, <3>2, CallFacts DEF HasStream
      <4> QED
        BY <3>1, <4>1 DEF Owners, StreamOwners, StreamDescriptors
    <3>3. CASE pc[t].op = "mkstemp"
      BY <3>1, <3>3 DEF HasPlain, Owners, PlainOwners
    <3> QED
      BY <3>1, <3>2, <3>3
  <2>3. \A t, u \in OpenOwed(fd) : t = u
    <3> SUFFICES ASSUME NEW t \in OpenOwed(fd), NEW u \in OpenOwed(fd), t # u
                 PROVE  FALSE
      OBVIOUS
    <3>1. CASE fds[fd] = "stream"
      <4>1. pc[t].ptr \in Pointers /\ pc[u].ptr \in Pointers /\ pc[t].ptr # pc[u].ptr
        BY <2>1, <2>2, <3>1 DEF Owners, StreamOwners
      <4>2. dirs[pc[t].ptr] = fd /\ dirs[pc[u].ptr] = fd
        BY <2>2, <3>1
      <4> QED
        BY <4>1, <4>2 DEF Owners, StreamDescriptors, OneStreamPerDescriptor
    <3>2. CASE fds[fd] # "stream"
      BY <2>1, <2>2, <3>2 DEF Owners, PlainOwners
    <3> QED
      BY <3>1, <3>2
  <2>4. OpenOwed(fd) # {} => fds[fd] # "free"
    BY <2>2
  <2> QED
    BY <1>1, <2>1, <2>3, <2>4, CountAtMostOne DEF InUse
<1> QED
  BY <1>2, <1>3

(* The balances with their parts typed: all that is left is arithmetic.    *)
LEMMA BalanceFacts ==
  ASSUME LedgerAssumption, LedgerInv
  PROVE  /\ \A fd \in Fds :
              /\ fdCount[fd] \in Int /\ lostFd[fd] \in Nat /\ InUse(fds[fd]) \in {0, 1}
              /\ Cardinality(CloseOwed(fd)) \in Nat
              /\ Cardinality(OpenOwed(fd)) \in {0, 1}
              /\ Cardinality(OpenOwed(fd)) = 1 => InUse(fds[fd]) = 1
              /\ fdCount[fd] + Cardinality(OpenOwed(fd)) =
                   InUse(fds[fd]) + Cardinality(CloseOwed(fd)) + lostFd[fd]
         /\ \A p \in Pointers :
              /\ dirCount[p] \in Int /\ lostDir[p] \in Nat /\ InUse(dirs[p]) \in {0, 1}
              /\ Cardinality(ReleaseOwed(p)) \in Nat
              /\ Cardinality(AcquireOwed(p)) \in {0, 1}
              /\ Cardinality(AcquireOwed(p)) = 1 => InUse(dirs[p]) = 1
              /\ dirCount[p] + Cardinality(AcquireOwed(p)) =
                   InUse(dirs[p]) + Cardinality(ReleaseOwed(p)) + lostDir[p]
<1>1. /\ \A fd \in Fds : Cardinality(CloseOwed(fd)) \in Nat
      /\ \A p \in Pointers : Cardinality(ReleaseOwed(p)) \in Nat
  <2>1. IsFiniteSet(Threads)
    BY DEF LedgerAssumption
  <2>2. /\ \A fd \in Fds : CloseOwed(fd) \in SUBSET Threads
        /\ \A p \in Pointers : ReleaseOwed(p) \in SUBSET Threads
    BY DEF CloseOwed, ReleaseOwed
  <2> QED
    BY <2>1, <2>2, CountSubset
<1>2. /\ \A fd \in Fds : /\ fdCount[fd] \in Int /\ lostFd[fd] \in Nat
                          /\ InUse(fds[fd]) \in {0, 1}
      /\ \A p \in Pointers : /\ dirCount[p] \in Int /\ lostDir[p] \in Nat
                             /\ InUse(dirs[p]) \in {0, 1}
  BY DEF LedgerInv, Owners, TypeOK, InUse
<1>3. Owners
  BY DEF LedgerInv
<1>4. /\ \A fd \in Fds :
           /\ Cardinality(OpenOwed(fd)) \in {0, 1}
           /\ Cardinality(OpenOwed(fd)) = 1 => InUse(fds[fd]) = 1
      /\ \A p \in Pointers :
           /\ Cardinality(AcquireOwed(p)) \in {0, 1}
           /\ Cardinality(AcquireOwed(p)) = 1 => InUse(dirs[p]) = 1
  BY <1>3, OneDebtor
<1> QED
  BY <1>1, <1>2, <1>4 DEF LedgerInv, DescriptorsBalance, StreamsBalance

(* No prefix of the ledger shows more closes than opens, also where a      *)
(* freed descriptor or address is in use again before its closing is       *)
(* recorded (dirent.c:68-87, 142-152).                                     *)
THEOREM NoNegativeBalance == Spec => []NeverNegative
<1>1. LedgerAssumption /\ LedgerInv => NeverNegative
  <2> SUFFICES ASSUME LedgerAssumption, LedgerInv
               PROVE  NeverNegative
    OBVIOUS
  <2>1. ASSUME NEW fd \in Fds PROVE fdCount[fd] >= 0
    BY BalanceFacts
  <2>2. ASSUME NEW p \in Pointers PROVE dirCount[p] >= 0
    BY BalanceFacts
  <2> QED
    BY <2>1, <2>2 DEF NeverNegative
<1> QED
  BY <1>1, LedgerHolds, LedgerAssumption, PTL

(* What the application owns after any outcome of any call is open, and    *)
(* the ledger shows it (dirent.c:56 and 63-70).                            *)
THEOREM OwnedIsAlwaysThere == Spec => []OwnedIsThere
<1>1. LedgerAssumption /\ LedgerInv => OwnedIsThere
  <2> SUFFICES ASSUME LedgerAssumption, LedgerInv
               PROVE  OwnedIsThere
    OBVIOUS
  <2> USE DEF LedgerInv, Owners
  <2>1. ASSUME NEW p \in held
        PROVE  /\ p \in Pointers /\ dirs[p] # "free" /\ dirCount[p] > 0
               /\ dirs[p] \in Fds => fds[dirs[p]] = "stream" /\ fdCount[dirs[p]] > 0
    <3>1. p \in Pointers /\ dirs[p] # "free" /\ InUse(dirs[p]) = 1
      BY DEF TypeOK, StreamOwners, InUse
    <3>2. AcquireOwed(p) = {}
      \* Whoever owes the acquisition is responsible for the stream himself.
      <4>1. \A t \in AcquireOwed(p) : t \in Threads /\ HasStream(pc[t]) /\ pc[t].ptr = p
        BY DEF AcquireOwed, HasStream
      <4> QED
        BY <4>1 DEF StreamOwners
    <3>3. Cardinality(AcquireOwed(p)) = 0
      BY <3>2, FS_EmptySet, Zenon
    <3>4. dirCount[p] > 0
      BY <3>1, <3>3, BalanceFacts
    <3>5. ASSUME dirs[p] \in Fds
          PROVE  fds[dirs[p]] = "stream" /\ fdCount[dirs[p]] > 0
      <4>1. fds[dirs[p]] = "stream" /\ InUse(fds[dirs[p]]) = 1
        BY <3>1, <3>5 DEF StreamDescriptors, InUse
      <4>2. OpenOwed(dirs[p]) = {}
        <5> SUFFICES ASSUME NEW t \in OpenOwed(dirs[p]) PROVE FALSE
          OBVIOUS
        <5>1. /\ t \in Threads /\ pc[t].step = "track_fd" /\ pc[t].fd = dirs[p]
              /\ pc[t].op \in {"opendir", "mkstemp"}
          BY DEF OpenOwed
        <5>2. pc[t].op # "mkstemp"
          BY <4>1, <5>1 DEF HasPlain, PlainOwners
        <5>3. HasStream(pc[t]) /\ pc[t].ptr \in Pointers
          BY <5>1, <5>2, CallFacts DEF HasStream
        <5>4. dirs[pc[t].ptr] = dirs[p] /\ pc[t].ptr # p
          BY <5>1, <5>3 DEF StreamOwners
        <5> QED
          BY <3>1, <3>5, <5>3, <5>4 DEF StreamDescriptors, OneStreamPerDescriptor
      <4>3. Cardinality(OpenOwed(dirs[p])) = 0
        BY <4>2, FS_EmptySet, Zenon
      <4> QED
        BY <3>5, <4>1, <4>3, BalanceFacts
    <3> QED
      BY <3>1, <3>4, <3>5
  <2>2. ASSUME NEW fd \in raw
        PROVE  fds[fd] \in {"file", "dir"} /\ fdCount[fd] > 0
    <3>1. fd \in Fds /\ fds[fd] \in {"file", "dir"} /\ InUse(fds[fd]) = 1
      BY DEF TypeOK, PlainOwners, InUse
    <3>2. OpenOwed(fd) = {}
      <4> SUFFICES ASSUME NEW t \in OpenOwed(fd) PROVE FALSE
        OBVIOUS
      <4>1. /\ t \in Threads /\ pc[t].step = "track_fd" /\ pc[t].fd = fd
            /\ pc[t].op \in {"opendir", "mkstemp"}
        BY DEF OpenOwed
      <4>2. CASE pc[t].op = "mkstemp"
        BY <4>1, <4>2 DEF HasPlain, PlainOwners
      <4>3. CASE pc[t].op = "opendir"
        <5>1. HasStream(pc[t]) /\ pc[t].ptr \in Pointers
          BY <4>1, <4>3, CallFacts DEF HasStream
        <5>2. dirs[pc[t].ptr] = fd
          BY <4>1, <5>1 DEF StreamOwners
        <5> QED
          BY <3>1, <5>1, <5>2 DEF StreamDescriptors
      <4> QED
        BY <4>1, <4>2, <4>3
    <3>3. Cardinality(OpenOwed(fd)) = 0
      BY <3>2, FS_EmptySet, Zenon
    <3> QED
      BY <3>1, <3>3, BalanceFacts
  <2> QED
    BY <2>1, <2>2 DEF OwnedIsThere
<1> QED
  BY <1>1, LedgerHolds, LedgerAssumption, PTL

(* One thread alone: for a descriptor or a stream that no failing close    *)
(* has taken, the ledger alternates between opening and closing and is the *)
(* truth between calls; for the others it shows too much (dirent.c:49-156).*)
THEOREM AloneIsExact == Spec => []AloneExact
<1>1. LedgerAssumption /\ LedgerInv => AloneExact
  <2> DEFINE AllIdle == \A t \in Threads : pc[t] = Idle
  <2> SUFFICES ASSUME LedgerAssumption, LedgerInv, Cardinality(Threads) = 1
               PROVE  /\ \A fd \in Fds :
                           /\ lostFd[fd] = 0 => fdCount[fd] \in {0, 1}
                           /\ AllIdle => IF lostFd[fd] = 0
                                           THEN fdCount[fd] = InUse(fds[fd])
                                           ELSE fdCount[fd] > InUse(fds[fd])
                      /\ \A p \in Pointers :
                           /\ lostDir[p] = 0 => dirCount[p] \in {0, 1}
                           /\ AllIdle => IF lostDir[p] = 0
                                           THEN dirCount[p] = InUse(dirs[p])
                                           ELSE dirCount[p] > InUse(dirs[p])
    BY DEF AloneExact
  <2> USE DEF LedgerInv
  <2>1. IsFiniteSet(Threads) /\ \A t, u \in Threads : t = u
    BY FS_Singleton DEF LedgerAssumption
  <2>2. ASSUME NEW fd \in Fds
        PROVE  /\ Cardinality(CloseOwed(fd)) \in {0, 1}
               /\ Cardinality(CloseOwed(fd)) = 1 => InUse(fds[fd]) = 0
               /\ (\A t \in Threads : pc[t] = Idle) =>
                    Cardinality(CloseOwed(fd)) = 0 /\ Cardinality(OpenOwed(fd)) = 0
    <3>1. /\ CloseOwed(fd) \in SUBSET Threads
          /\ \A t, u \in CloseOwed(fd) : t = u
      BY <2>1 DEF CloseOwed
    <3>2. CloseOwed(fd) # {} => fds[fd] = "free"
      BY DEF CloseOwed, AloneFree, At
    <3>3. (\A t \in Threads : pc[t] = Idle) => CloseOwed(fd) = {} /\ OpenOwed(fd) = {}
      BY DEF CloseOwed, OpenOwed, At, Idle
    <3>4. (\A t \in Threads : pc[t] = Idle) =>
            Cardinality(CloseOwed(fd)) = 0 /\ Cardinality(OpenOwed(fd)) = 0
      BY <3>3, FS_EmptySet, Zenon
    <3> QED
      BY <2>1, <3>1, <3>2, <3>4, CountAtMostOne DEF InUse
  <2>3. ASSUME NEW p \in Pointers
        PROVE  /\ Cardinality(ReleaseOwed(p)) \in {0, 1}
               /\ Cardinality(ReleaseOwed(p)) = 1 => InUse(dirs[p]) = 0
               /\ (\A t \in Threads : pc[t] = Idle) =>
                    Cardinality(ReleaseOwed(p)) = 0 /\ Cardinality(AcquireOwed(p)) = 0
    <3>1. /\ ReleaseOwed(p) \in SUBSET Threads
          /\ \A t, u \in ReleaseOwed(p) : t = u
      BY <2>1 DEF ReleaseOwed
    <3>2. ReleaseOwed(p) # {} => dirs[p] = "free"
      BY DEF ReleaseOwed, AloneFree
    <3>3. (\A t \in Threads : pc[t] = Idle) => ReleaseOwed(p) = {} /\ AcquireOwed(p) = {}
      BY DEF ReleaseOwed, AcquireOwed, Idle
    <3>4. (\A t \in Threads : pc[t] = Idle) =>
            Cardinality(ReleaseOwed(p)) = 0 /\ Cardinality(AcquireOwed(p)) = 0
      BY <3>3, FS_EmptySet, Zenon
    <3> QED
      BY <2>1, <3>1, <3>2, <3>4, CountAtMostOne DEF InUse
  <2>4. ASSUME NEW fd \in Fds
        PROVE  /\ lostFd[fd] \in Nat
               /\ fdCount[fd] - lostFd[fd] \in {0, 1} /\ fdCount[fd] \in Int
               /\ AllIdle => fdCount[fd] - lostFd[fd] = InUse(fds[fd])
    BY <2>2, BalanceFacts DEF TypeOK
  <2>5. ASSUME NEW p \in Pointers
        PROVE  /\ lostDir[p] \in Nat
               /\ dirCount[p] - lostDir[p] \in {0, 1} /\ dirCount[p] \in Int
               /\ AllIdle => dirCount[p] - lostDir[p] = InUse(dirs[p])
    BY <2>3, BalanceFacts DEF TypeOK
  <2>6. \A x : InUse(x) \in {0, 1}
    BY DEF InUse
  <2> QED
    BY <2>4, <2>5, <2>6
<1> QED
  BY <1>1, LedgerHolds, LedgerAssumption, PTL
-----------------------------------------------------------------------------
(* DirLedger implements DirLedgerContract.  What the contract's ledger has *)
(* entered for a resource, read through the refinement mapping, is what is *)
(* in use and what failed closes took: the balances say so.                *)
FdLog == [fd \in Fds |-> fdCount[fd] + Cardinality(OpenOwed(fd))
                                     - Cardinality(CloseOwed(fd))]
DirLog == [p \in Pointers |-> dirCount[p] + Cardinality(AcquireOwed(p))
                                          - Cardinality(ReleaseOwed(p))]
Calls == [t \in Threads |-> Abstract(pc[t])]

FdTruth  == [fd \in Fds |-> InUse(fds[fd]) + lostFd[fd]]
DirTruth == [p \in Pointers |-> InUse(dirs[p]) + lostDir[p]]

LogsTrue == FdLog = FdTruth /\ DirLog = DirTruth

LEMMA LogsAreTrue == LedgerAssumption /\ LedgerInv => LogsTrue
<1> SUFFICES ASSUME LedgerAssumption, LedgerInv
             PROVE  LogsTrue
  OBVIOUS
<1>1. ASSUME NEW fd \in Fds
      PROVE  fdCount[fd] + Cardinality(OpenOwed(fd)) - Cardinality(CloseOwed(fd))
               = InUse(fds[fd]) + lostFd[fd]
  BY BalanceFacts
<1>2. ASSUME NEW p \in Pointers
      PROVE  dirCount[p] + Cardinality(AcquireOwed(p)) - Cardinality(ReleaseOwed(p))
               = InUse(dirs[p]) + lostDir[p]
  BY BalanceFacts
<1>3. FdLog = FdTruth
  BY <1>1 DEF FdLog, FdTruth
<1>4. DirLog = DirTruth
  BY <1>2 DEF DirLog, DirTruth
<1> QED
  BY <1>3, <1>4 DEF LogsTrue

(* How the logs follow a change of what is in use.                         *)
LEMMA FdLogStep ==
  ASSUME TypeOK, LogsTrue, LogsTrue', lostFd' = lostFd
  PROVE  /\ fds' = fds => FdLog' = FdLog
         /\ \A fd \in Fds :
              \A x \in {"file", "dir", "stream"} :
                fds[fd] = "free" /\ fds' = [fds EXCEPT ![fd] = x]
                  => FdLog' = [FdLog EXCEPT ![fd] = @ + 1]
         /\ \A fd \in Fds :
              fds[fd] # "free" /\ fds' = [fds EXCEPT ![fd] = "free"]
                => FdLog' = [FdLog EXCEPT ![fd] = @ + (-1)]
         /\ \A fd \in Fds :
              fds[fd] = "dir" /\ fds' = [fds EXCEPT ![fd] = "stream"] => FdLog' = FdLog
<1>1. /\ FdLog = [fd \in Fds |-> InUse(fds[fd]) + lostFd[fd]]
      /\ FdLog' = [fd \in Fds |-> InUse(fds'[fd]) + lostFd[fd]]
  BY DEF LogsTrue, FdTruth
<1>2. fds \in [Fds -> {"free", "file", "dir", "stream"}] /\ lostFd \in [Fds -> Nat]
  BY DEF TypeOK
<1>3. fds' = fds => FdLog' = FdLog
  BY <1>1
<1>4. ASSUME NEW fd \in Fds, NEW x \in {"file", "dir", "stream"},
             fds[fd] = "free", fds' = [fds EXCEPT ![fd] = x]
      PROVE  FdLog' = [FdLog EXCEPT ![fd] = @ + 1]
  <2>1. \A y \in Fds : InUse(fds'[y]) + lostFd[y] =
          IF y = fd THEN (InUse(fds[y]) + lostFd[y]) + 1 ELSE InUse(fds[y]) + lostFd[y]
    BY <1>2, <1>4 DEF InUse
  <2> QED
    BY <1>1, <2>1
<1>5. ASSUME NEW fd \in Fds, fds[fd] # "free", fds' = [fds EXCEPT ![fd] = "free"]
      PROVE  FdLog' = [FdLog EXCEPT ![fd] = @ + (-1)]
  <2>1. \A y \in Fds : InUse(fds'[y]) + lostFd[y] =
          IF y = fd THEN (InUse(fds[y]) + lostFd[y]) + (-1) ELSE InUse(fds[y]) + lostFd[y]
    BY <1>2, <1>5 DEF InUse
  <2> QED
    BY <1>1, <2>1
<1>6. ASSUME NEW fd \in Fds, fds[fd] = "dir", fds' = [fds EXCEPT ![fd] = "stream"]
      PROVE  FdLog' = FdLog
  <2>1. \A y \in Fds : InUse(fds'[y]) = InUse(fds[y])
    BY <1>2, <1>6 DEF InUse
  <2> QED
    BY <1>1, <2>1
<1> QED
  BY <1>3, <1>4, <1>5, <1>6

LEMMA DirLogStep ==
  ASSUME TypeOK, LogsTrue, LogsTrue', lostDir' = lostDir
  PROVE  /\ dirs' = dirs => DirLog' = DirLog
         /\ \A p \in Pointers : \A d :
              d # "free" /\ dirs[p] = "free" /\ dirs' = [dirs EXCEPT ![p] = d]
                => DirLog' = [DirLog EXCEPT ![p] = @ + 1]
         /\ \A p \in Pointers :
              dirs[p] # "free" /\ dirs' = [dirs EXCEPT ![p] = "free"]
                => DirLog' = [DirLog EXCEPT ![p] = @ + (-1)]
<1>1. /\ DirLog = [p \in Pointers |-> InUse(dirs[p]) + lostDir[p]]
      /\ DirLog' = [p \in Pointers |-> InUse(dirs'[p]) + lostDir[p]]
  BY DEF LogsTrue, DirTruth
<1>2. dirs \in [Pointers -> Fds \cup {None, "free"}] /\ lostDir \in [Pointers -> Nat]
  BY DEF TypeOK
<1>3. dirs' = dirs => DirLog' = DirLog
  BY <1>1
<1>4. ASSUME NEW p \in Pointers, NEW d, d # "free", dirs[p] = "free",
             dirs' = [dirs EXCEPT ![p] = d]
      PROVE  DirLog' = [DirLog EXCEPT ![p] = @ + 1]
  <2>1. \A y \in Pointers : InUse(dirs'[y]) + lostDir[y] =
          IF y = p THEN (InUse(dirs[y]) + lostDir[y]) + 1 ELSE InUse(dirs[y]) + lostDir[y]
    BY <1>2, <1>4 DEF InUse
  <2> QED
    BY <1>1, <2>1
<1>5. ASSUME NEW p \in Pointers, dirs[p] # "free", dirs' = [dirs EXCEPT ![p] = "free"]
      PROVE  DirLog' = [DirLog EXCEPT ![p] = @ + (-1)]
  <2>1. \A y \in Pointers : InUse(dirs'[y]) + lostDir[y] =
          IF y = p THEN (InUse(dirs[y]) + lostDir[y]) + (-1) ELSE InUse(dirs[y]) + lostDir[y]
    BY <1>2, <1>5 DEF InUse
  <2> QED
    BY <1>1, <2>1
<1> QED
  BY <1>3, <1>4, <1>5

(* The contract's view of a call.                                          *)
LEMMA AbstractIs ==
  ASSUME NEW c
  PROVE  /\ Abstract(c).op = c.op /\ Abstract(c).ptr = c.ptr
         /\ c.op # "closedir" => Abstract(c).fd = c.fd
         /\ c.op = "closedir" => Abstract(c).fd = None
         /\ c.step \in {"called", "ready"} =>
              Abstract(c) = [op |-> c.op, phase |-> "pending", ptr |-> c.ptr,
                             fd |-> IF c.op = "closedir" THEN None ELSE c.fd]
         /\ c.step \in {"track_fd", "track_ptr"} =>
              Abstract(c) = [op |-> c.op, phase |-> "done", ptr |-> c.ptr,
                             fd |-> IF c.op = "closedir" THEN None ELSE c.fd]
         /\ c = Idle => Abstract(c) = Contract!NoCall
BY DEF Abstract, Idle, Contract!NoCall

LEMMA CallsStep ==
  ASSUME TypeOK, NEW t \in Threads, Moves(t)
  PROVE  /\ Calls[t] = Abstract(pc[t])
         /\ Calls' = [Calls EXCEPT ![t] = Abstract(pc'[t])]
<1>1. Calls = [u \in Threads |-> Abstract(pc[u])]
  BY DEF Calls
<1>2. Calls' = [u \in Threads |-> Abstract(pc'[u])]
  BY DEF Calls, Abstract
<1>3. \A u \in Threads \ {t} : pc'[u] = pc[u]
  BY DEF Moves
<1> QED
  BY <1>1, <1>2, <1>3

(* Each action of DirLedger is an action of the contract, or a stutter.    *)
LEMMA AppMaps ==
  ASSUME TypeOK, LogsTrue, LogsTrue', NEW t \in Threads, AppOpen(t) \/ AppClose(t),
         \A fd \in raw : fds[fd] # "free"
  PROVE  Contract!AppOpen(t) \/ Contract!AppClose(t)
<1>1. /\ UNCHANGED <<dirs, held, DirLog, Calls>> /\ lostFd' = lostFd
      /\ Calls[t] = Contract!NoCall
  <2>1. pc' = pc /\ pc[t] = Idle /\ dirs' = dirs /\ held' = held /\ history' = history
    BY DEF AppOpen, AppClose
  <2>2. lostFd' = lostFd /\ lostDir' = lostDir
    BY <2>1 DEF history
  <2>3. Calls[t] = Abstract(pc[t])
    BY DEF Calls
  <2> QED
    BY <2>1, <2>2, <2>3, DirLogStep, AbstractIs DEF Calls
<1>2. CASE AppOpen(t)
  <2>1. PICK fd \in Free(fds) : /\ fds' = [fds EXCEPT ![fd] = "dir"]
                                /\ raw' = raw \cup {fd}
    BY <1>2 DEF AppOpen
  <2>2. fd \in Fds /\ fds[fd] = "free" /\ fd \in Contract!Free(fds)
    BY DEF Free, Contract!Free, TypeOK
  <2>3. FdLog' = Contract!Enter(FdLog, fd, 1)
    BY <1>1, <2>1, <2>2, FdLogStep DEF Contract!Enter
  <2>4. Contract!AppOpen(t)
    BY <1>1, <2>1, <2>2, <2>3 DEF Contract!AppOpen, Calls, FdLog, DirLog
  <2> QED
    BY <2>4
<1>3. CASE AppClose(t)
  <2>1. PICK fd \in raw : /\ fds' = [fds EXCEPT ![fd] = "free"]
                          /\ raw' = raw \ {fd}
    BY <1>3 DEF AppClose
  <2>2. fd \in Fds /\ fds[fd] # "free"
    BY DEF TypeOK
  <2>3. FdLog' = Contract!Enter(FdLog, fd, -1)
    BY <1>1, <2>1, <2>2, FdLogStep DEF Contract!Enter
  <2>4. Contract!AppClose(t)
    BY <1>1, <2>1, <2>2, <2>3 DEF Contract!AppClose, Calls, FdLog, DirLog
  <2> QED
    BY <2>4
<1> QED
  BY <1>2, <1>3

LEMMA CallMaps ==
  ASSUME TypeOK, LogsTrue, LogsTrue', NEW t \in Threads, Call(t)
  PROVE  Contract!Request(t)
<1>1. /\ UNCHANGED <<fds, dirs, FdLog, DirLog>> /\ pc[t] = Idle
  <2>1. /\ pc[t] = Idle /\ fds' = fds /\ dirs' = dirs
        /\ lostFd' = lostFd /\ lostDir' = lostDir
    BY DEF Call, kernel, history
  <2> QED
    BY <2>1, FdLogStep, DirLogStep
<1>2. Calls[t] = Contract!NoCall
  BY <1>1, AbstractIs DEF Calls
<1>3. ASSUME NEW op \in Ops, NEW p \in Pointers \cup {None}, NEW fd \in Fds \cup {None},
             op = "closedir" => fd = None, Goto(t, op, "called", p, fd)
      PROVE  Contract!SetCall(t, op, "pending", p, fd)
  <2>1. /\ Moves(t) /\ pc'[t].op = op /\ pc'[t].step = "called"
        /\ pc'[t].ptr = p /\ pc'[t].fd = fd
    BY <1>3, GotoMoves DEF Steps
  <2>2. Abstract(pc'[t]) = [op |-> op, phase |-> "pending", ptr |-> p, fd |-> fd]
    BY <1>3, <2>1, AbstractIs
  <2>3. Calls' = [Calls EXCEPT ![t] = Abstract(pc'[t])]
    BY <2>1, CallsStep
  <2> QED
    BY <2>2, <2>3 DEF Contract!SetCall, Calls
<1>4. CASE /\ \E op \in {"opendir", "mkstemp"} : Goto(t, op, "called", None, None)
           /\ UNCHANGED owned
  <2>1. PICK op \in {"opendir", "mkstemp"} : Goto(t, op, "called", None, None)
    BY <1>4
  <2>2. Contract!SetCall(t, op, "pending", None, None)
    BY <1>3, <2>1 DEF Ops
  <2> QED
    BY <1>1, <1>2, <1>4, <2>2 DEF Contract!Request, Calls, FdLog, DirLog, owned
<1>5. CASE \E fd \in raw : /\ Goto(t, "fdopendir", "called", None, fd)
                           /\ raw' = raw \ {fd}
                           /\ UNCHANGED held
  <2>1. PICK fd \in raw : /\ Goto(t, "fdopendir", "called", None, fd)
                          /\ raw' = raw \ {fd}
                          /\ UNCHANGED held
    BY <1>5
  <2>2. Contract!SetCall(t, "fdopendir", "pending", None, fd)
    BY <1>3, <2>1 DEF Ops, TypeOK
  <2> QED
    BY <1>1, <1>2, <2>1, <2>2 DEF Contract!Request, Calls, FdLog, DirLog
<1>6. CASE \E p \in held : /\ Goto(t, "closedir", "called", p, None)
                           /\ held' = held \ {p}
                           /\ UNCHANGED raw
  <2>1. PICK p \in held : /\ Goto(t, "closedir", "called", p, None)
                          /\ held' = held \ {p}
                          /\ UNCHANGED raw
    BY <1>6
  <2>2. Contract!SetCall(t, "closedir", "pending", p, None)
    BY <1>3, <2>1 DEF Ops, TypeOK
  <2> QED
    BY <1>1, <1>2, <2>1, <2>2 DEF Contract!Request, Calls, FdLog, DirLog
<1> QED
  BY <1>4, <1>5, <1>6 DEF Call

LEMMA RefusalMaps ==
  ASSUME LedgerAssumption, Owners, LogsTrue, LogsTrue', NEW t \in Threads,
         Fault(t) \/ NativeFails(t)
  PROVE  Contract!Refuse(t)
<1>1. /\ pc[t].step = "called" /\ GiveBack(t) /\ Return(t)
      /\ UNCHANGED <<fds, dirs, lostFd, lostDir>>
  BY DEF Fault, NativeFails, kernel, history
<1>2. UNCHANGED <<fds, dirs, FdLog, DirLog>>
  BY <1>1, FdLogStep, DirLogStep DEF Owners
<1>3. /\ Calls[t] = Abstract(pc[t])
      /\ Calls' = [Calls EXCEPT ![t] = Contract!NoCall]
  <2>1. Moves(t) /\ pc'[t] = Idle
    BY <1>1, ReturnMoves DEF Owners
  <2> QED
    BY <2>1, CallsStep, AbstractIs DEF Owners
<1>4. pc[t].op = "closedir" => pc[t].fd = None
  BY <1>1, CallFacts DEF WellFormed
<1>5. /\ Calls[t].phase = "pending"
      /\ Calls[t].ptr = pc[t].ptr /\ Calls[t].fd = pc[t].fd
  BY <1>1, <1>3, <1>4, AbstractIs
<1>6. /\ held' = held \cup ({Calls[t].ptr} \cap Pointers)
      /\ raw' = raw \cup ({Calls[t].fd} \cap Fds)
  BY <1>1, <1>5 DEF GiveBack
<1> QED
  BY <1>2, <1>3, <1>5, <1>6 DEF Contract!Refuse, Calls, FdLog, DirLog

LEMMA OpendirMaps ==
  ASSUME LedgerAssumption, Owners, LogsTrue, LogsTrue', NEW t \in Threads, Opendir(t)
  PROVE  Contract!OpenStream(t)
<1>1. PICK p \in Pointers, fd \in Fds \cup {None}, step \in {"track_fd", "track_ptr"} :
        /\ dirs[p] = "free" /\ dirs' = [dirs EXCEPT ![p] = fd]
        /\ fd \in Fds => fds[fd] = "free"
        /\ fds' = [x \in Fds |-> IF x = fd THEN "stream" ELSE fds[x]]
        /\ step = "track_fd" <=> fd \in Fds
        /\ Goto(t, "opendir", step, p, fd)
  BY OpendirEffect DEF Owners
<1>2. /\ pc[t].op = "opendir" /\ pc[t].step = "called"
      /\ UNCHANGED <<raw, held, lostFd, lostDir>>
  BY DEF Opendir, At, owned, history
<1>3. Calls[t].op = "opendir" /\ Calls[t].phase = "pending"
  BY <1>2, AbstractIs DEF Calls
<1>4. Calls' = [Calls EXCEPT ![t] =
                  [op |-> "opendir", phase |-> "done", ptr |-> p, fd |-> fd]]
  <2>1. /\ Moves(t) /\ pc'[t].op = "opendir" /\ pc'[t].step \in {"track_fd", "track_ptr"}
        /\ pc'[t].ptr = p /\ pc'[t].fd = fd
    BY <1>1, GotoMoves DEF Owners, Ops, Steps
  <2>2. Abstract(pc'[t]) = [op |-> "opendir", phase |-> "done", ptr |-> p, fd |-> fd]
    BY <2>1, AbstractIs
  <2> QED
    BY <2>1, <2>2, CallsStep DEF Owners
<1>5. fd # "free" /\ None \notin Fds /\ None # "free"
  BY DEF LedgerAssumption
<1>6. DirLog' = Contract!Enter(DirLog, p, 1)
  BY <1>1, <1>2, <1>5, DirLogStep DEF Owners, Contract!Enter
<1>7. FdLog' = IF fd \in Fds THEN Contract!Enter(FdLog, fd, 1) ELSE FdLog
  <2>1. fds \in [Fds -> {"free", "file", "dir", "stream"}]
    BY DEF Owners, TypeOK
  <2>2. CASE fd \in Fds
    <3>1. fds' = [fds EXCEPT ![fd] = "stream"] /\ fds[fd] = "free"
      BY <1>1, <2>1, <2>2
    <3> QED
      BY <1>2, <2>2, <3>1, FdLogStep DEF Owners, Contract!Enter
  <2>3. CASE fd \notin Fds
    <3>1. fds' = fds
      BY <1>1, <2>1, <2>3
    <3> QED
      BY <1>2, <2>3, <3>1, FdLogStep DEF Owners
  <2> QED
    BY <2>2, <2>3
<1>8. p \in Contract!Free(dirs) /\ fd \in Contract!Free(fds) \cup {None}
  BY <1>1 DEF Contract!Free, Owners, TypeOK
<1> QED
  BY <1>1, <1>2, <1>3, <1>4, <1>6, <1>7, <1>8
     DEF Contract!OpenStream, Contract!Pending, Contract!EnterFd, Contract!SetCall,
         Calls, FdLog, DirLog

LEMMA FdopendirMaps ==
  ASSUME LedgerAssumption, Owners, LogsTrue, LogsTrue', NEW t \in Threads, Fdopendir(t)
  PROVE  Contract!AdoptDescriptor(t)
<1> DEFINE fd == pc[t].fd
<1>1. /\ pc[t].op = "fdopendir" /\ pc[t].step = "called" /\ fds[fd] = "dir"
      /\ UNCHANGED <<raw, held, lostFd, lostDir>>
  BY DEF Fdopendir, At, owned, history
<1>2. PICK p \in Free(dirs) : /\ dirs' = [dirs EXCEPT ![p] = fd]
                              /\ fds' = [fds EXCEPT ![fd] = "stream"]
                              /\ Goto(t, "fdopendir", "track_ptr", p, fd)
  BY DEF Fdopendir
<1>3. fd \in Fds
  BY <1>1, CallFacts DEF WellFormed
<1>4. p \in Pointers /\ dirs[p] = "free" /\ p \in Contract!Free(dirs) /\ fd # "free"
  BY <1>3 DEF Free, Contract!Free, Owners, TypeOK, LedgerAssumption
<1>5. /\ Calls[t].op = "fdopendir" /\ Calls[t].phase = "pending" /\ Calls[t].fd = fd
  BY <1>1, AbstractIs DEF Calls
<1>6. Calls' = [Calls EXCEPT ![t] =
                  [op |-> "fdopendir", phase |-> "done", ptr |-> p, fd |-> fd]]
  <2>1. /\ Moves(t) /\ pc'[t].op = "fdopendir" /\ pc'[t].step = "track_ptr"
        /\ pc'[t].ptr = p /\ pc'[t].fd = fd
    BY <1>2, <1>3, <1>4, GotoMoves DEF Owners, Ops, Steps
  <2>2. Abstract(pc'[t]) = [op |-> "fdopendir", phase |-> "done", ptr |-> p, fd |-> fd]
    BY <2>1, AbstractIs
  <2> QED
    BY <2>1, <2>2, CallsStep DEF Owners
<1> HIDE DEF fd
<1>7. DirLog' = Contract!Enter(DirLog, p, 1)
  BY <1>1, <1>2, <1>4, DirLogStep DEF Owners, Contract!Enter
<1>8. FdLog' = FdLog
  BY <1>1, <1>2, <1>3, FdLogStep DEF Owners
<1>9. \E q \in Contract!Free(dirs) :
        /\ dirs' = [dirs EXCEPT ![q] = Calls[t].fd]
        /\ fds' = [fds EXCEPT ![Calls[t].fd] = "stream"]
        /\ DirLog' = Contract!Enter(DirLog, q, 1)
        /\ Calls' = [Calls EXCEPT ![t] =
                       [op |-> "fdopendir", phase |-> "done", ptr |-> q,
                        fd |-> Calls[t].fd]]
  BY <1>2, <1>4, <1>5, <1>6, <1>7
<1> QED
  BY <1>1, <1>5, <1>8, <1>9
     DEF Contract!AdoptDescriptor, Contract!Pending, Contract!SetCall, Calls, FdLog, DirLog

LEMMA MkstempMaps ==
  ASSUME LedgerAssumption, Owners, LogsTrue, LogsTrue', NEW t \in Threads, Mkstemp(t)
  PROVE  Contract!CreateFile(t)
<1>1. /\ pc[t].op = "mkstemp" /\ pc[t].step = "called"
      /\ UNCHANGED <<dirs, raw, held, lostFd, lostDir>>
  BY DEF Mkstemp, At, owned, history
<1>2. PICK fd \in Free(fds) : /\ fds' = [fds EXCEPT ![fd] = "file"]
                              /\ Goto(t, "mkstemp", "track_fd", None, fd)
  BY DEF Mkstemp
<1>3. fd \in Fds /\ fds[fd] = "free" /\ fd \in Contract!Free(fds)
  BY DEF Free, Contract!Free, Owners, TypeOK
<1>4. Calls[t].op = "mkstemp" /\ Calls[t].phase = "pending"
  BY <1>1, AbstractIs DEF Calls
<1>5. Calls' = [Calls EXCEPT ![t] =
                  [op |-> "mkstemp", phase |-> "done", ptr |-> None, fd |-> fd]]
  <2>1. /\ Moves(t) /\ pc'[t].op = "mkstemp" /\ pc'[t].step = "track_fd"
        /\ pc'[t].ptr = None /\ pc'[t].fd = fd
    BY <1>2, <1>3, GotoMoves DEF Owners, Ops, Steps
  <2>2. Abstract(pc'[t]) = [op |-> "mkstemp", phase |-> "done", ptr |-> None, fd |-> fd]
    BY <2>1, AbstractIs
  <2> QED
    BY <2>1, <2>2, CallsStep DEF Owners
<1>6. DirLog' = DirLog
  BY <1>1, DirLogStep DEF Owners
<1>7. FdLog' = Contract!Enter(FdLog, fd, 1)
  BY <1>1, <1>2, <1>3, FdLogStep DEF Owners, Contract!Enter
<1> QED
  BY <1>1, <1>2, <1>3, <1>4, <1>5, <1>6, <1>7
     DEF Contract!CreateFile, Contract!Pending, Contract!SetCall, Calls, FdLog, DirLog

(* Asking for the descriptor is no step of the contract.                   *)
LEMMA ReadDescriptorMaps ==
  ASSUME LedgerAssumption, Owners, LogsTrue, LogsTrue', NEW t \in Threads,
         ReadDescriptor(t)
  PROVE  UNCHANGED <<fds, dirs, raw, held, FdLog, DirLog, Calls>>
<1>1. /\ pc[t].op = "closedir" /\ pc[t].step = "called"
      /\ UNCHANGED <<fds, dirs, raw, held, lostFd, lostDir>>
      /\ Goto(t, "closedir", "ready", pc[t].ptr, dirs[pc[t].ptr])
  BY DEF ReadDescriptor, At, kernel, owned, history, DescriptorOf
<1>2. HasStream(pc[t]) /\ pc[t].ptr \in Pointers /\ dirs[pc[t].ptr] \in Fds \cup {None}
  BY <1>1, CallFacts DEF HasStream, Owners, StreamOwners, TypeOK
<1>3. /\ Moves(t) /\ pc'[t].op = "closedir" /\ pc'[t].step = "ready"
      /\ pc'[t].ptr = pc[t].ptr
  BY <1>1, <1>2, GotoMoves DEF Owners, Ops, Steps
<1>4. Abstract(pc'[t]) = Abstract(pc[t])
  BY <1>1, <1>3, AbstractIs
<1>5. Calls' = Calls
  <2>1. Calls' = [Calls EXCEPT ![t] = Calls[t]]
    BY <1>3, <1>4, CallsStep DEF Owners
  <2> QED
    BY <2>1 DEF Calls
<1> QED
  BY <1>1, <1>5, FdLogStep, DirLogStep DEF Owners

LEMMA ClosedirMaps ==
  ASSUME LedgerAssumption, Owners, LogsTrue, LogsTrue', NEW t \in Threads, Closedir(t)
  PROVE  Contract!CloseStream(t)
<1> DEFINE p == pc[t].ptr
<1>1. /\ At(t, "closedir", "ready") /\ pc[t].op = "closedir" /\ pc[t].step = "ready"
      /\ dirs' = [dirs EXCEPT ![p] = "free"]
      /\ fds' = [fd \in Fds |-> IF fd = dirs[p] THEN "free" ELSE fds[fd]]
      /\ UNCHANGED <<raw, held, lostFd, lostDir>>
      /\ Proceed(t, IF pc[t].fd = None THEN "track_ptr" ELSE "track_fd")
  BY DEF Closedir, At, Consume, owned, history
<1>2. /\ p \in Pointers /\ dirs[p] # "free"
      /\ \A fd \in Fds : fd = dirs[p] => fds[fd] = "stream"
  BY <1>1, ReadyFacts
<1>3. Calls[t].op = "closedir" /\ Calls[t].phase = "pending" /\ Calls[t].ptr = p
  BY <1>1, AbstractIs DEF Calls
<1>4. Calls' = [Calls EXCEPT ![t] =
                  [op |-> "closedir", phase |-> "done", ptr |-> p, fd |-> None]]
  <2>1. /\ Moves(t) /\ pc'[t].op = "closedir" /\ pc'[t].step \in {"track_fd", "track_ptr"}
        /\ pc'[t].ptr = p
    BY <1>1, ProceedMoves DEF Owners, Ops, Steps
  <2>2. Abstract(pc'[t]) = [op |-> "closedir", phase |-> "done", ptr |-> p, fd |-> None]
    BY <2>1, AbstractIs
  <2> QED
    BY <2>1, <2>2, CallsStep DEF Owners
<1> HIDE DEF p
<1>5. DirLog' = Contract!Enter(DirLog, p, -1)
  BY <1>1, <1>2, DirLogStep DEF Owners, Contract!Enter
<1>6. FdLog' = IF dirs[p] \in Fds THEN Contract!Enter(FdLog, dirs[p], -1) ELSE FdLog
  <2>1. fds \in [Fds -> {"free", "file", "dir", "stream"}]
    BY DEF Owners, TypeOK
  <2>2. CASE dirs[p] \in Fds
    <3>1. fds' = [fds EXCEPT ![dirs[p]] = "free"] /\ fds[dirs[p]] # "free"
      BY <1>1, <1>2, <2>1, <2>2
    <3> QED
      BY <1>1, <2>2, <3>1, FdLogStep DEF Owners, Contract!Enter
  <2>3. CASE dirs[p] \notin Fds
    <3>1. fds' = fds
      BY <1>1, <2>1, <2>3
    <3> QED
      BY <1>1, <2>3, <3>1, FdLogStep DEF Owners
  <2> QED
    BY <2>2, <2>3
<1>7. /\ dirs' = [dirs EXCEPT ![Calls[t].ptr] = "free"]
      /\ fds' = [fd \in Fds |-> IF fd = dirs[Calls[t].ptr] THEN "free" ELSE fds[fd]]
      /\ DirLog' = Contract!Enter(DirLog, Calls[t].ptr, -1)
      /\ FdLog' = IF dirs[Calls[t].ptr] \in Fds
                    THEN Contract!Enter(FdLog, dirs[Calls[t].ptr], -1) ELSE FdLog
      /\ Calls' = [Calls EXCEPT ![t] =
                     [op |-> "closedir", phase |-> "done", ptr |-> Calls[t].ptr,
                      fd |-> None]]
  BY <1>1, <1>3, <1>4, <1>5, <1>6
<1> QED
  BY <1>1, <1>3, <1>7
     DEF Contract!CloseStream, Contract!Consume, Contract!Pending, Contract!EnterFd,
         Contract!SetCall, Calls, FdLog, DirLog

(* A close that fails after the fact changes what is in use and, by as     *)
(* much, what is lost: nothing is entered.                                 *)
LEMMA ClosedirFailsMaps ==
  ASSUME LedgerAssumption, Owners, LogsTrue, LogsTrue', NEW t \in Threads,
         ClosedirFails(t)
  PROVE  Contract!CloseFails(t)
<1> DEFINE p == pc[t].ptr
<1>1. /\ At(t, "closedir", "ready") /\ pc[t].op = "closedir" /\ pc[t].step = "ready"
      /\ Return(t) /\ UNCHANGED <<raw, held>>
      /\ \/ /\ dirs' = [dirs EXCEPT ![p] = "free"]
            /\ fds' = [fd \in Fds |-> IF fd = dirs[p] THEN "free" ELSE fds[fd]]
            /\ lostDir' = [lostDir EXCEPT ![p] = @ + 1]
            /\ lostFd' = [fd \in Fds |-> IF fd = dirs[p] THEN lostFd[fd] + 1
                                                        ELSE lostFd[fd]]
         \/ UNCHANGED <<fds, dirs, lostFd, lostDir>>
  BY DEF ClosedirFails, At, Consume, owned, kernel, history
<1>2. /\ p \in Pointers /\ dirs[p] # "free"
      /\ \A fd \in Fds : fd = dirs[p] => fds[fd] = "stream"
  BY <1>1, ReadyFacts
<1>3. Calls[t].op = "closedir" /\ Calls[t].phase = "pending" /\ Calls[t].ptr = p
  BY <1>1, AbstractIs DEF Calls
<1>4. Calls' = [Calls EXCEPT ![t] = Contract!NoCall]
  <2>1. Moves(t) /\ pc'[t] = Idle
    BY <1>1, ReturnMoves DEF Owners
  <2> QED
    BY <2>1, CallsStep, AbstractIs DEF Owners
<1> HIDE DEF p
<1>5. FdLog' = FdLog /\ DirLog' = DirLog
  <2>1. CASE UNCHANGED <<fds, dirs, lostFd, lostDir>>
    BY <2>1, FdLogStep, DirLogStep DEF Owners
  <2>2. CASE /\ dirs' = [dirs EXCEPT ![p] = "free"]
             /\ fds' = [fd \in Fds |-> IF fd = dirs[p] THEN "free" ELSE fds[fd]]
             /\ lostDir' = [lostDir EXCEPT ![p] = @ + 1]
             /\ lostFd' = [fd \in Fds |-> IF fd = dirs[p] THEN lostFd[fd] + 1
                                                         ELSE lostFd[fd]]
    <3>1. /\ FdLog = [fd \in Fds |-> InUse(fds[fd]) + lostFd[fd]]
          /\ FdLog' = [fd \in Fds |-> InUse(fds'[fd]) + lostFd'[fd]]
          /\ DirLog = [q \in Pointers |-> InUse(dirs[q]) + lostDir[q]]
          /\ DirLog' = [q \in Pointers |-> InUse(dirs'[q]) + lostDir'[q]]
      BY DEF LogsTrue, FdTruth, DirTruth
    <3>2. /\ lostFd \in [Fds -> Nat] /\ lostDir \in [Pointers -> Nat]
          /\ dirs \in [Pointers -> Fds \cup {None, "free"}]
      BY DEF Owners, TypeOK
    <3>3. \A fd \in Fds : InUse(fds'[fd]) + lostFd'[fd] = InUse(fds[fd]) + lostFd[fd]
      BY <1>2, <2>2, <3>2 DEF InUse
    <3>4. \A q \in Pointers : InUse(dirs'[q]) + lostDir'[q] = InUse(dirs[q]) + lostDir[q]
      BY <1>2, <2>2, <3>2 DEF InUse
    <3> QED
      BY <3>1, <3>3, <3>4
  <2> QED
    BY <1>1, <2>1, <2>2
<1>6. \/ /\ dirs' = [dirs EXCEPT ![Calls[t].ptr] = "free"]
         /\ fds' = [fd \in Fds |-> IF fd = dirs[Calls[t].ptr] THEN "free" ELSE fds[fd]]
      \/ UNCHANGED <<fds, dirs>>
  BY <1>1, <1>3
<1> QED
  BY <1>1, <1>3, <1>4, <1>5, <1>6
     DEF Contract!CloseFails, Contract!Consume, Contract!Pending, Calls, FdLog, DirLog

(* The record that ends a call delivers its outcome; one that does not is  *)
(* no step of the contract, for the call's entry was made with its effect. *)
LEMMA TrackMaps ==
  ASSUME LedgerAssumption, Owners, LogsTrue, LogsTrue', NEW t \in Threads,
         TrackOpen(t) \/ TrackClose(t) \/ TrackAcquire(t) \/ TrackRelease(t)
  PROVE  \/ Contract!Deliver(t)
         \/ UNCHANGED <<fds, dirs, raw, held, FdLog, DirLog, Calls>>
<1>1. UNCHANGED <<fds, dirs, FdLog, DirLog>>
  <2>1. UNCHANGED <<fds, dirs, lostFd, lostDir>>
    BY DEF TrackOpen, TrackClose, TrackAcquire, TrackRelease, kernel, history
  <2> QED
    BY <2>1, FdLogStep, DirLogStep DEF Owners
<1>2. /\ pc[t].step \in {"track_fd", "track_ptr"} /\ pc[t].op \in Ops
      /\ pc[t].op = "mkstemp" => pc[t].step = "track_fd"
      /\ Calls[t] = Abstract(pc[t])
  <2>1. pc[t].step \in {"track_fd", "track_ptr"}
    BY DEF TrackOpen, TrackClose, TrackAcquire, TrackRelease, At
  <2> QED
    BY <2>1, CallFacts DEF Calls, WellFormed
<1>3. Calls[t].phase = "done" /\ Calls[t].op = pc[t].op /\ Calls[t].ptr = pc[t].ptr
  BY <1>2, AbstractIs
<1>4. ASSUME Return(t),
             held' = IF pc[t].op \in {"opendir", "fdopendir"}
                       THEN held \cup {pc[t].ptr} ELSE held,
             raw' = IF pc[t].op = "mkstemp" THEN raw \cup {pc[t].fd} ELSE raw
      PROVE  Contract!Deliver(t)
  <2>1. Moves(t) /\ pc'[t] = Idle
    BY <1>4, ReturnMoves DEF Owners
  <2>2. Calls' = [Calls EXCEPT ![t] = Contract!NoCall]
    BY <2>1, CallsStep, AbstractIs DEF Owners
  <2>3. pc[t].op = "mkstemp" => Calls[t].fd = pc[t].fd
    BY <1>2, AbstractIs
  <2>4. /\ held' = IF Calls[t].op \in {"opendir", "fdopendir"}
                     THEN held \cup {Calls[t].ptr} ELSE held
        /\ raw' = IF Calls[t].op = "mkstemp" THEN raw \cup {Calls[t].fd} ELSE raw
    BY <1>3, <1>4, <2>3
  <2> QED
    BY <1>1, <1>3, <2>2, <2>4 DEF Contract!Deliver, Calls, FdLog, DirLog
<1>5. ASSUME Proceed(t, "track_ptr"), pc[t].op # "mkstemp", UNCHANGED <<raw, held>>
      PROVE  UNCHANGED <<fds, dirs, raw, held, FdLog, DirLog, Calls>>
  <2>1. /\ Moves(t) /\ pc'[t].op = pc[t].op /\ pc'[t].step = "track_ptr"
        /\ pc'[t].ptr = pc[t].ptr /\ pc'[t].fd = pc[t].fd
    BY <1>2, <1>5, ProceedMoves DEF Owners, Steps
  <2>2. Abstract(pc'[t]) = Abstract(pc[t])
    BY <1>2, <2>1, AbstractIs
  <2>3. Calls' = [Calls EXCEPT ![t] = Calls[t]]
    BY <1>2, <2>1, <2>2, CallsStep DEF Owners
  <2>4. Calls' = Calls
    BY <2>3 DEF Calls
  <2> QED
    BY <1>1, <1>5, <2>4
<1>6. CASE TrackOpen(t)
  <2>1. CASE pc[t].op = "mkstemp"
    <3>1. Return(t) /\ raw' = raw \cup {pc[t].fd} /\ held' = held
      BY <1>6, <2>1 DEF TrackOpen
    <3> QED
      BY <1>4, <2>1, <3>1
  <2>2. CASE pc[t].op # "mkstemp"
    <3>1. Proceed(t, "track_ptr") /\ UNCHANGED <<raw, held>>
      BY <1>6, <2>2 DEF TrackOpen
    <3> QED
      BY <1>5, <2>2, <3>1
  <2> QED
    BY <2>1, <2>2
<1>7. CASE TrackClose(t)
  <2>1. Proceed(t, "track_ptr") /\ UNCHANGED <<raw, held>> /\ pc[t].op # "mkstemp"
    BY <1>7 DEF TrackClose, At, owned
  <2> QED
    BY <1>5, <2>1
<1>8. CASE TrackAcquire(t)
  <2>1. /\ Return(t) /\ raw' = raw /\ held' = held \cup {pc[t].ptr}
        /\ pc[t].op \in {"opendir", "fdopendir"} /\ pc[t].op # "mkstemp"
    BY <1>8 DEF TrackAcquire
  <2> QED
    BY <1>4, <2>1
<1>9. CASE TrackRelease(t)
  <2>1. Return(t) /\ UNCHANGED <<raw, held>> /\ pc[t].op = "closedir"
    BY <1>9 DEF TrackRelease, At, owned
  <2> QED
    BY <1>4, <2>1
<1> QED
  BY <1>6, <1>7, <1>8, <1>9

LEMMA StepMaps ==
  ASSUME LedgerAssumption, Owners, LogsTrue, LogsTrue', [Next]_vars
  PROVE  [Contract!Next]_(Contract!contractVars)
<1>1. CASE UNCHANGED vars
  <2>1. UNCHANGED <<fds, dirs, raw, held, pc, lostFd, lostDir>>
    BY <1>1 DEF vars
  <2>2. UNCHANGED <<FdLog, DirLog>>
    BY <2>1, FdLogStep, DirLogStep DEF Owners
  <2>3. Calls' = Calls
    BY <2>1 DEF Calls, Abstract
  <2> QED
    BY <2>1, <2>2, <2>3 DEF Contract!contractVars, Calls, FdLog, DirLog
<1>2. CASE Next
  <2>1. PICK t \in Threads : AppOpen(t) \/ AppClose(t) \/ Call(t) \/ Wrapper(t)
    BY <1>2 DEF Next
  <2>2. \A fd \in raw : fds[fd] # "free"
    BY DEF Owners, PlainOwners
  <2>3. CASE AppOpen(t) \/ AppClose(t)
    <3>1. Contract!AppOpen(t) \/ Contract!AppClose(t)
      BY <2>2, <2>3, AppMaps DEF Owners
    <3> QED
      BY <3>1 DEF Contract!Next
  <2>4. CASE Call(t)
    <3>1. Contract!Request(t)
      BY <2>4, CallMaps DEF Owners
    <3> QED
      BY <3>1 DEF Contract!Next
  <2>5. CASE Wrapper(t)
    <3>1. CASE Fault(t) \/ NativeFails(t)
      BY <3>1, RefusalMaps DEF Contract!Next
    <3>2. CASE Opendir(t)
      BY <3>2, OpendirMaps DEF Contract!Next
    <3>3. CASE Fdopendir(t)
      BY <3>3, FdopendirMaps DEF Contract!Next
    <3>4. CASE Mkstemp(t)
      BY <3>4, MkstempMaps DEF Contract!Next
    <3>5. CASE Closedir(t)
      BY <3>5, ClosedirMaps DEF Contract!Next
    <3>6. CASE ClosedirFails(t)
      BY <3>6, ClosedirFailsMaps DEF Contract!Next
    <3>7. UNCHANGED <<fds, dirs, raw, held, FdLog, DirLog, Calls>>
            => UNCHANGED Contract!contractVars
      BY DEF Contract!contractVars, Calls, FdLog, DirLog
    <3>8. CASE ReadDescriptor(t)
      BY <3>7, <3>8, ReadDescriptorMaps
    <3>9. CASE TrackOpen(t) \/ TrackClose(t) \/ TrackAcquire(t) \/ TrackRelease(t)
      <4>1. Contract!Deliver(t) \/ UNCHANGED Contract!contractVars
        BY <3>7, <3>9, TrackMaps
      <4> QED
        BY <4>1 DEF Contract!Next
    <3> QED
      BY <2>5, <3>1, <3>2, <3>3, <3>4, <3>5, <3>6, <3>8, <3>9 DEF Wrapper
  <2> QED
    BY <2>1, <2>3, <2>4, <2>5
<1> QED
  BY <1>1, <1>2

LEMMA InitMaps == LedgerAssumption /\ Init => Contract!Init
<1> SUFFICES ASSUME LedgerAssumption, Init
             PROVE  Contract!Init
  OBVIOUS
<1>1. LedgerInv
  BY InitLedgerInv
<1>2. LogsTrue
  BY <1>1, LogsAreTrue
<1>3. FdLog = [fd \in Fds |-> 0] /\ DirLog = [p \in Pointers |-> 0]
  BY <1>2 DEF LogsTrue, FdTruth, DirTruth, Init, InUse
<1>4. Calls = [t \in Threads |-> Contract!NoCall]
  BY AbstractIs DEF Calls, Init
<1> QED
  BY <1>3, <1>4 DEF Init, Contract!Init, Calls, FdLog, DirLog

(* DirLedger implements DirLedgerContract: each call opens or closes its   *)
(* resource and enters that in the ledger at one moment, whatever the      *)
(* other threads do between the native call and the records                *)
(* (dirent.c:49-87 and 107-156, stdlib.c:57-94).                           *)
THEOREM LedgerKeepsTheContract == Spec => ContractSpec
<1>1. LedgerAssumption /\ LedgerInv => Owners /\ LogsTrue
  BY LogsAreTrue DEF LedgerInv
<1>2. /\ LedgerAssumption /\ Owners /\ LogsTrue /\ LogsTrue' /\ [Next]_vars
      => [Contract!Next]_(Contract!contractVars)
  BY StepMaps
<1> QED
  BY <1>1, <1>2, InitMaps, LedgerHolds, LedgerAssumption, PTL
     DEF Spec, ContractSpec, Contract!Spec
=============================================================================

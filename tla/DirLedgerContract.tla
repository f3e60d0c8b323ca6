------------------------- MODULE DirLedgerContract -------------------------
(***************************************************************************)
(* What opening and closing directory streams promises of the ledger, with *)
(* no mention of when the records are written: a call opens or closes a    *)
(* resource and enters that in the ledger at one and the same moment,      *)
(* between its request and its answer, or it does neither and the caller   *)
(* keeps what it passed.  Only a close that fails may take the resource    *)
(* and leave the ledger behind.                                            *)
(***************************************************************************)
EXTENDS Integers

CONSTANTS
  Threads,
  Fds,       \* descriptors the process may have open
  Pointers,  \* addresses at which a stream may live
  None       \* no descriptor, no stream

VARIABLES
  fds,     \* what is open at each descriptor
  dirs,    \* the descriptor of the stream at each address
  raw,     \* the plain descriptors the application owns
  held,    \* the streams the application owns
  fdLog,   \* openings minus closings entered for each descriptor
  dirLog,  \* and for each stream
  calls    \* calls[t]: the call of thread t, waiting for its effect or done

contractVars == <<fds, dirs, raw, held, fdLog, dirLog, calls>>

NoCall == [op |-> "none", phase |-> "none", ptr |-> None, fd |-> None]

Pending(t, op) == calls[t].op = op /\ calls[t].phase = "pending"

SetCall(t, op, phase, p, fd) ==
  calls' = [calls EXCEPT ![t] = [op |-> op, phase |-> phase, ptr |-> p, fd |-> fd]]

Enter(log, x, n) == [log EXCEPT ![x] = @ + n]

(* The same for an optional descriptor.                                    *)
EnterFd(fd, n) == fdLog' = IF fd \in Fds THEN Enter(fdLog, fd, n) ELSE fdLog

Free(resources) == {x \in DOMAIN resources : resources[x] = "free"}

-----------------------------------------------------------------------------
Init ==
  /\ fds = [fd \in Fds |-> "free"] /\ dirs = [p \in Pointers |-> "free"]
  /\ raw = {} /\ held = {}
  /\ fdLog = [fd \in Fds |-> 0] /\ dirLog = [p \in Pointers |-> 0]
  /\ calls = [t \in Threads |-> NoCall]

AppOpen(t) ==
  /\ calls[t] = NoCall
  /\ \E fd \in Free(fds) : /\ fds' = [fds EXCEPT ![fd] = "dir"]
                           /\ raw' = raw \cup {fd}
                           /\ fdLog' = Enter(fdLog, fd, 1)
  /\ UNCHANGED <<dirs, held, dirLog, calls>>

AppClose(t) ==
  /\ calls[t] = NoCall
  /\ \E fd \in raw : /\ fds' = [fds EXCEPT ![fd] = "free"]
                     /\ raw' = raw \ {fd}
                     /\ fdLog' = Enter(fdLog, fd, -1)
  /\ UNCHANGED <<dirs, held, dirLog, calls>>

Request(t) ==
  /\ calls[t] = NoCall
  /\ \/ /\ \E op \in {"opendir", "mkstemp"} : SetCall(t, op, "pending", None, None)
        /\ UNCHANGED <<raw, held>>
     \/ \E fd \in raw : /\ SetCall(t, "fdopendir", "pending", None, fd)
                        /\ raw' = raw \ {fd}
                        /\ UNCHANGED held
     \/ \E p \in held : /\ SetCall(t, "closedir", "pending", p, None)
                        /\ held' = held \ {p}
                        /\ UNCHANGED raw
  /\ UNCHANGED <<fds, dirs, fdLog, dirLog>>

(* Nothing happens, and the caller has its arguments again.                *)
Refuse(t) ==
  /\ calls[t].phase = "pending"
  /\ held' = held \cup ({calls[t].ptr} \cap Pointers)
  /\ raw' = raw \cup ({calls[t].fd} \cap Fds)
  /\ calls' = [calls EXCEPT ![t] = NoCall]
  /\ UNCHANGED <<fds, dirs, fdLog, dirLog>>

OpenStream(t) ==
  /\ Pending(t, "opendir")
  /\ \E p \in Free(dirs), fd \in Free(fds) \cup {None} :
       /\ dirs' = [dirs EXCEPT ![p] = fd]
       /\ fds' = [x \in Fds |-> IF x = fd THEN "stream" ELSE fds[x]]
       /\ dirLog' = Enter(dirLog, p, 1)
       /\ EnterFd(fd, 1)
       /\ SetCall(t, "opendir", "done", p, fd)
  /\ UNCHANGED <<raw, held>>

(* The descriptor was entered when it was opened.                          *)
AdoptDescriptor(t) ==
  /\ Pending(t, "fdopendir")
  /\ fds[calls[t].fd] = "dir"
  /\ \E p \in Free(dirs) :
       /\ dirs' = [dirs EXCEPT ![p] = calls[t].fd]
       /\ fds' = [fds EXCEPT ![calls[t].fd] = "stream"]
       /\ dirLog' = Enter(dirLog, p, 1)
       /\ SetCall(t, "fdopendir", "done", p, calls[t].fd)
  /\ UNCHANGED <<raw, held, fdLog>>

CreateFile(t) ==
  /\ Pending(t, "mkstemp")
  /\ \E fd \in Free(fds) : /\ fds' = [fds EXCEPT ![fd] = "file"]
                           /\ fdLog' = Enter(fdLog, fd, 1)
                           /\ SetCall(t, "mkstemp", "done", None, fd)
  /\ UNCHANGED <<dirs, raw, held, dirLog>>

Consume(p) ==
  /\ dirs' = [dirs EXCEPT ![p] = "free"]
  /\ fds' = [fd \in Fds |-> IF fd = dirs[p] THEN "free" ELSE fds[fd]]

CloseStream(t) ==
  /\ Pending(t, "closedir")
  /\ Consume(calls[t].ptr)
  /\ dirLog' = Enter(dirLog, calls[t].ptr, -1)
  /\ EnterFd(dirs[calls[t].ptr], -1)
  /\ SetCall(t, "closedir", "done", calls[t].ptr, None)
  /\ UNCHANGED <<raw, held>>

(* The caller cannot know whether the stream is gone, nor does the ledger. *)
CloseFails(t) ==
  /\ Pending(t, "closedir")
  /\ Consume(calls[t].ptr) \/ UNCHANGED <<fds, dirs>>
  /\ calls' = [calls EXCEPT ![t] = NoCall]
  /\ UNCHANGED <<raw, held, fdLog, dirLog>>

(* The caller gets what the call has made.                                 *)
Deliver(t) ==
  /\ calls[t].phase = "done"
  /\ held' = IF calls[t].op \in {"opendir", "fdopendir"}
             THEN held \cup {calls[t].ptr} ELSE held
  /\ raw' = IF calls[t].op = "mkstemp" THEN raw \cup {calls[t].fd} ELSE raw
  /\ calls' = [calls EXCEPT ![t] = NoCall]
  /\ UNCHANGED <<fds, dirs, fdLog, dirLog>>

Next ==
  \E t \in Threads :
    \/ AppOpen(t) \/ AppClose(t) \/ Request(t)
    \/ Refuse(t) \/ OpenStream(t) \/ AdoptDescriptor(t) \/ CreateFile(t)
    \/ CloseStream(t) \/ CloseFails(t) \/ Deliver(t)

Spec == Init /\ [][Next]_contractVars
=============================================================================

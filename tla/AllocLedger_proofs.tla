------------------------- MODULE AllocLedger_proofs -------------------------
(***************************************************************************)
(* Proofs about AllocLedger, for any finite number of threads, any set of  *)
(* blocks and any number of entries in a directory.                        *)
(*                                                                         *)
(* As with descriptors, the balance rests on who is responsible for what:  *)
(* a block that is allocated belongs to the application or to one call in  *)
(* progress, and a call that records the blocks it obtained finds each of  *)
(* them once.                                                              *)
(***************************************************************************)
EXTENDS AllocLedger, CountingLemmas, SequenceTheorems

-----------------------------------------------------------------------------
(* What the locals of a call are at each of its steps.                     *)
WellFormed(c) ==
  /\ c.op = "free"     => c.buffer \in Blocks /\ c.got = << >> /\ c.step # "record"
  /\ c.op = "scandir"  => c.buffer = None
  /\ c.step = "called" => c.got = << >>
  /\ c.step = "record" => /\ c.buffer = None
                          /\ c.index \in 1 .. Len(c.got)
                          /\ IsInjective(c.got)

Shapes == \A t \in Threads : WellFormed(pc[t])

(* The blocks a call is responsible for: what it was passed and has not    *)
(* freed, and what it obtained and has not yet handed over.                *)
HeldBy(c) ==
  IF c.step = "freed" THEN {} ELSE ({c.buffer} \cap Blocks) \cup Range(c.got)

(* A block somebody is responsible for is allocated, and that is the       *)
(* application or one call.                                                *)
BlockOwners ==
  /\ \A t \in Threads : HeldBy(pc[t]) \subseteq heap /\ HeldBy(pc[t]) \cap owned = {}
  /\ \A t, u \in Threads : t # u => HeldBy(pc[t]) \cap HeldBy(pc[u]) = {}

Owners == TypeOK /\ Shapes /\ BlockOwners

LedgerInv == Owners /\ AllocBalance

-----------------------------------------------------------------------------
(* A step of one thread, as seen from pc.                                  *)
Records ==
  [op : Ops \cup {"none"},
   step : {"idle", "called", "record", "freed", "recorded"},
   buffer : Blocks \cup {None}, got : Seq(Blocks), index : Nat]

Moves(t) ==
  pc' \in [Threads -> Records] /\ \A u \in Threads \ {t} : pc'[u] = pc[u]

LEMMA CallMoves ==
  ASSUME TypeOK, NEW t \in Threads, NEW op \in Ops, NEW b \in Blocks \cup {None},
         Call(t, op, b)
  PROVE  /\ Moves(t)
         /\ pc'[t].op = op /\ pc'[t].step = "called" /\ pc'[t].buffer = b
         /\ pc'[t].got = << >>
BY DEF TypeOK, Call, Moves, Records

LEMMA ProceedMoves ==
  ASSUME TypeOK, NEW t \in Threads, NEW step \in {"freed", "recorded"}, Proceed(t, step)
  PROVE  /\ Moves(t)
         /\ pc'[t].op = pc[t].op /\ pc'[t].step = step
         /\ pc'[t].buffer = pc[t].buffer /\ pc'[t].got = pc[t].got
BY DEF TypeOK, Proceed, Moves, Records

LEMMA ReturnMoves ==
  ASSUME TypeOK, NEW t \in Threads, Return(t)
  PROVE  /\ Moves(t)
         /\ pc'[t] = Idle /\ pc'[t].op = "none" /\ pc'[t].step = "idle"
BY DEF TypeOK, Return, Moves, Records, Idle

LEMMA ObtainMoves ==
  ASSUME TypeOK, NEW t \in Threads, NEW got \in Seq(Blocks), Obtain(t, got)
  PROVE  /\ Moves(t)
         /\ pc'[t].op = pc[t].op /\ pc'[t].step = "record"
         /\ pc'[t].buffer = pc[t].buffer /\ pc'[t].got = got /\ pc'[t].index = 1
BY DEF TypeOK, Obtain, Moves, Records

LEMMA AdvanceMoves ==
  ASSUME TypeOK, NEW t \in Threads, NEW n \in Nat, pc' = [pc EXCEPT ![t].index = n]
  PROVE  /\ Moves(t)
         /\ pc'[t].op = pc[t].op /\ pc'[t].step = pc[t].step
         /\ pc'[t].buffer = pc[t].buffer /\ pc'[t].got = pc[t].got /\ pc'[t].index = n
BY DEF TypeOK, Moves, Records

LEMMA IdleIsInert ==
  /\ HeldBy(Idle) = {} /\ WellFormed(Idle)
  /\ Idle.op = "none" /\ Idle.step = "idle"
<1>1. Range(<< >>) = {}
  BY DEF Range
<1> QED
  BY <1>1, AllocAssumption DEF HeldBy, WellFormed, Idle, AllocAssumption

-----------------------------------------------------------------------------
(* What the thread at c owes the ledger for a block, or has written ahead. *)
AllocDue(c, b) ==
  IF c.step = "record" /\ \E i \in c.index .. Len(c.got) : c.got[i] = b THEN 1 ELSE 0
FreeDue(c, b) ==
  IF c.op = "free" /\ c.step = "freed" /\ c.buffer = b THEN 1 ELSE 0
AheadDue(c, b) ==
  IF c.op = "free" /\ c.step = "recorded" /\ c.buffer = b THEN 1 ELSE 0

(* The part of the balance that a step of t can change.                    *)
Account(t, b) ==
  count[b] + AllocDue(pc[t], b) + AheadDue(pc[t], b) - InUse(b) - FreeDue(pc[t], b)

(* The step leaves that part as it is.                                     *)
Neutral(t) == Moves(t) /\ \A b \in Blocks : Account(t, b)' = Account(t, b)

(* Only the debts of the thread that moves change.                         *)
LEMMA Debts ==
  ASSUME AllocAssumption, NEW t \in Threads, Moves(t), NEW b
  PROVE  /\ Cardinality(AllocOwed(b)) \in Nat /\ Cardinality(AllocOwed(b))' \in Nat
         /\ Cardinality(AllocOwed(b))' =
              Cardinality(AllocOwed(b)) + AllocDue(pc[t], b)' - AllocDue(pc[t], b)
         /\ Cardinality(FreeOwed(b)) \in Nat /\ Cardinality(FreeOwed(b))' \in Nat
         /\ Cardinality(FreeOwed(b))' =
              Cardinality(FreeOwed(b)) + FreeDue(pc[t], b)' - FreeDue(pc[t], b)
         /\ Cardinality(FreeAhead(b)) \in Nat /\ Cardinality(FreeAhead(b))' \in Nat
         /\ Cardinality(FreeAhead(b))' =
              Cardinality(FreeAhead(b)) + AheadDue(pc[t], b)' - AheadDue(pc[t], b)
<1>1. /\ AllocOwed(b) \in SUBSET Threads /\ AllocOwed(b)' \in SUBSET Threads
      /\ AllocOwed(b) \ {t} = AllocOwed(b)' \ {t}
      /\ Weight(t, AllocOwed(b)) = AllocDue(pc[t], b)
      /\ Weight(t, AllocOwed(b)') = AllocDue(pc[t], b)'
  BY DEF AllocOwed, AllocDue, Weight, Moves
<1>2. /\ FreeOwed(b) \in SUBSET Threads /\ FreeOwed(b)' \in SUBSET Threads
      /\ FreeOwed(b) \ {t} = FreeOwed(b)' \ {t}
      /\ Weight(t, FreeOwed(b)) = FreeDue(pc[t], b)
      /\ Weight(t, FreeOwed(b)') = FreeDue(pc[t], b)'
  BY DEF FreeOwed, FreeDue, Weight, Moves, At
<1>3. /\ FreeAhead(b) \in SUBSET Threads /\ FreeAhead(b)' \in SUBSET Threads
      /\ FreeAhead(b) \ {t} = FreeAhead(b)' \ {t}
      /\ Weight(t, FreeAhead(b)) = AheadDue(pc[t], b)
      /\ Weight(t, FreeAhead(b)') = AheadDue(pc[t], b)'
  BY DEF FreeAhead, AheadDue, Weight, Moves, At
<1>4. IsFiniteSet(Threads)
  BY AllocAssumption DEF AllocAssumption
<1>5. /\ Cardinality(AllocOwed(b)) \in Nat /\ Cardinality(AllocOwed(b)') \in Nat
      /\ Cardinality(AllocOwed(b)') =
           Cardinality(AllocOwed(b)) + AllocDue(pc[t], b)' - AllocDue(pc[t], b)
  BY <1>1, <1>4, CountStep
<1>6. /\ Cardinality(FreeOwed(b)) \in Nat /\ Cardinality(FreeOwed(b)') \in Nat
      /\ Cardinality(FreeOwed(b)') =
           Cardinality(FreeOwed(b)) + FreeDue(pc[t], b)' - FreeDue(pc[t], b)
  BY <1>2, <1>4, CountStep
<1>7. /\ Cardinality(FreeAhead(b)) \in Nat /\ Cardinality(FreeAhead(b)') \in Nat
      /\ Cardinality(FreeAhead(b)') =
           Cardinality(FreeAhead(b)) + AheadDue(pc[t], b)' - AheadDue(pc[t], b)
  BY <1>3, <1>4, CountStep
<1> QED
  BY <1>5, <1>6, <1>7

(* A neutral step keeps the balance.                                       *)
LEMMA NeutralKeepsBalance ==
  ASSUME AllocAssumption, TypeOK, TypeOK', AllocBalance, NEW t \in Threads, Neutral(t)
  PROVE  AllocBalance'
<1> SUFFICES ASSUME NEW b \in Blocks
             PROVE  (count[b] + Cardinality(AllocOwed(b)) + Cardinality(FreeAhead(b)) =
                       InUse(b) + Cardinality(FreeOwed(b)))'
  BY DEF AllocBalance
<1>1. count[b] \in Int /\ count'[b] \in Int
  BY DEF TypeOK
<1>2. /\ InUse(b) \in Int /\ InUse(b)' \in Int
      /\ AllocDue(pc[t], b) \in Int /\ AllocDue(pc[t], b)' \in Int
      /\ FreeDue(pc[t], b) \in Int /\ FreeDue(pc[t], b)' \in Int
      /\ AheadDue(pc[t], b) \in Int /\ AheadDue(pc[t], b)' \in Int
  BY DEF InUse, AllocDue, FreeDue, AheadDue
<1>3. Account(t, b)' = Account(t, b) /\ Moves(t)
  BY DEF Neutral
<1>4. count[b] + Cardinality(AllocOwed(b)) + Cardinality(FreeAhead(b)) =
        InUse(b) + Cardinality(FreeOwed(b))
  BY DEF AllocBalance
<1>5. /\ Cardinality(AllocOwed(b)) \in Nat /\ Cardinality(AllocOwed(b))' \in Nat
      /\ Cardinality(AllocOwed(b))' =
           Cardinality(AllocOwed(b)) + AllocDue(pc[t], b)' - AllocDue(pc[t], b)
      /\ Cardinality(FreeOwed(b)) \in Nat /\ Cardinality(FreeOwed(b))' \in Nat
      /\ Cardinality(FreeOwed(b))' =
           Cardinality(FreeOwed(b)) + FreeDue(pc[t], b)' - FreeDue(pc[t], b)
      /\ Cardinality(FreeAhead(b)) \in Nat /\ Cardinality(FreeAhead(b))' \in Nat
      /\ Cardinality(FreeAhead(b))' =
           Cardinality(FreeAhead(b)) + AheadDue(pc[t], b)' - AheadDue(pc[t], b)
  BY <1>3, Debts
<1> QED
  BY <1>1, <1>2, <1>3, <1>4, <1>5 DEF Account

-----------------------------------------------------------------------------
(* What t and the application have between them after a step they had      *)
(* before it, or it was free; and only what they had is freed.             *)
LEMMA HandoverKeepsOwners ==
  ASSUME Owners, NEW t \in Threads, Moves(t), WellFormed(pc'[t]),
         heap' \subseteq Blocks, count' \in [Blocks -> Int],
         heap \ heap' \subseteq HeldBy(pc[t]),
         owned' \cup HeldBy(pc'[t]) \subseteq heap',
         owned' \cap HeldBy(pc'[t]) = {},
         (owned' \cup HeldBy(pc'[t])) \cap heap \subseteq owned \cup HeldBy(pc[t])
  PROVE  Owners'
<1>1. TypeOK'
  BY DEF TypeOK, Moves, Records
<1>2. Shapes'
  BY DEF Owners, Shapes, Moves
<1>3. ASSUME NEW u \in Threads \ {t}
      PROVE  /\ HeldBy(pc'[u]) = HeldBy(pc[u]) /\ HeldBy(pc[u]) \subseteq heap
             /\ HeldBy(pc[u]) \cap owned = {}
             /\ HeldBy(pc[u]) \cap HeldBy(pc[t]) = {}
  BY DEF Moves, Owners, BlockOwners
<1>4. \A u \in Threads : HeldBy(pc'[u]) \subseteq heap' /\ HeldBy(pc'[u]) \cap owned' = {}
  BY <1>3
<1>5. ASSUME NEW u \in Threads, NEW v \in Threads, u # v
      PROVE  HeldBy(pc'[u]) \cap HeldBy(pc'[v]) = {}
  <2>1. CASE u # t /\ v # t
    <3>1. HeldBy(pc'[u]) = HeldBy(pc[u]) /\ HeldBy(pc'[v]) = HeldBy(pc[v])
      BY <1>3, <2>1
    <3> QED
      BY <1>5, <3>1 DEF Owners, BlockOwners
  <2>2. CASE u = t \/ v = t
    BY <1>3, <1>5, <2>2
  <2> QED
    BY <2>1, <2>2
<1>6. BlockOwners'
  BY <1>4, <1>5 DEF BlockOwners
<1> QED
  BY <1>1, <1>2, <1>6 DEF Owners

(* A step that leaves the records alone is neutral if t owes nothing       *)
(* before and after it and what is allocated stays.                        *)
LEMMA QuietIsNeutral ==
  ASSUME NEW t \in Threads, Moves(t), UNCHANGED <<heap, count>>,
         pc[t].step \in {"idle", "called"}, pc'[t].step \in {"idle", "called"}
  PROVE  Neutral(t)
BY DEF Neutral, Account, AllocDue, AheadDue, FreeDue, InUse

-----------------------------------------------------------------------------
(* One lemma per action: it keeps the owners, and it is neutral.           *)
LEMMA AppAllocStep ==
  ASSUME Owners, NEW t \in Threads, AppAlloc(t)
  PROVE  Owners' /\ Neutral(t)
<1>1. PICK b \in Blocks \ heap : /\ heap' = heap \cup {b} /\ owned' = owned \cup {b}
                                /\ count' = [count EXCEPT ![b] = @ + 1]
  BY DEF AppAlloc
<1>2. pc' = pc /\ pc[t] = Idle /\ Moves(t)
  BY DEF AppAlloc, Moves, Owners, TypeOK, Records
<1>3. Owners'
  <2>1. count' \in [Blocks -> Int] /\ heap' \subseteq Blocks /\ owned \subseteq heap
    BY <1>1 DEF Owners, TypeOK
  <2>2. HeldBy(pc'[t]) = {} /\ WellFormed(pc'[t])
    BY <1>2, IdleIsInert
  <2> QED
    BY <1>1, <1>2, <2>1, <2>2, HandoverKeepsOwners
<1>4. \A x \in Blocks : count'[x] - InUse(x)' = count[x] - InUse(x)
  BY <1>1 DEF InUse, Owners, TypeOK
<1>5. \A x \in Blocks :
        /\ AllocDue(pc[t], x) = 0 /\ AheadDue(pc[t], x) = 0 /\ FreeDue(pc[t], x) = 0
        /\ count[x] \in Int /\ count'[x] \in Int /\ InUse(x) \in Int /\ InUse(x)' \in Int
  BY <1>2, <1>3, IdleIsInert DEF AllocDue, AheadDue, FreeDue, Owners, TypeOK, InUse
<1>6. Neutral(t)
  BY <1>2, <1>4, <1>5 DEF Neutral, Account
<1> QED
  BY <1>3, <1>6

(* A call that starts takes over what it is passed.                        *)
LEMMA CallStep ==
  ASSUME Owners, NEW t \in Threads,
         CallScandir(t) \/ CallRealpath(t) \/ CallRealpathInto(t) \/ CallFree(t)
  PROVE  Owners' /\ Neutral(t)
<1>1. \E op \in Ops, b \in owned \cup {None} :
        /\ Call(t, op, b) /\ owned' = owned \ {b}
        /\ op = "free" => b \in Blocks
        /\ op = "scandir" => b = None
  <2>1. None \notin owned
    BY AllocAssumption DEF AllocAssumption, Owners, TypeOK
  <2>2. CASE CallScandir(t) \/ CallRealpath(t)
    BY <2>1, <2>2 DEF CallScandir, CallRealpath, Ops
  <2>3. CASE CallRealpathInto(t) \/ CallFree(t)
    BY <2>3 DEF CallRealpathInto, CallFree, Ops, Owners, TypeOK
  <2> QED
    BY <2>2, <2>3
<1>2. PICK op \in Ops, b \in owned \cup {None} :
        /\ Call(t, op, b) /\ owned' = owned \ {b}
        /\ op = "free" => b \in Blocks
        /\ op = "scandir" => b = None
  BY <1>1
<1>3. /\ pc[t] = Idle /\ UNCHANGED <<heap, count>>
      /\ owned \subseteq heap /\ heap \subseteq Blocks /\ count \in [Blocks -> Int]
  BY DEF CallScandir, CallRealpath, CallRealpathInto, CallFree, Owners, TypeOK
<1>4. /\ Moves(t) /\ pc'[t].op = op /\ pc'[t].step = "called" /\ pc'[t].buffer = b
      /\ pc'[t].got = << >>
  BY <1>2, <1>3, CallMoves DEF Owners
<1>5. WellFormed(pc'[t])
  BY <1>2, <1>4 DEF WellFormed
<1>6. HeldBy(pc'[t]) = {b} \cap owned
  <2>1. HeldBy(pc'[t]) = {b} \cap Blocks
    BY <1>4 DEF HeldBy, Range
  <2> QED
    BY <1>3, <2>1, AllocAssumption DEF AllocAssumption
<1>7. Owners'
  BY <1>2, <1>3, <1>4, <1>5, <1>6, HandoverKeepsOwners
<1>8. Neutral(t)
  BY <1>3, <1>4, IdleIsInert, QuietIsNeutral
<1> QED
  BY <1>7, <1>8

(* What a call in the step "called" or of p101_free is responsible for.    *)
LEMMA HeldFacts ==
  ASSUME Owners, NEW t \in Threads
  PROVE  /\ HeldBy(pc[t]) \subseteq heap /\ HeldBy(pc[t]) \cap owned = {}
         /\ owned \subseteq heap /\ heap \subseteq Blocks /\ count \in [Blocks -> Int]
         /\ WellFormed(pc[t])
         /\ pc[t].step = "called" => HeldBy(pc[t]) = Passed(t)
         /\ pc[t].op = "free" /\ pc[t].step # "freed" =>
              HeldBy(pc[t]) = {pc[t].buffer} /\ pc[t].buffer \in heap
<1>1. /\ HeldBy(pc[t]) \subseteq heap /\ HeldBy(pc[t]) \cap owned = {}
      /\ owned \subseteq heap /\ heap \subseteq Blocks /\ count \in [Blocks -> Int]
      /\ WellFormed(pc[t])
  BY DEF Owners, TypeOK, Shapes, BlockOwners
<1>2. pc[t].got = << >> => Range(pc[t].got) = {}
  BY DEF Range
<1>3. pc[t].step = "called" => HeldBy(pc[t]) = Passed(t)
  BY <1>1, <1>2 DEF WellFormed, HeldBy, Passed
<1>4. pc[t].op = "free" /\ pc[t].step # "freed" => HeldBy(pc[t]) = {pc[t].buffer}
  BY <1>1, <1>2 DEF WellFormed, HeldBy
<1> QED
  BY <1>1, <1>3, <1>4

(* A call that ends with no new block returns what it was passed.          *)
LEMMA EndStep ==
  ASSUME Owners, NEW t \in Threads, Fails(t) \/ ScandirEmpty(t) \/ RealpathInto(t)
  PROVE  Owners' /\ Neutral(t)
<1>1. /\ pc[t].step = "called" /\ Return(t) /\ UNCHANGED <<heap, count>>
      /\ owned' = owned \cup Passed(t)
  <2>1. pc[t].op = "scandir" => Passed(t) = {}
    BY AllocAssumption DEF Owners, Shapes, WellFormed, Passed, AllocAssumption
  <2> QED
    BY <2>1 DEF Fails, ScandirEmpty, RealpathInto, At
<1>2. Moves(t) /\ pc'[t] = Idle /\ pc'[t].step = "idle"
  BY <1>1, ReturnMoves DEF Owners
<1>3. HeldBy(pc'[t]) = {} /\ WellFormed(pc'[t])
  BY <1>2, IdleIsInert
<1>4. Owners'
  BY <1>1, <1>2, <1>3, HeldFacts, HandoverKeepsOwners
<1>5. Neutral(t)
  BY <1>1, <1>2, QuietIsNeutral
<1> QED
  BY <1>4, <1>5

(* New blocks are the call's, which owes the ledger a record of each.      *)
LEMMA ObtainStep ==
  ASSUME Owners, NEW t \in Threads, NEW got \in Seq(Blocks),
         Range(got) \subseteq Blocks \ heap, IsInjective(got), Len(got) >= 1,
         heap' = heap \cup Range(got), Obtain(t, got), UNCHANGED <<owned, count>>,
         pc[t].op # "free", pc[t].buffer = None, pc[t].step = "called"
  PROVE  Owners' /\ Neutral(t)
<1>1. /\ Moves(t) /\ pc'[t].op = pc[t].op /\ pc'[t].step = "record"
      /\ pc'[t].buffer = None /\ pc'[t].got = got /\ pc'[t].index = 1
  BY ObtainMoves DEF Owners
<1>2. WellFormed(pc'[t])
  BY <1>1 DEF WellFormed
<1>3. HeldBy(pc'[t]) = Range(got)
  BY <1>1, AllocAssumption DEF HeldBy, AllocAssumption
<1>4. Owners'
  BY <1>1, <1>2, <1>3, HeldFacts, HandoverKeepsOwners
<1>5. ASSUME NEW b \in Blocks
      PROVE  Account(t, b)' = Account(t, b)
  <2>1. b \in Range(got) <=> \E i \in 1 .. Len(got) : got[i] = b
    BY DEF Range
  <2>2. /\ AllocDue(pc[t], b) = 0 /\ AheadDue(pc[t], b) = 0 /\ FreeDue(pc[t], b) = 0
        /\ AheadDue(pc'[t], b) = 0 /\ FreeDue(pc'[t], b) = 0
        /\ AllocDue(pc'[t], b) = IF b \in Range(got) THEN 1 ELSE 0
    BY <1>1, <2>1 DEF AllocDue, AheadDue, FreeDue
  <2>3. InUse(b)' = InUse(b) + (IF b \in Range(got) THEN 1 ELSE 0)
    BY DEF InUse
  <2>4. count[b] \in Int /\ InUse(b) \in Int
    BY DEF InUse, Owners, TypeOK
  <2> QED
    BY <2>2, <2>3, <2>4 DEF Account
<1> QED
  BY <1>1, <1>4, <1>5 DEF Neutral

LEMMA ScandirNativeStep ==
  ASSUME Owners, NEW t \in Threads, ScandirNative(t)
  PROVE  Owners' /\ Neutral(t)
<1>1. PICK n \in 0 .. MaxEntries : \E got \in Injection(1 .. n + 1, Blocks \ heap) :
        heap' = heap \cup Range(got) /\ Obtain(t, got)
  BY DEF ScandirNative
<1>2. PICK got \in Injection(1 .. n + 1, Blocks \ heap) :
        heap' = heap \cup Range(got) /\ Obtain(t, got)
  BY <1>1
<1>3. n + 1 \in Nat /\ n + 1 >= 1
  BY <1>1, AllocAssumption DEF AllocAssumption
<1>4. got \in [1 .. n + 1 -> Blocks \ heap] /\ IsInjective(got)
  BY <1>2 DEF Injection
<1>5. got \in Seq(Blocks) /\ Len(got) = n + 1
  BY <1>3, <1>4
<1>6. Range(got) \subseteq Blocks \ heap
  BY <1>4 DEF Range
<1>7. /\ pc[t].op # "free" /\ pc[t].buffer = None /\ pc[t].step = "called"
      /\ UNCHANGED <<owned, count>>
  BY DEF ScandirNative, At, Owners, Shapes, WellFormed
<1> QED
  BY <1>2, <1>3, <1>4, <1>5, <1>6, <1>7, ObtainStep

LEMMA RealpathNewStep ==
  ASSUME Owners, NEW t \in Threads, RealpathNew(t)
  PROVE  Owners' /\ Neutral(t)
<1>1. PICK b \in Blocks \ heap : heap' = heap \cup {b} /\ Obtain(t, <<b>>)
  BY DEF RealpathNew
<1>2. PICK got : got = <<b>>
  OBVIOUS
<1>3. /\ got \in Seq(Blocks) /\ Len(got) >= 1 /\ Range(got) = {b}
      /\ IsInjective(got)
  BY <1>2 DEF Range, IsInjective
<1>4. /\ pc[t].op # "free" /\ pc[t].buffer = None /\ pc[t].step = "called"
      /\ UNCHANGED <<owned, count>>
  BY DEF RealpathNew, At
<1>5. heap' = heap \cup Range(got) /\ Obtain(t, got)
  BY <1>1, <1>2, <1>3
<1> QED
  BY <1>3, <1>4, <1>5, ObtainStep

(* Each record settles the debt for one block, which is in the array once. *)
LEMMA RecordAllocStep ==
  ASSUME Owners, NEW t \in Threads, RecordAlloc(t)
  PROVE  Owners' /\ Neutral(t)
<1> DEFINE got == pc[t].got
           i   == pc[t].index
<1>1. /\ pc[t].step = "record" /\ pc[t].op # "free" /\ pc[t].buffer = None
      /\ got \in Seq(Blocks) /\ i \in 1 .. Len(got) /\ IsInjective(got)
  BY DEF RecordAlloc, Owners, Shapes, WellFormed, TypeOK
<1>2. got[i] \in Blocks /\ DOMAIN got = 1 .. Len(got) /\ Len(got) \in Nat
  BY <1>1
<1>3. /\ count' = [count EXCEPT ![got[i]] = @ + 1] /\ heap' = heap
      /\ count' \in [Blocks -> Int]
  BY <1>2 DEF RecordAlloc, Owners, TypeOK
<1>4. HeldBy(pc[t]) = Range(got)
  BY <1>1, AllocAssumption DEF HeldBy, AllocAssumption
<1>5. ASSUME NEW b \in Blocks, NEW due \in {0, 1},
             due = 1 <=> \E j \in i + 1 .. Len(got) : got[j] = b
      PROVE  /\ count'[b] + due = count[b] + AllocDue(pc[t], b)
             /\ AheadDue(pc[t], b) = 0 /\ FreeDue(pc[t], b) = 0
  <2>1. AheadDue(pc[t], b) = 0 /\ FreeDue(pc[t], b) = 0
    BY <1>1 DEF AheadDue, FreeDue
  <2>2. count[b] \in Int
    BY DEF Owners, TypeOK
  <2>3. CASE b = got[i]
    <3>1. ~ \E j \in i + 1 .. Len(got) : got[j] = b
      BY <1>1, <1>2, <2>3 DEF IsInjective
    <3>2. AllocDue(pc[t], b) = 1
      BY <1>1, <2>3 DEF AllocDue
    <3>3. count'[b] = count[b] + 1
      BY <1>2, <1>3, <2>3 DEF Owners, TypeOK
    <3> QED
      BY <1>5, <2>1, <2>2, <3>1, <3>2, <3>3
  <2>4. CASE b # got[i]
    <3>1. (\E j \in i .. Len(got) : got[j] = b) <=> \E j \in i + 1 .. Len(got) : got[j] = b
      BY <1>1, <1>2, <2>4
    <3>2. AllocDue(pc[t], b) = due
      BY <1>1, <1>5, <3>1 DEF AllocDue
    <3>3. count'[b] = count[b]
      BY <1>2, <1>3, <2>4 DEF Owners, TypeOK
    <3> QED
      BY <2>1, <3>2, <3>3
  <2> QED
    BY <2>3, <2>4
<1>6. CASE LastRecorded(t)
  <2>1. Moves(t) /\ pc'[t] = Idle /\ owned' = owned \cup Range(got)
    BY <1>6, ReturnMoves DEF RecordAlloc, Owners
  <2>2. HeldBy(pc'[t]) = {} /\ WellFormed(pc'[t])
    BY <2>1, IdleIsInert
  <2>3. Owners'
    BY <1>3, <1>4, <2>1, <2>2, HeldFacts, HandoverKeepsOwners
  <2>4. ASSUME NEW b \in Blocks
        PROVE  Account(t, b)' = Account(t, b)
    <3>1. ~ \E j \in i + 1 .. Len(got) : got[j] = b
      BY <1>1, <1>2, <1>6 DEF LastRecorded
    <3>2. /\ AllocDue(pc'[t], b) = 0 /\ AheadDue(pc'[t], b) = 0 /\ FreeDue(pc'[t], b) = 0
      BY <2>1, IdleIsInert DEF AllocDue, AheadDue, FreeDue
    <3>3. InUse(b)' = InUse(b) /\ InUse(b) \in Int /\ count'[b] \in Int /\ count[b] \in Int
      BY <1>3 DEF InUse, Owners, TypeOK
    <3>4. AllocDue(pc[t], b) \in Int
      BY DEF AllocDue
    <3>5. /\ count'[b] + 0 = count[b] + AllocDue(pc[t], b)
          /\ AheadDue(pc[t], b) = 0 /\ FreeDue(pc[t], b) = 0
      BY <1>5, <3>1
    <3> QED
      BY <3>2, <3>3, <3>4, <3>5 DEF Account
  <2> QED
    BY <2>1, <2>3, <2>4 DEF Neutral
<1>7. CASE ~ LastRecorded(t)
  <2>1. /\ owned' = owned /\ pc' = [pc EXCEPT ![t].index = i + 1] /\ i + 1 \in Nat
    BY <1>1, <1>2, <1>7 DEF RecordAlloc
  <2>2. /\ Moves(t) /\ pc'[t].op = pc[t].op /\ pc'[t].step = "record"
        /\ pc'[t].buffer = None /\ pc'[t].got = got /\ pc'[t].index = i + 1
    BY <1>1, <2>1, AdvanceMoves DEF Owners
  <2>3. i + 1 \in 1 .. Len(got)
    BY <1>1, <1>2, <1>7 DEF LastRecorded
  <2>4. WellFormed(pc'[t])
    BY <1>1, <2>2, <2>3 DEF WellFormed
  <2>5. HeldBy(pc'[t]) = Range(got)
    BY <2>2, AllocAssumption DEF HeldBy, AllocAssumption
  <2>6. Owners'
    BY <1>3, <1>4, <2>1, <2>2, <2>4, <2>5, HeldFacts, HandoverKeepsOwners
  <2>7. ASSUME NEW b \in Blocks
        PROVE  Account(t, b)' = Account(t, b)
    <3>1. /\ AllocDue(pc'[t], b) \in {0, 1}
          /\ AllocDue(pc'[t], b) = 1 <=> \E j \in i + 1 .. Len(got) : got[j] = b
          /\ AheadDue(pc'[t], b) = 0 /\ FreeDue(pc'[t], b) = 0
      BY <2>2 DEF AllocDue, AheadDue, FreeDue
    <3>2. InUse(b)' = InUse(b) /\ InUse(b) \in Int /\ count'[b] \in Int /\ count[b] \in Int
      BY <1>3 DEF InUse, Owners, TypeOK
    <3>3. AllocDue(pc[t], b) \in Int
      BY DEF AllocDue
    <3>4. /\ count'[b] + AllocDue(pc'[t], b) = count[b] + AllocDue(pc[t], b)
          /\ AheadDue(pc[t], b) = 0 /\ FreeDue(pc[t], b) = 0
      BY <1>5, <3>1
    <3> QED
      BY <3>1, <3>2, <3>3, <3>4 DEF Account
  <2> QED
    BY <2>2, <2>6, <2>7 DEF Neutral
<1> QED
  BY <1>6, <1>7

(* p101_free frees the block and records it, in either order; in between   *)
(* the ledger is owed the record, or has it ahead of the fact.             *)
LEMMA FreeBlockStep ==
  ASSUME Owners, NEW t \in Threads, FreeBlock(t)
  PROVE  Owners' /\ Neutral(t)
<1> DEFINE x == pc[t].buffer
<1>1. /\ pc[t].op = "free" /\ pc[t].step \in {"called", "recorded"}
      /\ x \in heap /\ x \in Blocks /\ HeldBy(pc[t]) = {x} /\ x \notin owned
      /\ heap' = heap \ {x} /\ UNCHANGED <<owned, count>>
      /\ pc[t].got = << >>
  <2>1. pc[t].op = "free" /\ pc[t].step \in {"called", "recorded"}
    BY DEF FreeBlock
  <2>2. /\ x \in heap /\ x \in Blocks /\ HeldBy(pc[t]) = {x} /\ x \notin owned
        /\ pc[t].got = << >>
    BY <2>1, HeldFacts DEF WellFormed
  <2> QED
    BY <2>1, <2>2 DEF FreeBlock, Passed
<1>2. /\ Moves(t) /\ HeldBy(pc'[t]) = {} /\ WellFormed(pc'[t])
      /\ \A b \in Blocks :
           /\ AllocDue(pc[t], b) = 0 /\ FreeDue(pc[t], b) = 0
           /\ AllocDue(pc'[t], b) = 0
           /\ FreeDue(pc'[t], b) - AheadDue(pc'[t], b) =
                (IF b = x THEN 1 ELSE 0) - AheadDue(pc[t], b)
  <2>1. CASE pc[t].step = "called"
    <3>1. /\ Moves(t) /\ pc'[t].op = "free" /\ pc'[t].step = "freed"
          /\ pc'[t].buffer = x /\ pc'[t].got = << >>
      BY <1>1, <2>1, ProceedMoves DEF FreeBlock, Owners
    <3> QED
      BY <1>1, <2>1, <3>1 DEF HeldBy, WellFormed, AllocDue, FreeDue, AheadDue
  <2>2. CASE pc[t].step = "recorded"
    <3>1. Moves(t) /\ pc'[t] = Idle /\ pc'[t].op = "none" /\ pc'[t].step = "idle"
      BY <1>1, <2>2, ReturnMoves DEF FreeBlock, Owners
    <3>2. HeldBy(pc'[t]) = {} /\ WellFormed(pc'[t])
      BY <3>1, IdleIsInert
    <3> QED
      BY <1>1, <2>2, <3>1, <3>2 DEF AllocDue, FreeDue, AheadDue
  <2> QED
    BY <1>1, <2>1, <2>2
<1>3. Owners'
  BY <1>1, <1>2, HeldFacts, HandoverKeepsOwners
<1>4. ASSUME NEW b \in Blocks
      PROVE  Account(t, b)' = Account(t, b)
  <2>1. /\ InUse(b)' = InUse(b) - (IF b = x THEN 1 ELSE 0)
        /\ InUse(b) \in Int /\ count'[b] = count[b] /\ count[b] \in Int
    BY <1>1 DEF InUse, Owners, TypeOK
  <2>2. /\ AheadDue(pc[t], b) \in Int /\ AheadDue(pc'[t], b) \in Int
        /\ FreeDue(pc'[t], b) \in Int
    BY DEF AheadDue, FreeDue
  <2> QED
    BY <1>2, <2>1, <2>2 DEF Account
<1> QED
  BY <1>2, <1>3, <1>4 DEF Neutral

LEMMA RecordFreeStep ==
  ASSUME Owners, NEW t \in Threads, RecordFree(t)
  PROVE  Owners' /\ Neutral(t)
<1> DEFINE x == pc[t].buffer
<1>1. /\ pc[t].op = "free" /\ pc[t].step \in {"called", "freed"}
      /\ x \in Blocks /\ pc[t].got = << >> /\ Range(pc[t].got) = {}
      /\ count' = [count EXCEPT ![x] = @ - 1] /\ UNCHANGED <<owned, heap>>
      /\ count' \in [Blocks -> Int]
  <2>1. pc[t].op = "free" /\ pc[t].step \in {"called", "freed"}
    BY DEF RecordFree
  <2>2. x \in Blocks /\ pc[t].got = << >> /\ count \in [Blocks -> Int]
    BY <2>1, HeldFacts DEF WellFormed
  <2> QED
    BY <2>1, <2>2 DEF RecordFree, Range
<1>2. /\ Moves(t) /\ HeldBy(pc'[t]) = HeldBy(pc[t]) /\ WellFormed(pc'[t])
      /\ \A b \in Blocks :
           /\ AllocDue(pc[t], b) = 0 /\ AheadDue(pc[t], b) = 0
           /\ AllocDue(pc'[t], b) = 0
           /\ AheadDue(pc'[t], b) - FreeDue(pc'[t], b) =
                (IF b = x THEN 1 ELSE 0) - FreeDue(pc[t], b)
  <2>1. CASE pc[t].step = "called"
    <3>1. /\ Moves(t) /\ pc'[t].op = "free" /\ pc'[t].step = "recorded"
          /\ pc'[t].buffer = x /\ pc'[t].got = pc[t].got
      BY <1>1, <2>1, ProceedMoves DEF RecordFree, Owners
    <3>2. HeldBy(pc'[t]) = HeldBy(pc[t])
      BY <2>1, <3>1 DEF HeldBy
    <3> QED
      BY <1>1, <2>1, <3>1, <3>2 DEF WellFormed, AllocDue, FreeDue, AheadDue
  <2>2. CASE pc[t].step = "freed"
    <3>1. Moves(t) /\ pc'[t] = Idle /\ pc'[t].op = "none" /\ pc'[t].step = "idle"
      BY <1>1, <2>2, ReturnMoves DEF RecordFree, Owners
    <3>2. HeldBy(pc'[t]) = HeldBy(pc[t]) /\ WellFormed(pc'[t])
      BY <2>2, <3>1, IdleIsInert DEF HeldBy
    <3> QED
      BY <1>1, <2>2, <3>1, <3>2 DEF AllocDue, FreeDue, AheadDue
  <2> QED
    BY <1>1, <2>1, <2>2
<1>3. Owners'
  BY <1>1, <1>2, HeldFacts, HandoverKeepsOwners
<1>4. ASSUME NEW b \in Blocks
      PROVE  Account(t, b)' = Account(t, b)
  <2>1. /\ count'[b] = count[b] - (IF b = x THEN 1 ELSE 0)
        /\ count[b] \in Int /\ InUse(b)' = InUse(b) /\ InUse(b) \in Int
    BY <1>1 DEF InUse, Owners, TypeOK
  <2>2. /\ FreeDue(pc[t], b) \in Int /\ FreeDue(pc'[t], b) \in Int
        /\ AheadDue(pc'[t], b) \in Int
    BY DEF AheadDue, FreeDue
  <2>3. /\ AllocDue(pc[t], b) = 0 /\ AheadDue(pc[t], b) = 0 /\ AllocDue(pc'[t], b) = 0
        /\ AheadDue(pc'[t], b) - FreeDue(pc'[t], b) =
             (IF b = x THEN 1 ELSE 0) - FreeDue(pc[t], b)
    BY <1>2
  <2> QED
    BY <2>1, <2>2, <2>3 DEF Account
<1> QED
  BY <1>2, <1>3, <1>4 DEF Neutral

-----------------------------------------------------------------------------
LEMMA InitLedgerInv == Init => LedgerInv
<1> SUFFICES ASSUME Init
             PROVE  LedgerInv
  OBVIOUS
<1>1. \A t \in Threads : /\ HeldBy(pc[t]) = {} /\ WellFormed(pc[t])
                         /\ pc[t].op = "none" /\ pc[t].step = "idle"
  BY IdleIsInert DEF Init
<1>2. Owners
  BY <1>1 DEF Init, Owners, TypeOK, Idle, Shapes, BlockOwners
<1>3. \A b \in Blocks : AllocOwed(b) = {} /\ FreeOwed(b) = {} /\ FreeAhead(b) = {}
  BY <1>1 DEF AllocOwed, FreeOwed, FreeAhead, At
<1>4. \A b \in Blocks : /\ Cardinality(AllocOwed(b)) = 0
                        /\ Cardinality(FreeOwed(b)) = 0
                        /\ Cardinality(FreeAhead(b)) = 0
  BY <1>3, FS_EmptySet, Zenon
<1>5. AllocBalance
  BY <1>4 DEF Init, AllocBalance, InUse
<1> QED
  BY <1>2, <1>5 DEF LedgerInv

LEMMA NextKeepsLedger == LedgerInv /\ [Next]_vars => LedgerInv'
<1> SUFFICES ASSUME LedgerInv, [Next]_vars
             PROVE  LedgerInv'
  OBVIOUS
<1>1. CASE UNCHANGED vars
  BY <1>1 DEF vars, LedgerInv, Owners, TypeOK, Shapes, BlockOwners, AllocBalance, AllocOwed,
              FreeOwed, FreeAhead, At, InUse
<1>2. ASSUME NEW t \in Threads, Application(t) \/ Wrapper(t)
      PROVE  LedgerInv'
  <2>1. Owners' /\ Neutral(t)
    BY <1>2, AppAllocStep, CallStep, EndStep, ScandirNativeStep, RealpathNewStep,
       RecordAllocStep, FreeBlockStep, RecordFreeStep
       DEF LedgerInv, Application, Wrapper
  <2>2. AllocBalance'
    BY <2>1, NeutralKeepsBalance, AllocAssumption DEF LedgerInv, Owners
  <2> QED
    BY <2>1, <2>2 DEF LedgerInv
<1> QED
  BY <1>1, <1>2 DEF Next

(* The inductive invariant: who is responsible for which block, and the    *)
(* balance of the ledger.                                                  *)
THEOREM LedgerHolds == Spec => []LedgerInv
<1> QED
  BY InitLedgerInv, NextKeepsLedger, PTL DEF Spec

(* What the application owns is allocated, and no call's locals are off.   *)
THEOREM TypeCorrect == Spec => []TypeOK
<1>1. LedgerInv => TypeOK
  BY DEF LedgerInv, Owners
<1> QED
  BY <1>1, LedgerHolds, PTL

(* Every block that p101_scandir and p101_realpath hand over is recorded   *)
(* once, and no other, however many entries there are and whoever else is  *)
(* given the block in between (dirent.c:202-207, stdlib.c:112).            *)
THEOREM AllocationsAlwaysBalance == Spec => []AllocBalance
<1>1. LedgerInv => AllocBalance
  BY DEF LedgerInv
<1> QED
  BY <1>1, LedgerHolds, PTL

(* What a wrapper hands over is recorded before anyone can free it: in no  *)
(* prefix of the ledger a FREE precedes its ALLOC (dirent.c:202-211).      *)
THEOREM OwnedIsAlwaysRecorded == Spec => []OwnedIsRecorded
<1>1. LedgerInv => OwnedIsRecorded
  <2> SUFFICES ASSUME LedgerInv
               PROVE  OwnedIsRecorded
    OBVIOUS
  <2> USE DEF LedgerInv
  <2>1. \A t, u \in Threads : \A b \in HeldBy(pc[t]) \cap HeldBy(pc[u]) : t = u
    BY DEF Owners, BlockOwners
  <2>2. ASSUME NEW b \in Blocks, NEW t \in AllocOwed(b) \cup FreeAhead(b)
        PROVE  /\ t \in Threads /\ b \in HeldBy(pc[t]) /\ b \in heap /\ b \notin owned
               /\ t \in AllocOwed(b) <=> t \notin FreeAhead(b)
    <3>1. CASE t \in AllocOwed(b)
      <4>1. /\ t \in Threads /\ pc[t].step = "record"
            /\ \E i \in pc[t].index .. Len(pc[t].got) : pc[t].got[i] = b
        BY <3>1 DEF AllocOwed
      <4>2. PICK i \in pc[t].index .. Len(pc[t].got) : pc[t].got[i] = b
        BY <4>1
      <4>3. pc[t].got \in Seq(Blocks) /\ pc[t].index \in 1 .. Len(pc[t].got)
        BY <4>1 DEF Owners, TypeOK, Shapes, WellFormed
      <4>4. i \in DOMAIN pc[t].got
        BY <4>2, <4>3
      <4>5. b \in HeldBy(pc[t])
        BY <4>1, <4>2, <4>4 DEF HeldBy, Range
      <4> QED
        BY <4>1, <4>5 DEF Owners, BlockOwners, FreeAhead, AllocOwed, At
    <3>2. CASE t \in FreeAhead(b)
      <4>1. t \in Threads /\ pc[t].step = "recorded" /\ pc[t].buffer = b
        BY <3>2 DEF FreeAhead, At
      <4>2. b \in HeldBy(pc[t])
        BY <4>1 DEF HeldBy
      <4> QED
        BY <3>2, <4>1, <4>2 DEF Owners, BlockOwners, AllocOwed
    <3> QED
      BY <3>1, <3>2
  <2>3. ASSUME NEW b \in Blocks
        PROVE  count[b] >= 0 /\ (b \in owned => count[b] >= 1)
    <3>1. IsFiniteSet(Threads)
      BY AllocAssumption DEF AllocAssumption
    <3>2. /\ AllocOwed(b) \in SUBSET Threads /\ FreeAhead(b) \in SUBSET Threads
          /\ FreeOwed(b) \in SUBSET Threads
      BY DEF AllocOwed, FreeAhead, FreeOwed
    <3>3. Cardinality(FreeOwed(b)) \in Nat
      BY <3>1, <3>2, CountSubset
    <3>4. /\ \A t, u \in AllocOwed(b) : t = u
          /\ \A t, u \in FreeAhead(b) : t = u
          /\ AllocOwed(b) = {} \/ FreeAhead(b) = {}
      BY <2>1, <2>2
    <3>5. /\ Cardinality(AllocOwed(b)) \in {0, 1}
          /\ Cardinality(AllocOwed(b)) = 1 <=> AllocOwed(b) # {}
      BY <3>1, <3>2, <3>4, CountAtMostOne
    <3>6. /\ Cardinality(FreeAhead(b)) \in {0, 1}
          /\ Cardinality(FreeAhead(b)) = 1 <=> FreeAhead(b) # {}
      BY <3>1, <3>2, <3>4, CountAtMostOne
    <3>7. /\ AllocOwed(b) # {} \/ FreeAhead(b) # {} => InUse(b) = 1 /\ b \notin owned
          /\ b \in owned => InUse(b) = 1
          /\ InUse(b) \in {0, 1}
      BY <2>2 DEF InUse, Owners, TypeOK
    <3>8. /\ count[b] \in Int
          /\ count[b] + Cardinality(AllocOwed(b)) + Cardinality(FreeAhead(b)) =
               InUse(b) + Cardinality(FreeOwed(b))
      BY DEF AllocBalance, Owners, TypeOK
    <3> HIDE DEF LedgerInv
    <3> QED
      BY <3>3, <3>4, <3>5, <3>6, <3>7, <3>8
  <2> QED
    BY <2>3 DEF OwnedIsRecorded, Owners, TypeOK
<1> QED
  BY <1>1, LedgerHolds, PTL
=============================================================================

-------------------------- MODULE TreeWalk_proofs --------------------------
(***************************************************************************)
(* Proofs about TreeWalk, for any set of threads, callbacks and codes and  *)
(* any depth of nesting.                                                   *)
(*                                                                         *)
(* The steps of a walk disturb the stack of one thread in three ways:      *)
(* a frame is pushed, the innermost frame is replaced, or the stack is cut *)
(* to a depth.  The lemmas PushFacts, PokeFacts and CutFacts describe each *)
(* of them pointwise; the rest of the proof reasons about frames by index. *)
(***************************************************************************)
EXTENDS TreeWalk, SequenceTheorems, TLAPS

LEMMA StackFacts ==
  ASSUME NEW F, NEW s \in Seq(F)
  PROVE  /\ Len(s) \in Nat
         /\ DOMAIN s = 1 .. Len(s)
         /\ \A i \in 1 .. Len(s) : s[i] \in F
         /\ s # << >> => Len(s) \in Nat \ {0}
         /\ s = << >> => Len(s) = 0
BY LenProperties, ElementOfSeq, EmptySeq

LEMMA PokeFacts ==
  ASSUME frames \in [Threads -> Seq(Frame)], NEW t \in Threads,
         ~ Outermost(frames[t]), NEW w \in Frame, SetTop(t, w)
  PROVE  /\ frames' \in [Threads -> Seq(Frame)]
         /\ Len(frames[t]) \in Nat \ {0}
         /\ \A u \in Threads : Len(frames'[u]) = Len(frames[u])
         /\ \A u \in Threads : \A i \in 1 .. Len(frames[u]) :
              frames'[u][i] = IF u = t /\ i = Len(frames[t]) THEN w ELSE frames[u][i]
<1> DEFINE s == frames[t]
           r == [s EXCEPT ![Len(s)] = w]
<1>1. s \in Seq(Frame) /\ Len(s) \in Nat \ {0}
  BY StackFacts DEF Outermost
<1>2. frames' = [frames EXCEPT ![t] = r]
  BY DEF SetTop, SetInnermost
<1>3. Len(s) \in 1 .. Len(s)
  BY <1>1
<1>4. /\ r \in Seq(Frame) /\ Len(r) = Len(s)
      /\ \A i \in 1 .. Len(s) : r[i] = IF i = Len(s) THEN w ELSE s[i]
  BY <1>1, <1>3, ExceptSeq
<1> HIDE DEF r
<1> QED
  BY <1>1, <1>2, <1>4

LEMMA PushFacts ==
  ASSUME frames \in [Threads -> Seq(Frame)], NEW t \in Threads, NEW w \in Frame,
         frames' = [frames EXCEPT ![t] = Append(@, w)]
  PROVE  /\ frames' \in [Threads -> Seq(Frame)]
         /\ Len(frames[t]) \in Nat
         /\ \A u \in Threads : Len(frames'[u]) = IF u = t THEN Len(frames[u]) + 1
                                                          ELSE Len(frames[u])
         /\ \A u \in Threads : \A i \in 1 .. Len(frames[u]) :
              frames'[u][i] = frames[u][i]
         /\ frames'[t][Len(frames[t]) + 1] = w
<1> DEFINE s == frames[t]
           r == Append(s, w)
<1>1. s \in Seq(Frame) /\ Len(s) \in Nat
  BY StackFacts
<1>2. frames' = [frames EXCEPT ![t] = r]
  OBVIOUS
<1>3. /\ r \in Seq(Frame) /\ Len(r) = Len(s) + 1
      /\ \A i \in 1 .. Len(s) : r[i] = s[i]
      /\ r[Len(s) + 1] = w
  BY <1>1, AppendProperties
<1> HIDE DEF r
<1> QED
  BY <1>1, <1>2, <1>3

LEMMA CutFacts ==
  ASSUME frames \in [Threads -> Seq(Frame)], NEW t \in Threads,
         NEW d \in 0 .. Len(frames[t]),
         frames' = [frames EXCEPT ![t] = SubSeq(@, 1, d)]
  PROVE  /\ frames' \in [Threads -> Seq(Frame)]
         /\ Len(frames[t]) \in Nat /\ d \in Nat
         /\ \A u \in Threads : Len(frames'[u]) = IF u = t THEN d ELSE Len(frames[u])
         /\ \A u \in Threads : \A i \in 1 .. Len(frames[u]) :
              (u = t => i <= d) => frames'[u][i] = frames[u][i]
<1> DEFINE s == frames[t]
           r == SubSeq(s, 1, d)
<1>1. /\ s \in Seq(Frame) /\ Len(s) \in Nat /\ d \in Nat /\ d <= Len(s)
      /\ \A i \in 1 .. d : s[i] \in Frame
  BY StackFacts
<1>2. frames' = [frames EXCEPT ![t] = r]
  OBVIOUS
<1>3. /\ r \in Seq(Frame) /\ Len(r) = d
      /\ \A i \in 1 .. d : r[i] = s[i]
  <2>1. /\ r \in Seq(Frame)
        /\ Len(r) = IF 1 <= d THEN d - 1 + 1 ELSE 0
        /\ \A i \in 1 .. d - 1 + 1 : r[i] = s[1 + i - 1]
    BY <1>1, SubSeqProperties
  <2> HIDE DEF r, s
  <2> QED
    BY <1>1, <2>1
<1> HIDE DEF r
<1> QED
  BY <1>1, <1>2, <1>3

-----------------------------------------------------------------------------
(* What a replacement of the innermost frame must respect.                 *)
Agrees(w) ==
  /\ w.phase = "done" => w.ret = 0
  /\ w.phase = "failed" => w.ret = -1
  /\ w.phase = "stopped" => w.stopped
  /\ w.stopped /\ SkipResults = {} => w.phase = "stopped"

LEMMA PokeInv ==
  ASSUME WalkInv, NEW t \in Threads, ~ Outermost(frames[t]), NEW w \in Frame,
         SetTop(t, w), active' = active, last' = last,
         errno' \in [Threads -> Codes \cup {0}],
         w.family = Top(t).family, w.previous = Top(t).previous, Agrees(w),
         w.phase = "callback" => w.context = Here(t) /\ w.running = w.callback
  PROVE  WalkInv'
<1>1. /\ frames \in [Threads -> Seq(Frame)]
      /\ frames' \in [Threads -> Seq(Frame)]
      /\ Len(frames[t]) \in Nat \ {0}
      /\ \A u \in Threads : Len(frames'[u]) = Len(frames[u])
      /\ \A u \in Threads : \A i \in 1 .. Len(frames[u]) :
           frames'[u][i] = IF u = t /\ i = Len(frames[t]) THEN w ELSE frames[u][i]
  BY PokeFacts DEF WalkInv, TypeOK
<1>2. \A u \in Threads : /\ Len(frames[u]) \in Nat
                         /\ DOMAIN frames[u] = 1 .. Len(frames[u])
                         /\ DOMAIN frames'[u] = 1 .. Len(frames[u])
  BY <1>1, StackFacts
<1>3. \A u \in Threads : \A i \in 1 .. Len(frames[u]) :
        /\ frames'[u][i].family = frames[u][i].family
        /\ frames'[u][i].previous = frames[u][i].previous
  BY <1>1 DEF Top, Innermost
<1>4. TypeOK'
  BY <1>1 DEF WalkInv, TypeOK
<1>5. DispatchToOwner'
  BY <1>1, <1>2 DEF WalkInv, DispatchToOwner, Here
<1>6. PointersChained'
  <2>1. \A u \in Threads : \A i, n \in Int : n <= Len(frames[u]) =>
          (TopOfFamily(u, i, n)' <=> TopOfFamily(u, i, n))
    BY <1>2, <1>3 DEF TopOfFamily
  <2>2. ASSUME NEW u \in Threads, NEW i \in DOMAIN frames'[u],
               TopOfFamily(u, i, Len(frames[u]))'
        PROVE  Active(u, frames[u][i].family)' = <<u, i>>
    <3>1. i \in DOMAIN frames[u] /\ TopOfFamily(u, i, Len(frames[u]))
      BY <1>1, <1>2, <2>1, <2>2
    <3>2. Active(u, frames[u][i].family) = <<u, i>>
      BY <3>1 DEF WalkInv, PointersChained
    <3> QED
      BY <1>2, <1>3, <3>1, <3>2 DEF Active, Slot
  <2>3. ASSUME NEW u \in Threads, NEW i \in DOMAIN frames'[u], NEW k \in DOMAIN frames'[u],
               TopOfFamily(u, i, k - 1)', frames'[u][i].family = frames'[u][k].family
        PROVE  frames'[u][k].previous = <<u, i>>
    <3>1. /\ i \in DOMAIN frames[u] /\ k \in DOMAIN frames[u]
          /\ TopOfFamily(u, i, k - 1)
      BY <1>2, <2>1, <2>3
    <3>2. frames[u][k].previous = <<u, i>>
      BY <1>2, <1>3, <2>3, <3>1 DEF WalkInv, PointersChained
    <3> QED
      BY <1>2, <1>3, <3>1, <3>2
  <2> QED
    BY <2>2, <2>3 DEF PointersChained
<1>7. EnclosingInCallback'
  <2>1. ASSUME NEW u \in Threads, NEW i \in DOMAIN frames'[u], i < Len(frames'[u])
        PROVE  frames'[u][i].phase = "callback"
    <3>1. i \in DOMAIN frames[u] /\ i < Len(frames[u])
      BY <1>1, <1>2, <2>1
    <3>2. frames[u][i].phase = "callback"
      BY <3>1 DEF WalkInv, EnclosingInCallback
    <3> QED
      BY <1>1, <1>2, <3>1, <3>2
  <2> QED
    BY <2>1 DEF EnclosingInCallback
<1>8. VerdictsAgree'
  <2>1. ASSUME NEW u \in Threads, NEW i \in DOMAIN frames'[u]
        PROVE  Agrees(frames'[u][i])
    <3>1. i \in DOMAIN frames[u] /\ i \in 1 .. Len(frames[u])
      BY <1>2
    <3>2. Agrees(frames[u][i])
      BY <3>1 DEF WalkInv, VerdictsAgree, Agrees
    <3> QED
      BY <1>1, <3>1, <3>2
  <2> QED
    BY <2>1 DEF VerdictsAgree, Agrees
<1>9. NoSpuriousError' /\ NativeFailureReported'
  BY DEF WalkInv, NoSpuriousError, NativeFailureReported
<1> QED
  BY <1>4, <1>5, <1>6, <1>7, <1>8, <1>9 DEF WalkInv

LEMMA CutInv ==
  ASSUME WalkInv, NEW t \in Threads, NEW d \in 0 .. Len(frames[t]) - 1,
         frames' = [frames EXCEPT ![t] = SubSeq(@, 1, d)],
         active' \in [Threads -> [Families -> Address]],
         \A u \in Threads : u # t => active'[u] = active[u],
         \A i \in 1 .. d : TopOfFamily(t, i, d) =>
                             active'[t][frames[t][i].family] = <<t, i>>,
         errno' = errno, last' \in [Threads -> Outcome],
         NoSpuriousError', NativeFailureReported'
  PROVE  WalkInv'
<1>0. frames \in [Threads -> Seq(Frame)]
  BY DEF WalkInv, TypeOK
<1>1. /\ frames' \in [Threads -> Seq(Frame)]
      /\ Len(frames[t]) \in Nat /\ d \in Nat /\ d < Len(frames[t])
      /\ \A u \in Threads : Len(frames'[u]) = IF u = t THEN d ELSE Len(frames[u])
      /\ \A u \in Threads : \A i \in 1 .. Len(frames[u]) :
           (u = t => i <= d) => frames'[u][i] = frames[u][i]
  <2>1. Len(frames[t]) \in Nat
    BY <1>0, StackFacts
  <2>2. d \in 0 .. Len(frames[t]) /\ d < Len(frames[t])
    BY <2>1
  <2> QED
    BY <1>0, <2>2, CutFacts
<1>2. \A u \in Threads : /\ Len(frames[u]) \in Nat
                         /\ DOMAIN frames[u] = 1 .. Len(frames[u])
                         /\ DOMAIN frames'[u] = 1 .. Len(frames'[u])
  BY <1>0, <1>1, StackFacts
<1>3. \A u \in Threads : /\ Len(frames'[u]) \in Nat
                         /\ Len(frames'[u]) <= Len(frames[u])
                         /\ \A i \in 1 .. Len(frames'[u]) : frames'[u][i] = frames[u][i]
  BY <1>1, <1>2
<1>4. TypeOK'
  BY <1>1 DEF WalkInv, TypeOK
<1>5. DispatchToOwner'
  BY <1>2, <1>3 DEF WalkInv, DispatchToOwner
<1>6. PointersChained'
  <2>1. \A u \in Threads : \A i, n \in Int : n <= Len(frames'[u]) =>
          (TopOfFamily(u, i, n)' <=> TopOfFamily(u, i, n))
    BY <1>2, <1>3 DEF TopOfFamily
  <2>2. ASSUME NEW u \in Threads, NEW i \in DOMAIN frames'[u],
               TopOfFamily(u, i, Len(frames[u]))'
        PROVE  Active(u, frames[u][i].family)' = <<u, i>>
    <3>1. /\ i \in 1 .. Len(frames'[u]) /\ Len(frames'[u]) \in Nat
          /\ frames'[u][i] = frames[u][i]
          /\ TopOfFamily(u, i, Len(frames'[u]))
      BY <1>2, <1>3, <2>1, <2>2
    <3>2. CASE u = t
      BY <1>1, <3>1, <3>2 DEF Active, Slot
    <3>3. CASE u # t
      <4>1. i \in DOMAIN frames[u] /\ TopOfFamily(u, i, Len(frames[u]))
        BY <1>1, <1>2, <3>1, <3>3
      <4>2. Active(u, frames[u][i].family) = <<u, i>>
        BY <4>1 DEF WalkInv, PointersChained
      <4> QED
        BY <3>1, <3>3, <4>2 DEF Active, Slot
    <3> QED
      BY <3>2, <3>3
  <2>3. ASSUME NEW u \in Threads, NEW i \in DOMAIN frames'[u], NEW k \in DOMAIN frames'[u],
               TopOfFamily(u, i, k - 1)', frames'[u][i].family = frames'[u][k].family
        PROVE  frames'[u][k].previous = <<u, i>>
    <3>1. /\ i \in 1 .. Len(frames'[u]) /\ k \in 1 .. Len(frames'[u])
          /\ TopOfFamily(u, i, k - 1)
      BY <1>2, <1>3, <2>1, <2>3
    <3>2. /\ i \in DOMAIN frames[u] /\ k \in DOMAIN frames[u]
          /\ frames'[u][i] = frames[u][i] /\ frames'[u][k] = frames[u][k]
      BY <1>2, <1>3, <3>1
    <3> QED
      BY <2>3, <3>1, <3>2 DEF WalkInv, PointersChained
  <2> QED
    BY <2>2, <2>3 DEF PointersChained
<1>7. EnclosingInCallback'
  BY <1>2, <1>3 DEF WalkInv, EnclosingInCallback
<1>8. VerdictsAgree'
  BY <1>2, <1>3 DEF WalkInv, VerdictsAgree
<1> QED
  BY <1>4, <1>5, <1>6, <1>7, <1>8 DEF WalkInv

LEMMA StartWalkInv ==
  ASSUME WalkInv, NEW t \in Threads, NEW f \in Families, NEW cb \in Callbacks,
         StartWalk(t, f, cb)
  PROVE  WalkInv'
<1> DEFINE n == Len(frames[t])
           w == [family |-> f, callback |-> cb, stopped |-> FALSE,
                 previous |-> Active(t, f), phase |-> "walking",
                 context |-> None, running |-> None, ret |-> 0]
<1>0. /\ frames \in [Threads -> Seq(Frame)]
      /\ active \in [Threads -> [Families -> Address]]
  BY DEF WalkInv, TypeOK
<1>1. n \in Nat /\ w \in Frame
  BY <1>0, StackFacts DEF Frame, Address, Active, Slot, Phases, Ended
<1>2. /\ frames' = [frames EXCEPT ![t] = Append(@, w)]
      /\ active' = [active EXCEPT ![t][f] = <<t, n + 1>>]
  BY DEF StartWalk, Publish, Slot
<1> HIDE DEF w
<1>3. /\ frames' \in [Threads -> Seq(Frame)]
      /\ \A u \in Threads : Len(frames'[u]) = IF u = t THEN Len(frames[u]) + 1
                                                       ELSE Len(frames[u])
      /\ \A u \in Threads : \A i \in 1 .. Len(frames[u]) :
           frames'[u][i] = frames[u][i]
      /\ frames'[t][n + 1] = w
  BY <1>0, <1>1, <1>2, PushFacts
<1>4. /\ w.family = f /\ w.previous = Active(t, f) /\ w.phase = "walking"
      /\ w.stopped = FALSE
  BY DEF w
<1>5. \A u \in Threads : /\ Len(frames[u]) \in Nat
                         /\ DOMAIN frames[u] = 1 .. Len(frames[u])
                         /\ DOMAIN frames'[u] = 1 .. Len(frames'[u])
  BY <1>0, <1>3, StackFacts
(* Every frame is the new one or an old one.                               *)
<1>6. ASSUME NEW u \in Threads, NEW i \in DOMAIN frames'[u]
      PROVE  \/ u = t /\ i = n + 1 /\ frames'[u][i] = w
             \/ i \in DOMAIN frames[u] /\ frames'[u][i] = frames[u][i]
                  /\ (u = t => i < n + 1)
  BY <1>1, <1>3, <1>5
<1>7. TypeOK'
  <2>1. <<t, n + 1>> \in Address
    BY <1>1 DEF Address
  <2>2. active' \in [Threads -> [Families -> Address]]
    BY <1>0, <1>2, <2>1
  <2>3. errno' \in [Threads -> Codes \cup {0}] /\ last' \in [Threads -> Outcome]
    BY DEF WalkInv, TypeOK, StartWalk
  <2> QED
    BY <1>3, <2>2, <2>3 DEF TypeOK
<1>8. DispatchToOwner'
  BY <1>4, <1>6 DEF WalkInv, DispatchToOwner
<1>9. PointersChained'
  <2>1. \A u \in Threads : \A i, k \in Int : k <= Len(frames[u]) =>
          (TopOfFamily(u, i, k)' <=> TopOfFamily(u, i, k))
    <3>1. ASSUME NEW u \in Threads, NEW i \in Int, NEW k \in Int,
                 k <= Len(frames[u])
          PROVE  TopOfFamily(u, i, k)' <=> TopOfFamily(u, i, k)
      <4>1. \A j \in 1 .. k : frames'[u][j] = frames[u][j]
        BY <1>3, <1>5, <3>1
      <4> QED
        BY <4>1 DEF TopOfFamily
    <3> QED
      BY <3>1
  <2>2. ASSUME NEW u \in Threads, NEW i \in DOMAIN frames'[u],
               TopOfFamily(u, i, Len(frames[u]))'
        PROVE  Active(u, frames[u][i].family)' = <<u, i>>
    <3>1. CASE u = t /\ i = n + 1
      BY <1>0, <1>2, <1>3, <1>4, <3>1 DEF Active, Slot
    <3>2. CASE u = t /\ i # n + 1
      <4>1. /\ i \in 1 .. n /\ n + 1 \in (i + 1) .. Len(frames'[u])
            /\ frames'[u][i] = frames[u][i]
        BY <1>1, <1>3, <1>5, <1>6, <3>2
      <4>2. frames[u][i].family # f
        BY <1>3, <1>4, <2>2, <3>2, <4>1 DEF TopOfFamily
      <4>3. TopOfFamily(u, i, n)
        BY <1>1, <1>3, <1>5, <2>2, <3>2, <4>1 DEF TopOfFamily
      <4>4. Active(u, frames[u][i].family) = <<u, i>>
        BY <1>5, <3>2, <4>1, <4>3 DEF WalkInv, PointersChained
      <4>5. frames[u][i].family \in Families
        <5>1. frames[t] \in Seq(Frame)
          BY <1>0
        <5>2. frames[t][i] \in Frame
          BY <4>1, <5>1, StackFacts
        <5> QED
          BY <3>2, <5>2 DEF Frame
      <4> QED
        BY <1>0, <1>2, <3>2, <4>1, <4>2, <4>4, <4>5 DEF Active, Slot
    <3>3. CASE u # t
      <4>1. /\ i \in DOMAIN frames[u] /\ TopOfFamily(u, i, Len(frames[u]))
            /\ frames'[u][i] = frames[u][i]
        BY <1>3, <1>5, <2>1, <2>2, <3>3
      <4>2. Active(u, frames[u][i].family) = <<u, i>>
        BY <4>1 DEF WalkInv, PointersChained
      <4> QED
        BY <1>0, <1>2, <3>3, <4>1, <4>2 DEF Active, Slot
    <3> QED
      BY <3>1, <3>2, <3>3
  <2>3. ASSUME NEW u \in Threads, NEW i \in DOMAIN frames'[u], NEW k \in DOMAIN frames'[u],
               TopOfFamily(u, i, k - 1)', frames'[u][i].family = frames'[u][k].family
        PROVE  frames'[u][k].previous = <<u, i>>
    <3>1. /\ k \in 1 .. Len(frames'[u]) /\ i \in 1 .. (k - 1)
          /\ k - 1 <= Len(frames[u])
      BY <1>3, <1>5, <2>3 DEF TopOfFamily
    <3>2. /\ TopOfFamily(u, i, k - 1)
          /\ i \in DOMAIN frames[u] /\ frames'[u][i] = frames[u][i]
      <4>1. /\ i \in 1 .. Len(frames[u]) /\ DOMAIN frames[u] = 1 .. Len(frames[u])
            /\ k - 1 \in Int
        BY <1>3, <1>5, <3>1
      <4>2. i \in DOMAIN frames[u] /\ frames'[u][i] = frames[u][i]
        BY <1>3, <4>1
      <4>3. TopOfFamily(u, i, k - 1)
        BY <2>1, <2>3, <3>1, <4>1
      <4> QED
        BY <4>2, <4>3
    <3>3. CASE u = t /\ k = n + 1
      <4>1. TopOfFamily(u, i, Len(frames[u])) /\ frames[u][i].family = f
        BY <1>1, <1>3, <1>4, <2>3, <3>2, <3>3
      <4>2. Active(u, f) = <<u, i>>
        BY <3>2, <4>1 DEF WalkInv, PointersChained
      <4> QED
        BY <1>3, <1>4, <3>3, <4>2
    <3>4. CASE ~ (u = t /\ k = n + 1)
      <4>1. k \in DOMAIN frames[u] /\ frames'[u][k] = frames[u][k]
        BY <1>6, <3>4
      <4> QED
        BY <2>3, <3>2, <4>1 DEF WalkInv, PointersChained
    <3> QED
      BY <3>3, <3>4
  <2> QED
    BY <2>2, <2>3 DEF PointersChained
<1>10. EnclosingInCallback'
  <2>1. ASSUME NEW u \in Threads, NEW i \in DOMAIN frames'[u], i < Len(frames'[u])
        PROVE  frames'[u][i].phase = "callback"
    <3>1. i \in DOMAIN frames[u] /\ frames'[u][i] = frames[u][i]
      BY <1>1, <1>3, <1>5, <2>1
    <3>2. CASE i < Len(frames[u])
      BY <3>1, <3>2 DEF WalkInv, EnclosingInCallback
    <3>3. CASE ~ (i < Len(frames[u]))
      <4>1. u = t /\ i = Len(frames[t]) /\ frames[t] # << >>
        BY <1>1, <1>3, <1>5, <2>1, <3>1, <3>3, StackFacts, <1>0
      <4>2. frames[t][Len(frames[t])].phase = "callback"
        BY <4>1 DEF StartWalk, InApplication, Outermost, Innermost
      <4> QED
        BY <3>1, <4>1, <4>2
    <3> QED
      BY <3>2, <3>3
  <2> QED
    BY <2>1 DEF EnclosingInCallback
<1>11. VerdictsAgree'
  <2>1. ASSUME NEW u \in Threads, NEW i \in DOMAIN frames'[u]
        PROVE  Agrees(frames'[u][i])
    BY <1>4, <1>6 DEF WalkInv, VerdictsAgree, Agrees
  <2> QED
    BY <2>1 DEF VerdictsAgree, Agrees
<1>12. NoSpuriousError' /\ NativeFailureReported'
  BY DEF StartWalk, WalkInv, NoSpuriousError, NativeFailureReported
<1> QED
  BY <1>7, <1>8, <1>9, <1>10, <1>11, <1>12 DEF WalkInv

-----------------------------------------------------------------------------
(* The innermost frame of a stack that has one.                            *)
LEMMA TopFacts ==
  ASSUME WalkInv, NEW t \in Threads, ~ Outermost(frames[t])
  PROVE  /\ frames[t] \in Seq(Frame)
         /\ Len(frames[t]) \in Nat \ {0}
         /\ Len(frames[t]) \in DOMAIN frames[t]
         /\ Top(t) = frames[t][Len(frames[t])]
         /\ Top(t) \in Frame
         /\ Agrees(Top(t))
<1>1. frames[t] \in Seq(Frame) /\ frames[t] # << >>
  BY DEF WalkInv, TypeOK, Outermost
<1>2. /\ Len(frames[t]) \in Nat \ {0}
      /\ Len(frames[t]) \in 1 .. Len(frames[t])
      /\ DOMAIN frames[t] = 1 .. Len(frames[t])
      /\ frames[t][Len(frames[t])] \in Frame
  BY <1>1, StackFacts
<1> QED
  BY <1>1, <1>2 DEF Top, Innermost, WalkInv, VerdictsAgree, Agrees

(* A native walker that delivers an entry finds its own walk's callback.   *)
LEMMA PointerIsOwn ==
  ASSUME WalkInv, NEW t \in Threads, NEW f \in Families, Walking(t, f)
  PROVE  /\ Active(t, f) = Here(t)
         /\ Fetch(Active(t, f), f) = {Top(t).callback}
<1>1. /\ Len(frames[t]) \in Nat \ {0}
      /\ Len(frames[t]) \in DOMAIN frames[t]
      /\ Top(t) = frames[t][Len(frames[t])]
      /\ Top(t).family = f
  BY TopFacts DEF Walking
<1>2. TopOfFamily(t, Len(frames[t]), Len(frames[t]))
  BY <1>1 DEF TopOfFamily
<1>3. Active(t, f) = <<t, Len(frames[t])>>
  BY <1>1, <1>2 DEF WalkInv, PointersChained
<1>4. <<t, Len(frames[t])>> # None
  BY <1>1, WalkAssumption DEF WalkAssumption
<1>5. Live(<<t, Len(frames[t])>>, f)
  BY <1>1, <1>4 DEF Live
<1> QED
  BY <1>1, <1>3, <1>5 DEF Fetch, Here

(* What the innermost frame becomes when its callback is called, when it   *)
(* answers r, and when the native walker returns.                          *)
Called(t) == [Top(t) EXCEPT !.phase = "callback", !.context = Here(t),
                            !.running = Top(t).callback]

AfterAnswer(t, r) ==
  LET on == GoesOn(Top(t).family, r)
  IN [Top(t) EXCEPT !.stopped = Top(t).stopped \/ r # 0,
                    !.phase = IF on THEN "walking" ELSE "stopped",
                    !.context = None, !.running = None,
                    !.ret = IF on THEN 0 ELSE r]

AtEnd(t, p, r) == [Top(t) EXCEPT !.phase = p, !.ret = r]

(* The frame w replaces is the innermost one, and keeps what it was called *)
(* with.                                                                   *)
Replaces(t, w) ==
  /\ ~ Outermost(frames[t]) /\ SetTop(t, w) /\ w \in Frame
  /\ w.family = Top(t).family /\ w.previous = Top(t).previous
  /\ w.callback = Top(t).callback /\ Agrees(w)

LEMMA DispatchEffect ==
  ASSUME WalkInv, NEW t \in Threads, NEW f \in Families, Dispatch(t, f)
  PROVE  /\ Replaces(t, Called(t)) /\ Top(t).phase = "walking"
         /\ active' = active /\ errno' = errno /\ last' = last
<1> DEFINE w == Called(t)
<1>1. /\ ~ Outermost(frames[t]) /\ Top(t) \in Frame /\ Agrees(Top(t))
      /\ Top(t).phase = "walking" /\ Len(frames[t]) \in Nat \ {0}
  BY TopFacts DEF Dispatch, Walking
<1>2. /\ SetTop(t, w)
      /\ active' = active /\ errno' = errno /\ last' = last
  BY PointerIsOwn DEF Dispatch, Called
<1>3. w \in Frame
  BY <1>1 DEF Called, Frame, Address, Here, Phases, Ended
<1>4. /\ w.family = Top(t).family /\ w.previous = Top(t).previous
      /\ w.callback = Top(t).callback /\ Agrees(w)
  BY <1>1 DEF Called, Frame, Agrees
<1> QED
  BY <1>1, <1>2, <1>3, <1>4 DEF Replaces

LEMMA DispatchInv ==
  ASSUME WalkInv, NEW t \in Threads, NEW f \in Families, Dispatch(t, f)
  PROVE  WalkInv'
<1>1. /\ Replaces(t, Called(t))
      /\ active' = active /\ errno' = errno /\ last' = last
  BY DispatchEffect
<1>2. Top(t) \in Frame
  BY <1>1, TopFacts DEF Replaces
<1>3. Called(t).context = Here(t) /\ Called(t).running = Called(t).callback
  BY <1>2 DEF Called, Frame
<1>4. errno' \in [Threads -> Codes \cup {0}]
  BY <1>1 DEF WalkInv, TypeOK
<1> QED
  BY <1>1, <1>3, <1>4, PokeInv DEF Replaces

LEMMA NativeEndsEffect ==
  ASSUME WalkInv, NEW t \in Threads, NativeEnds(t)
  PROVE  /\ Replaces(t, AtEnd(t, "done", 0)) \/ Replaces(t, AtEnd(t, "failed", -1))
         /\ Top(t).phase = "walking"
         /\ active' = active /\ last' = last
         /\ errno' \in [Threads -> Codes \cup {0}]
<1>1. /\ ~ Outermost(frames[t]) /\ Top(t) \in Frame /\ Agrees(Top(t))
      /\ Top(t).phase = "walking"
  BY TopFacts DEF NativeEnds
<1>2. /\ active' = active /\ last' = last
      /\ errno' \in [Threads -> Codes \cup {0}]
  BY DEF NativeEnds, WalkInv, TypeOK
<1>3. ASSUME NEW p \in {"done", "failed"}, NEW r \in {-1, 0},
             p = "done" <=> r = 0, SetTop(t, AtEnd(t, p, r))
      PROVE  Replaces(t, AtEnd(t, p, r))
  <2> DEFINE w == AtEnd(t, p, r)
  <2>1. w \in Frame
    BY <1>1 DEF AtEnd, Frame, Phases, Ended
  <2>2. /\ w.family = Top(t).family /\ w.previous = Top(t).previous
        /\ w.callback = Top(t).callback
    BY <1>1 DEF AtEnd, Frame
  <2>3. Agrees(w)
    BY <1>1, <1>3 DEF AtEnd, Frame, Agrees
  <2> HIDE DEF w
  <2> QED
    BY <1>1, <1>3, <2>1, <2>2, <2>3 DEF w, Replaces
<1>4. SetTop(t, AtEnd(t, "done", 0)) \/ SetTop(t, AtEnd(t, "failed", -1))
  BY DEF NativeEnds, AtEnd
<1> QED
  BY <1>1, <1>2, <1>3, <1>4

LEMMA NativeEndsInv ==
  ASSUME WalkInv, NEW t \in Threads, NativeEnds(t)
  PROVE  WalkInv'
<1>1. PICK p \in {"done", "failed"}, r \in {-1, 0} : Replaces(t, AtEnd(t, p, r))
  BY NativeEndsEffect
<1>2. /\ active' = active /\ last' = last
      /\ errno' \in [Threads -> Codes \cup {0}]
  BY NativeEndsEffect
<1>3. Top(t) \in Frame
  BY <1>1, TopFacts DEF Replaces
<1>4. AtEnd(t, p, r).phase # "callback"
  BY <1>3 DEF AtEnd, Frame
<1> QED
  BY <1>1, <1>2, <1>4, PokeInv DEF Replaces

LEMMA CallbackReturnsEffect ==
  ASSUME WalkInv, NEW t \in Threads, NEW r \in Results \cup {0},
         CallbackReturns(t, r)
  PROVE  /\ Replaces(t, AfterAnswer(t, r)) /\ Top(t).phase = "callback"
         /\ active' = active /\ last' = last /\ errno' = errno
<1> DEFINE n == Len(frames[t])
           on == GoesOn(Top(t).family, r)
           ph == IF on THEN "walking" ELSE "stopped"
           rv == IF on THEN 0 ELSE r
           w == [Top(t) EXCEPT !.stopped = Top(t).stopped \/ r # 0,
                               !.phase = ph, !.context = None,
                               !.running = None, !.ret = rv]
<1>1. /\ ~ Outermost(frames[t]) /\ Top(t) \in Frame /\ Agrees(Top(t))
      /\ Top(t).phase = "callback"
      /\ frames[t] \in Seq(Frame) /\ n \in Nat \ {0} /\ n \in DOMAIN frames[t]
      /\ Top(t) = frames[t][n]
  BY TopFacts DEF CallbackReturns
<1>2. Top(t).context = <<t, n>> /\ Live(Top(t).context, Top(t).family)
  <2>1. Top(t).context = <<t, n>>
    BY <1>1 DEF WalkInv, DispatchToOwner
  <2>2. <<t, n>> # None
    BY <1>1, WalkAssumption DEF WalkAssumption
  <2> QED
    BY <1>1, <2>1, <2>2 DEF Live
<1>3. /\ r \in Results \cup {-1, 0}
      /\ on => r = 0 \/ SkipResults # {}
      /\ ~ on => r # 0
  BY DEF GoesOn
<1> HIDE DEF on
<1>4. w \in Frame
  <2>1. ph \in Phases /\ rv \in Results \cup {-1, 0} /\ None \in Address
    BY <1>3 DEF Phases, Ended, Address
  <2>2. (Top(t).stopped \/ r # 0) \in BOOLEAN
    OBVIOUS
  <2> HIDE DEF ph, rv
  <2> QED
    BY <1>1, <2>1, <2>2 DEF Frame
<1>5. frames' = [frames EXCEPT ![t] = SetInnermost(@, w)]
  <2> DEFINE m == MarkStopped(t, r)
             s == [Top(t) EXCEPT !.stopped = Top(t).stopped \/ r # 0]
  <2>1. frames \in [Threads -> Seq(Frame)]
    BY DEF WalkInv, TypeOK
  <2>2. m = [frames EXCEPT ![t] = [frames[t] EXCEPT ![n] = s]]
    <3>1. CASE r # 0
      <4>1. m = [frames EXCEPT ![t][n].stopped = TRUE]
        BY <1>2, <3>1 DEF MarkStopped
      <4> QED
        BY <1>1, <2>1, <3>1, <4>1
    <3>2. CASE r = 0
      <4>1. m = frames /\ s = Top(t)
        BY <1>1, <3>2 DEF MarkStopped, Frame
      <4>2. [frames[t] EXCEPT ![n] = s] = frames[t]
        BY <1>1, <4>1
      <4> QED
        BY <2>1, <4>1, <4>2
    <3> QED
      BY <3>1, <3>2
  <2>3. frames' = [m EXCEPT ![t] = SetInnermost(@,
                     [Innermost(@) EXCEPT !.phase = ph, !.context = None,
                                          !.running = None, !.ret = rv])]
    BY DEF CallbackReturns, on
  <2> DEFINE q == [frames[t] EXCEPT ![n] = s]
  <2>4. m[t] = q /\ DOMAIN m = Threads
    BY <2>1, <2>2
  <2>5. s \in Frame
    BY <1>1 DEF Frame
  <2>6. Len(q) = n /\ q[n] = s
    <3>1. n \in 1 .. Len(frames[t])
      BY <1>1
    <3> HIDE DEF s
    <3> QED
      BY <1>1, <2>5, <3>1, ExceptSeq
  <2> HIDE DEF m, q
  <2>7. frames' = [m EXCEPT ![t] = [q EXCEPT ![n] =
                     [s EXCEPT !.phase = ph, !.context = None,
                               !.running = None, !.ret = rv]]]
    BY <2>3, <2>4, <2>6 DEF SetInnermost, Innermost
  <2>8. [s EXCEPT !.phase = ph, !.context = None, !.running = None, !.ret = rv] = w
    BY <1>1 DEF Frame
  <2> HIDE DEF s, w
  <2>9. frames' = [m EXCEPT ![t] = [q EXCEPT ![n] = w]]
    BY <2>7, <2>8
  <2>10. [q EXCEPT ![n] = w] = [frames[t] EXCEPT ![n] = w]
    BY <1>1 DEF q
  <2>11. [m EXCEPT ![t] = [frames[t] EXCEPT ![n] = w]]
           = [frames EXCEPT ![t] = [frames[t] EXCEPT ![n] = w]]
    BY <2>1, <2>2
  <2> QED
    BY <2>9, <2>10, <2>11 DEF SetInnermost
<1>6. active' = active /\ last' = last /\ errno' = errno
  BY DEF CallbackReturns
<1>7. /\ w.family = Top(t).family /\ w.previous = Top(t).previous
      /\ w.callback = Top(t).callback
  BY <1>1 DEF Frame
<1>8. Agrees(w)
  BY <1>1, <1>3 DEF Frame, Agrees
<1>9. w = AfterAnswer(t, r)
  BY DEF AfterAnswer, on
<1> HIDE DEF w
<1> QED
  BY <1>1, <1>4, <1>5, <1>6, <1>7, <1>8, <1>9 DEF SetTop, Replaces

LEMMA CallbackReturnsInv ==
  ASSUME WalkInv, NEW t \in Threads, NEW r \in Results \cup {0},
         CallbackReturns(t, r)
  PROVE  WalkInv'
<1>1. /\ Replaces(t, AfterAnswer(t, r))
      /\ active' = active /\ last' = last /\ errno' = errno
  BY CallbackReturnsEffect
<1>2. Top(t) \in Frame
  BY <1>1, TopFacts DEF Replaces
<1>3. AfterAnswer(t, r).phase # "callback"
  BY <1>2 DEF AfterAnswer, Frame
<1>4. errno' \in [Threads -> Codes \cup {0}]
  BY <1>1 DEF WalkInv, TypeOK
<1> QED
  BY <1>1, <1>3, <1>4, PokeInv DEF Replaces

LEMMA EndWalkInv ==
  ASSUME WalkInv, NEW t \in Threads, NEW f \in Families, EndWalk(t, f)
  PROVE  WalkInv'
<1> DEFINE n == Len(frames[t])
           d == n - 1
<1>1. /\ Top(t) \in Frame /\ Agrees(Top(t)) /\ Top(t).phase \in Ended
      /\ Top(t).family = f
      /\ frames[t] \in Seq(Frame) /\ n \in Nat \ {0} /\ n \in DOMAIN frames[t]
      /\ Top(t) = frames[t][n]
      /\ DOMAIN frames[t] = 1 .. n
  BY TopFacts, StackFacts DEF EndWalk
<1>2. d \in 0 .. Len(frames[t]) - 1
  BY <1>1
<1>3. frames' = [frames EXCEPT ![t] = SubSeq(@, 1, d)]
  BY DEF EndWalk
<1>4. /\ active \in [Threads -> [Families -> Address]]
      /\ active' = [active EXCEPT ![t][f] = Top(t).previous]
      /\ Top(t).previous \in Address
  BY <1>1 DEF WalkInv, TypeOK, EndWalk, Publish, Slot, Restored, Frame
<1>5. active' \in [Threads -> [Families -> Address]]
  BY <1>4
<1>6. \A u \in Threads : u # t => active'[u] = active[u]
  BY <1>4
<1>7. ASSUME NEW i \in 1 .. d, TopOfFamily(t, i, d)
      PROVE  active'[t][frames[t][i].family] = <<t, i>>
  <2>1. i \in DOMAIN frames[t] /\ frames[t][i].family \in Families
    <3>1. i \in 1 .. n
      BY <1>1
    <3>2. frames[t][i] \in Frame
      BY <1>1, <3>1, StackFacts
    <3> QED
      BY <1>1, <3>1, <3>2 DEF Frame
  <2>2. CASE frames[t][i].family = f
    <3>1. frames[t][n].previous = <<t, i>>
      BY <1>1, <1>7, <2>1, <2>2 DEF WalkInv, PointersChained
    <3> QED
      BY <1>1, <1>4, <2>2, <3>1
  <2>3. CASE frames[t][i].family # f
    <3>1. TopOfFamily(t, i, n)
      BY <1>1, <1>7, <2>3 DEF TopOfFamily
    <3>2. Active(t, frames[t][i].family) = <<t, i>>
      BY <2>1, <3>1 DEF WalkInv, PointersChained
    <3> QED
      BY <1>4, <2>1, <2>3, <3>2 DEF Active, Slot
  <2> QED
    BY <2>2, <2>3
<1>8. /\ errno' = errno /\ errno[t] \in Codes \cup {0}
      /\ last \in [Threads -> Outcome]
      /\ last' = [last EXCEPT ![t] = [ret |-> Top(t).ret,
                                      raised |-> Raised(Top(t), errno[t]),
                                      reason |-> Top(t).phase]]
  BY DEF EndWalk, WalkInv, TypeOK
<1>9. /\ Raised(Top(t), errno[t]) \in Codes \cup {None}
      /\ Raised(Top(t), errno[t]) \in Codes <=> Top(t).ret = -1 /\ ~ Top(t).stopped
  BY <1>8, WalkAssumption DEF WalkAssumption, Raised, ErrorCode
<1>10. last' \in [Threads -> Outcome]
  BY <1>1, <1>8, <1>9 DEF Outcome, Frame
<1>11. NoSpuriousError'
  BY <1>1, <1>8, <1>9 DEF WalkInv, NoSpuriousError, Agrees
<1>12. NativeFailureReported'
  BY <1>1, <1>8, <1>9 DEF WalkInv, NativeFailureReported, Agrees
<1> QED
  BY <1>2, <1>3, <1>5, <1>6, <1>7, <1>8, <1>10, <1>11, <1>12, CutInv

LEMMA LongJumpInv ==
  ASSUME WalkInv, NEW t \in Threads, LongJump(t)
  PROVE  WalkInv'
<1>1. PICK d \in 0 .. Len(frames[t]) - 1 :
        /\ FamiliesIn(frames[t], 1, d) \cap
             FamiliesIn(frames[t], d + 1, Len(frames[t])) = {}
        /\ frames' = [frames EXCEPT ![t] = SubSeq(@, 1, d)]
  BY DEF LongJump
<1>2. active' = active /\ errno' = errno /\ last' = last
  BY DEF LongJump
<1>3. /\ Len(frames[t]) \in Nat /\ d \in Nat /\ d < Len(frames[t])
      /\ DOMAIN frames[t] = 1 .. Len(frames[t])
  BY StackFacts DEF WalkInv, TypeOK
<1>4. ASSUME NEW i \in 1 .. d, TopOfFamily(t, i, d)
      PROVE  active'[t][frames[t][i].family] = <<t, i>>
  <2>1. \A j \in d + 1 .. Len(frames[t]) : frames[t][j].family # frames[t][i].family
    BY <1>1, <1>3 DEF FamiliesIn
  <2>2. TopOfFamily(t, i, Len(frames[t]))
    BY <1>3, <1>4, <2>1 DEF TopOfFamily
  <2> QED
    BY <1>2, <1>3, <2>2 DEF WalkInv, PointersChained, Active, Slot
<1>5. /\ active' \in [Threads -> [Families -> Address]]
      /\ last' \in [Threads -> Outcome]
      /\ NoSpuriousError' /\ NativeFailureReported'
  BY <1>2 DEF WalkInv, TypeOK, NoSpuriousError, NativeFailureReported
<1> QED
  BY <1>1, <1>2, <1>4, <1>5, CutInv

(* Steps that leave the stacks and the pointers alone.                     *)
LEMMA QuietInv ==
  ASSUME WalkInv, frames' = frames, active' = active,
         errno' \in [Threads -> Codes \cup {0}], last' \in [Threads -> Outcome],
         NoSpuriousError', NativeFailureReported'
  PROVE  WalkInv'
<1>1. /\ TypeOK' /\ DispatchToOwner' /\ EnclosingInCallback' /\ VerdictsAgree'
  BY DEF WalkInv, TypeOK, DispatchToOwner, EnclosingInCallback, VerdictsAgree
<1>2. PointersChained'
  <2>1. \A t \in Threads : \A i, k \in Int :
          TopOfFamily(t, i, k)' <=> TopOfFamily(t, i, k)
    BY DEF TopOfFamily
  <2>2. \A t \in Threads, f \in Families : Active(t, f)' = Active(t, f)
    BY DEF Active, Slot
  <2>3. \A t \in Threads : /\ DOMAIN frames[t] = 1 .. Len(frames[t])
                           /\ Len(frames[t]) \in Nat
                           /\ \A i \in DOMAIN frames[t] :
                                frames[t][i].family \in Families
    <3>1. \A t \in Threads : frames[t] \in Seq(Frame)
      BY DEF WalkInv, TypeOK
    <3>2. \A w \in Frame : w.family \in Families
      BY DEF Frame
    <3> QED
      BY <3>1, <3>2, StackFacts
  <2> QED
    BY <2>1, <2>2, <2>3 DEF WalkInv, PointersChained
<1> QED
  BY <1>1, <1>2 DEF WalkInv

(* A refused call: -1 with a code, for a reason that is no walk's.         *)
LEMMA FailInv ==
  ASSUME WalkInv, NEW t \in Threads, NEW code \in Codes,
         NEW reason \in {"fault", "args"}, Fail(t, code, reason),
         UNCHANGED <<frames, active, errno>>
  PROVE  WalkInv'
<1> DEFINE o == [ret |-> -1, raised |-> code, reason |-> reason]
<1>1. last \in [Threads -> Outcome] /\ errno' \in [Threads -> Codes \cup {0}]
  BY DEF WalkInv, TypeOK
<1>2. last' = [last EXCEPT ![t] = o] /\ o \in Outcome
  BY DEF Fail, Outcome
<1>3. last' \in [Threads -> Outcome]
  BY <1>1, <1>2
<1>4. NoSpuriousError' /\ NativeFailureReported'
  BY <1>1, <1>2 DEF WalkInv, NoSpuriousError, NativeFailureReported
<1> QED
  BY <1>1, <1>3, <1>4, QuietInv

LEMMA InitInv == Init => WalkInv
<1> SUFFICES ASSUME Init PROVE WalkInv
  OBVIOUS
<1>1. \A t \in Threads : frames[t] = << >> /\ DOMAIN frames[t] = {}
  <2>1. DOMAIN << >> = {}
    OBVIOUS
  <2> QED
    BY <2>1 DEF Init
<1>2. frames \in [Threads -> Seq(Frame)]
  BY EmptySeq DEF Init
<1>3. NoOutcome \in Outcome
  BY DEF NoOutcome, Outcome
<1>4. TypeOK
  BY <1>2, <1>3 DEF Init, TypeOK, Address
<1>5. NoSpuriousError /\ NativeFailureReported
  BY DEF Init, NoOutcome, NoSpuriousError, NativeFailureReported
<1> QED
  BY <1>1, <1>4, <1>5
     DEF WalkInv, DispatchToOwner, PointersChained, EnclosingInCallback, VerdictsAgree

LEMMA NextInv == WalkInv /\ [Next]_vars => WalkInv'
<1> SUFFICES ASSUME WalkInv, [Next]_vars PROVE WalkInv'
  OBVIOUS
<1>1. ASSUME NEW t \in Threads, InjectedFault(t) PROVE WalkInv'
  BY <1>1, FailInv DEF InjectedFault
<1>2. ASSUME NEW t \in Threads, InvalidArguments(t) PROVE WalkInv'
  BY <1>2, FailInv, WalkAssumption DEF InvalidArguments, WalkAssumption
<1>3. ASSUME NEW t \in Threads, NEW cb \in Callbacks, StartFtw(t, cb) \/ StartNftw(t, cb)
      PROVE  WalkInv'
  BY <1>3, StartWalkInv DEF StartFtw, StartNftw, Families
<1>4. ASSUME NEW t \in Threads, CallFtwCallback(t) \/ CallNftwCallback(t)
      PROVE  WalkInv'
  BY <1>4, DispatchInv DEF CallFtwCallback, CallNftwCallback, Families
<1>5. ASSUME NEW t \in Threads, NEW r \in Results \cup {0}, CallbackReturns(t, r)
      PROVE  WalkInv'
  BY <1>5, CallbackReturnsInv
<1>6. ASSUME NEW t \in Threads, NativeEnds(t) PROVE WalkInv'
  BY <1>6, NativeEndsInv
<1>7. ASSUME NEW t \in Threads, ReturnFtw(t) \/ ReturnNftw(t) PROVE WalkInv'
  BY <1>7, EndWalkInv DEF ReturnFtw, ReturnNftw, Families
<1>8. ASSUME NEW t \in Threads, LongJump(t) PROVE WalkInv'
  BY <1>8, LongJumpInv
<1>9. ASSUME NEW t \in Threads, SetErrno(t) PROVE WalkInv'
  <2>1. /\ frames' = frames /\ active' = active /\ last' = last
        /\ errno' \in [Threads -> Codes \cup {0}]
    BY <1>9 DEF SetErrno, WalkInv, TypeOK
  <2>2. /\ last' \in [Threads -> Outcome]
        /\ NoSpuriousError' /\ NativeFailureReported'
    BY <2>1 DEF WalkInv, TypeOK, NoSpuriousError, NativeFailureReported
  <2> QED
    BY <2>1, <2>2, QuietInv
<1>10. CASE UNCHANGED vars
  <2>1. frames' = frames /\ active' = active /\ errno' = errno /\ last' = last
    BY <1>10 DEF vars
  <2>2. /\ last' \in [Threads -> Outcome] /\ errno' \in [Threads -> Codes \cup {0}]
        /\ NoSpuriousError' /\ NativeFailureReported'
    BY <2>1 DEF WalkInv, TypeOK, NoSpuriousError, NativeFailureReported
  <2> QED
    BY <2>1, <2>2, QuietInv
<1> QED
  BY <1>1, <1>2, <1>3, <1>4, <1>5, <1>6, <1>7, <1>8, <1>9, <1>10 DEF Next

-----------------------------------------------------------------------------
(* Without longjmp the pointers say exactly which walks there are: a is    *)
(* the address of the innermost walk of family f below depth n of thread   *)
(* t's stack s, or None when there is none.                                *)
Nearest(t, s, f, a, n) ==
  \/ a = None /\ \A j \in 1 .. n : s[j].family # f
  \/ \E i \in 1 .. n : /\ a = <<t, i>> /\ s[i].family = f
                       /\ \A j \in i + 1 .. n : s[j].family # f

PointersExact ==
  ~ Unwinds =>
    \A t \in Threads :
      /\ \A f \in Families : Nearest(t, frames[t], f, Active(t, f), Len(frames[t]))
      /\ \A k \in 1 .. Len(frames[t]) :
           Nearest(t, frames[t], frames[t][k].family, frames[t][k].previous, k - 1)

(* Nearest depends on the families below n only.                           *)
LEMMA NearestStable ==
  ASSUME NEW t, NEW s, NEW r, NEW f, NEW a, NEW n \in Int,
         \A j \in 1 .. n : r[j].family = s[j].family, Nearest(t, s, f, a, n)
  PROVE  Nearest(t, r, f, a, n)
<1>1. CASE a = None /\ \A j \in 1 .. n : s[j].family # f
  BY <1>1 DEF Nearest
<1>2. CASE \E i \in 1 .. n : /\ a = <<t, i>> /\ s[i].family = f
                             /\ \A j \in i + 1 .. n : s[j].family # f
  <2>1. PICK i \in 1 .. n : /\ a = <<t, i>> /\ s[i].family = f
                            /\ \A j \in i + 1 .. n : s[j].family # f
    BY <1>2
  <2>2. \A j \in i + 1 .. n : j \in 1 .. n
    BY <2>1
  <2>3. r[i].family = f /\ \A j \in i + 1 .. n : r[j].family # f
    BY <2>1, <2>2
  <2> QED
    BY <2>1, <2>3 DEF Nearest
<1> QED
  BY <1>1, <1>2 DEF Nearest

(* A walk of another family on top changes nothing for f.                  *)
LEMMA NearestSkips ==
  ASSUME NEW t, NEW s, NEW f, NEW a, NEW n \in Nat \ {0}, s[n].family # f
  PROVE  Nearest(t, s, f, a, n - 1) <=> Nearest(t, s, f, a, n)
<1>1. \A i \in 1 .. n : s[i].family = f => i \in 1 .. n - 1
  OBVIOUS
<1>2. \A i \in 0 .. n - 1 : \A j \in i + 1 .. n : j = n \/ j \in i + 1 .. n - 1
  OBVIOUS
<1>3. \A i \in 1 .. n - 1 : i \in 1 .. n
  OBVIOUS
<1>4. \A i \in 0 .. n - 1 : (\A j \in i + 1 .. n - 1 : s[j].family # f)
                               <=> (\A j \in i + 1 .. n : s[j].family # f)
  BY <1>2
<1>5. 0 \in 0 .. n - 1 /\ \A i \in 1 .. n - 1 : i \in 0 .. n - 1
  OBVIOUS
<1>6. (\A j \in 1 .. n - 1 : s[j].family # f) <=> (\A j \in 1 .. n : s[j].family # f)
  BY <1>2, <1>5
<1> QED
  BY <1>1, <1>3, <1>4, <1>5, <1>6 DEF Nearest

LEMMA ReplaceExact ==
  ASSUME WalkInv, PointersExact, NEW t \in Threads, NEW w, Replaces(t, w),
         active' = active
  PROVE  PointersExact'
<1>1. /\ frames \in [Threads -> Seq(Frame)]
      /\ \A u \in Threads : Len(frames'[u]) = Len(frames[u])
      /\ \A u \in Threads : \A i \in 1 .. Len(frames[u]) :
           frames'[u][i] = IF u = t /\ i = Len(frames[t]) THEN w ELSE frames[u][i]
  BY PokeFacts DEF WalkInv, TypeOK, Replaces
<1>2. \A u \in Threads : \A i \in 1 .. Len(frames[u]) :
        /\ frames'[u][i].family = frames[u][i].family
        /\ frames'[u][i].previous = frames[u][i].previous
  BY <1>1 DEF Replaces, Top, Innermost
<1>3. \A u \in Threads : Len(frames[u]) \in Nat
  BY <1>1, StackFacts
<1> SUFFICES ASSUME ~ Unwinds, NEW u \in Threads
             PROVE  /\ \A f \in Families :
                         Nearest(u, frames'[u], f, Active(u, f)', Len(frames'[u]))
                    /\ \A k \in 1 .. Len(frames'[u]) :
                         Nearest(u, frames'[u], frames'[u][k].family,
                                 frames'[u][k].previous, k - 1)
  BY DEF PointersExact
<1>4. ASSUME NEW f \in Families
      PROVE  Nearest(u, frames'[u], f, Active(u, f)', Len(frames'[u]))
  <2>1. Nearest(u, frames[u], f, Active(u, f), Len(frames[u]))
    BY DEF PointersExact
  <2>2. Nearest(u, frames'[u], f, Active(u, f), Len(frames[u]))
    BY <1>2, <1>3, <2>1, NearestStable
  <2> QED
    BY <1>1, <2>2 DEF Active
<1>5. ASSUME NEW k \in 1 .. Len(frames'[u])
      PROVE  Nearest(u, frames'[u], frames'[u][k].family, frames'[u][k].previous, k - 1)
  <2>1. /\ k \in 1 .. Len(frames[u]) /\ k - 1 \in Int
        /\ \A j \in 1 .. k - 1 : j \in 1 .. Len(frames[u])
    BY <1>1, <1>3
  <2>2. Nearest(u, frames[u], frames[u][k].family, frames[u][k].previous, k - 1)
    BY <2>1 DEF PointersExact
  <2>3. Nearest(u, frames'[u], frames[u][k].family, frames[u][k].previous, k - 1)
    BY <1>2, <2>1, <2>2, NearestStable
  <2> QED
    BY <1>2, <2>1, <2>3
<1> QED
  BY <1>4, <1>5

LEMMA StartWalkExact ==
  ASSUME WalkInv, PointersExact, NEW t \in Threads, NEW f \in Families,
         NEW cb \in Callbacks, StartWalk(t, f, cb)
  PROVE  PointersExact'
<1> DEFINE n == Len(frames[t])
           w == [family |-> f, callback |-> cb, stopped |-> FALSE,
                 previous |-> Active(t, f), phase |-> "walking",
                 context |-> None, running |-> None, ret |-> 0]
<1>0. /\ frames \in [Threads -> Seq(Frame)]
      /\ active \in [Threads -> [Families -> Address]]
  BY DEF WalkInv, TypeOK
<1>1. w \in Frame
  BY <1>0 DEF Frame, Address, Active, Slot, Phases, Ended
<1>2. /\ frames' = [frames EXCEPT ![t] = Append(@, w)]
      /\ active' = [active EXCEPT ![t][f] = <<t, n + 1>>]
      /\ w.family = f /\ w.previous = Active(t, f)
  BY DEF StartWalk, Publish, Slot
<1> HIDE DEF w
<1>3. /\ \A u \in Threads : Len(frames[u]) \in Nat
      /\ \A u \in Threads : Len(frames'[u]) = IF u = t THEN Len(frames[u]) + 1
                                                       ELSE Len(frames[u])
      /\ \A u \in Threads : \A i \in 1 .. Len(frames[u]) :
           frames'[u][i] = frames[u][i]
      /\ frames'[t][n + 1] = w
  BY <1>0, <1>1, <1>2, PushFacts, StackFacts
<1> SUFFICES ASSUME ~ Unwinds, NEW u \in Threads
             PROVE  /\ \A g \in Families :
                         Nearest(u, frames'[u], g, Active(u, g)', Len(frames'[u]))
                    /\ \A k \in 1 .. Len(frames'[u]) :
                         Nearest(u, frames'[u], frames'[u][k].family,
                                 frames'[u][k].previous, k - 1)
  BY DEF PointersExact
<1>4. \A g \in Families : Nearest(u, frames'[u], g, Active(u, g), Len(frames[u]))
  <2>1. \A g \in Families : Nearest(u, frames[u], g, Active(u, g), Len(frames[u]))
    BY DEF PointersExact
  <2> QED
    BY <1>3, <2>1, NearestStable
<1>5. ASSUME NEW g \in Families
      PROVE  Nearest(u, frames'[u], g, Active(u, g)', Len(frames'[u]))
  <2>1. CASE u = t /\ g = f
    <3>1. /\ active'[t][f] = <<t, n + 1>> /\ n + 1 \in 1 .. n + 1
          /\ (n + 1) + 1 .. n + 1 = {}
      BY <1>0, <1>2, <1>3
    <3> QED
      BY <1>2, <1>3, <2>1, <3>1 DEF Nearest, Active, Slot
  <2>2. CASE u = t /\ g # f
    <3>1. active'[t][g] = active[t][g] /\ n + 1 \in Nat \ {0} /\ n + 1 - 1 = n
      BY <1>0, <1>2, <1>3, <2>2
    <3>2. frames'[t][n + 1].family # g
      BY <1>2, <1>3, <2>2
    <3>3. Nearest(t, frames'[t], g, active[t][g], n + 1 - 1)
      BY <1>4, <2>2, <3>1 DEF Active, Slot
    <3>4. Nearest(t, frames'[t], g, active[t][g], n + 1)
      BY <3>1, <3>2, <3>3, NearestSkips
    <3> QED
      BY <1>3, <2>2, <3>1, <3>4 DEF Active, Slot
  <2>3. CASE u # t
    <3>1. active'[u] = active[u]
      BY <1>0, <1>2, <2>3
    <3> QED
      BY <1>3, <1>4, <2>3, <3>1 DEF Active, Slot
  <2> QED
    BY <2>1, <2>2, <2>3
<1>6. ASSUME NEW k \in 1 .. Len(frames'[u])
      PROVE  Nearest(u, frames'[u], frames'[u][k].family, frames'[u][k].previous, k - 1)
  <2>1. CASE u = t /\ k = n + 1
    <3>1. frames'[u][k].family = f /\ frames'[u][k].previous = Active(t, f) /\ k - 1 = n
      BY <1>2, <1>3, <2>1
    <3> QED
      BY <1>4, <2>1, <3>1
  <2>2. CASE ~ (u = t /\ k = n + 1)
    <3>1. /\ k \in 1 .. Len(frames[u]) /\ k - 1 \in Int
          /\ \A j \in 1 .. k - 1 : j \in 1 .. Len(frames[u])
      BY <1>3, <2>2
    <3>2. Nearest(u, frames[u], frames[u][k].family, frames[u][k].previous, k - 1)
      BY <3>1 DEF PointersExact
    <3>3. \A j \in 1 .. k - 1 : frames'[u][j].family = frames[u][j].family
      BY <1>3, <3>1
    <3>4. Nearest(u, frames'[u], frames[u][k].family, frames[u][k].previous, k - 1)
      BY <3>1, <3>2, <3>3, NearestStable
    <3> QED
      BY <1>3, <3>1, <3>4
  <2> QED
    BY <2>1, <2>2
<1> QED
  BY <1>5, <1>6

LEMMA EndWalkExact ==
  ASSUME WalkInv, PointersExact, NEW t \in Threads, NEW f \in Families, EndWalk(t, f)
  PROVE  PointersExact'
<1> DEFINE n == Len(frames[t])
<1>1. /\ frames \in [Threads -> Seq(Frame)]
      /\ active \in [Threads -> [Families -> Address]]
      /\ n \in Nat \ {0} /\ Top(t) = frames[t][n] /\ Top(t).family = f
  BY TopFacts DEF EndWalk, WalkInv, TypeOK
<1>2. /\ active' = [active EXCEPT ![t][f] = Top(t).previous]
      /\ frames' = [frames EXCEPT ![t] = SubSeq(@, 1, n - 1)]
  BY DEF EndWalk, Publish, Slot, Restored
<1>3. n - 1 \in 0 .. Len(frames[t])
  BY <1>1
<1>4. /\ \A u \in Threads : Len(frames'[u]) = IF u = t THEN n - 1 ELSE Len(frames[u])
      /\ \A u \in Threads : \A i \in 1 .. Len(frames[u]) :
           (u = t => i <= n - 1) => frames'[u][i] = frames[u][i]
  BY <1>1, <1>2, <1>3, CutFacts
<1>5. \A u \in Threads : Len(frames[u]) \in Nat
  BY <1>1, StackFacts
<1>6. \A u \in Threads : /\ Len(frames'[u]) \in Nat /\ Len(frames'[u]) <= Len(frames[u])
                         /\ \A i \in 1 .. Len(frames'[u]) : frames'[u][i] = frames[u][i]
  BY <1>1, <1>4, <1>5
<1> SUFFICES ASSUME ~ Unwinds, NEW u \in Threads
             PROVE  /\ \A g \in Families :
                         Nearest(u, frames'[u], g, Active(u, g)', Len(frames'[u]))
                    /\ \A k \in 1 .. Len(frames'[u]) :
                         Nearest(u, frames'[u], frames'[u][k].family,
                                 frames'[u][k].previous, k - 1)
  BY DEF PointersExact
<1>7. ASSUME NEW g \in Families
      PROVE  Nearest(u, frames'[u], g, Active(u, g)', Len(frames'[u]))
  <2>1. CASE u = t /\ g = f
    <3>1. active'[u][g] = frames[t][n].previous
      BY <1>1, <1>2, <2>1
    <3>2. n \in 1 .. Len(frames[t])
      BY <1>1
    <3>3. Nearest(u, frames[u], g, active'[u][g], Len(frames'[u]))
      BY <1>1, <1>4, <2>1, <3>1, <3>2 DEF PointersExact
    <3> QED
      BY <1>6, <3>3, NearestStable DEF Active, Slot
  <2>2. CASE u = t /\ g # f
    <3>1. active'[u][g] = active[u][g]
      BY <1>1, <1>2, <2>2
    <3>2. Nearest(u, frames[u], g, active[u][g], n)
      BY <2>2 DEF PointersExact, Active, Slot
    <3>3. Nearest(u, frames[u], g, active[u][g], n - 1)
      BY <1>1, <2>2, <3>2, NearestSkips
    <3> QED
      BY <1>4, <1>6, <2>2, <3>1, <3>3, NearestStable DEF Active, Slot
  <2>3. CASE u # t
    <3>1. active'[u] = active[u] /\ Len(frames'[u]) = Len(frames[u])
      BY <1>1, <1>2, <1>4, <2>3
    <3>2. Nearest(u, frames[u], g, active[u][g], Len(frames[u]))
      BY DEF PointersExact, Active, Slot
    <3> QED
      BY <1>6, <3>1, <3>2, NearestStable DEF Active, Slot
  <2> QED
    BY <2>1, <2>2, <2>3
<1>8. ASSUME NEW k \in 1 .. Len(frames'[u])
      PROVE  Nearest(u, frames'[u], frames'[u][k].family, frames'[u][k].previous, k - 1)
  <2>1. /\ k \in 1 .. Len(frames[u]) /\ k - 1 \in Int
        /\ \A j \in 1 .. k - 1 : j \in 1 .. Len(frames'[u])
    BY <1>5, <1>6
  <2>2. Nearest(u, frames[u], frames[u][k].family, frames[u][k].previous, k - 1)
    BY <2>1 DEF PointersExact
  <2>3. Nearest(u, frames'[u], frames[u][k].family, frames[u][k].previous, k - 1)
    BY <1>6, <2>1, <2>2, NearestStable
  <2> QED
    BY <1>6, <2>3
<1> QED
  BY <1>7, <1>8

LEMMA NextExact == WalkInv /\ PointersExact /\ [Next]_vars => PointersExact'
<1> SUFFICES ASSUME WalkInv, PointersExact, [Next]_vars PROVE PointersExact'
  OBVIOUS
<1>1. ASSUME frames' = frames, active' = active PROVE PointersExact'
  BY <1>1 DEF PointersExact, Active
<1>2. ASSUME NEW t \in Threads, InjectedFault(t) \/ InvalidArguments(t) \/ SetErrno(t)
      PROVE  PointersExact'
  BY <1>1, <1>2 DEF InjectedFault, InvalidArguments, SetErrno
<1>3. ASSUME NEW t \in Threads, NEW cb \in Callbacks, StartFtw(t, cb) \/ StartNftw(t, cb)
      PROVE  PointersExact'
  BY <1>3, StartWalkExact DEF StartFtw, StartNftw, Families
<1>4. ASSUME NEW t \in Threads, CallFtwCallback(t) \/ CallNftwCallback(t)
      PROVE  PointersExact'
  BY <1>4, DispatchEffect, ReplaceExact DEF CallFtwCallback, CallNftwCallback, Families
<1>5. ASSUME NEW t \in Threads, NEW r \in Results \cup {0}, CallbackReturns(t, r)
      PROVE  PointersExact'
  BY <1>5, CallbackReturnsEffect, ReplaceExact
<1>6. ASSUME NEW t \in Threads, NativeEnds(t) PROVE PointersExact'
  BY <1>6, NativeEndsEffect, ReplaceExact
<1>7. ASSUME NEW t \in Threads, ReturnFtw(t) \/ ReturnNftw(t) PROVE PointersExact'
  BY <1>7, EndWalkExact DEF ReturnFtw, ReturnNftw, Families
<1>8. ASSUME NEW t \in Threads, LongJump(t) PROVE PointersExact'
  BY <1>8 DEF LongJump, PointersExact
<1>9. CASE UNCHANGED vars
  BY <1>1, <1>9 DEF vars
<1> QED
  BY <1>2, <1>3, <1>4, <1>5, <1>6, <1>7, <1>8, <1>9 DEF Next

LEMMA InitExact == Init => PointersExact
<1> SUFFICES ASSUME Init PROVE PointersExact
  OBVIOUS
<1>1. ASSUME NEW t \in Threads
      PROVE  frames[t] = << >> /\ Len(frames[t]) = 0
             /\ \A f \in Families : Active(t, f) = None
  BY EmptySeq DEF Init, Active, Slot
<1>2. 1 .. 0 = {}
  OBVIOUS
<1> QED
  BY <1>1, <1>2 DEF PointersExact, Nearest

LEMMA ExactIsLive == WalkInv /\ PointersExact => NothingDangles
<1> SUFFICES ASSUME WalkInv, PointersExact, ~ Unwinds, NEW t \in Threads,
                    NEW f \in Families, Active(t, f) # None
             PROVE  Live(Active(t, f), f)
  BY DEF NothingDangles
<1>1. PICK i \in 1 .. Len(frames[t]) :
        Active(t, f) = <<t, i>> /\ frames[t][i].family = f
  BY DEF PointersExact, Nearest
<1>2. DOMAIN frames[t] = 1 .. Len(frames[t])
  BY StackFacts DEF WalkInv, TypeOK
<1>3. <<t, i>>[1] = t /\ <<t, i>>[2] = i
  OBVIOUS
<1> QED
  BY <1>1, <1>2, <1>3 DEF Live

-----------------------------------------------------------------------------
(* How each step of a walk changes the height of its thread's stack.       *)
LEMMA StartIsHigher ==
  ASSUME WalkInv, NEW t \in Threads, NEW f \in Families, NEW cb \in Callbacks,
         StartWalk(t, f, cb)
  PROVE  Len(frames'[t]) = Len(frames[t]) + 1
<1> DEFINE w == [family |-> f, callback |-> cb, stopped |-> FALSE,
                 previous |-> Active(t, f), phase |-> "walking",
                 context |-> None, running |-> None, ret |-> 0]
<1>1. frames \in [Threads -> Seq(Frame)] /\ active \in [Threads -> [Families -> Address]]
  BY DEF WalkInv, TypeOK
<1>2. w \in Frame
  BY <1>1 DEF Frame, Address, Active, Slot, Phases, Ended
<1>3. frames' = [frames EXCEPT ![t] = Append(@, w)]
  BY DEF StartWalk
<1> HIDE DEF w
<1> QED
  BY <1>1, <1>2, <1>3, PushFacts

LEMMA ReplaceIsLevel ==
  ASSUME WalkInv, NEW t \in Threads, NEW w, Replaces(t, w)
  PROVE  Len(frames'[t]) = Len(frames[t])
BY PokeFacts DEF WalkInv, TypeOK, Replaces

LEMMA StepIsLevel ==
  ASSUME WalkInv, NEW t \in Threads,
         \/ CallFtwCallback(t) \/ CallNftwCallback(t)
         \/ \E r \in Results \cup {0} : CallbackReturns(t, r)
         \/ NativeEnds(t)
  PROVE  Len(frames'[t]) = Len(frames[t])
<1>1. ASSUME NEW f \in Families, Dispatch(t, f)
      PROVE  Len(frames'[t]) = Len(frames[t])
  BY <1>1, DispatchEffect, ReplaceIsLevel
<1>2. ASSUME NEW r \in Results \cup {0}, CallbackReturns(t, r)
      PROVE  Len(frames'[t]) = Len(frames[t])
  BY <1>2, CallbackReturnsEffect, ReplaceIsLevel
<1>3. CASE NativeEnds(t)
  BY <1>3, NativeEndsEffect, ReplaceIsLevel
<1> QED
  BY <1>1, <1>2, <1>3 DEF CallFtwCallback, CallNftwCallback, Families

(* The walk below an ended one is in its callback.                         *)
LEMMA EndIsLower ==
  ASSUME WalkInv, NEW t \in Threads, NEW f \in Families, EndWalk(t, f)
  PROVE  Len(frames'[t]) = Len(frames[t]) - 1 /\ InApplication(frames'[t])
<1> DEFINE n == Len(frames[t])
           d == n - 1
<1>1. n \in Nat \ {0} /\ DOMAIN frames[t] = 1 .. n
  BY TopFacts, StackFacts DEF EndWalk
<1>2. d \in 0 .. Len(frames[t]) /\ d \in Nat
  BY <1>1
<1>3. frames \in [Threads -> Seq(Frame)] /\ frames' = [frames EXCEPT ![t] = SubSeq(@, 1, d)]
  BY DEF WalkInv, TypeOK, EndWalk
<1> HIDE DEF d
<1>4. /\ frames'[t] \in Seq(Frame) /\ Len(frames'[t]) = d
      /\ \A i \in 1 .. n : i <= d => frames'[t][i] = frames[t][i]
  BY <1>2, <1>3, CutFacts
<1>5. ASSUME frames'[t] # << >>
      PROVE  Innermost(frames'[t]).phase = "callback"
  <2>1. d \in 1 .. n /\ d < n
    BY <1>1, <1>4, <1>5, StackFacts DEF d
  <2>2. frames'[t][d] = frames[t][d]
    BY <1>2, <1>4, <2>1
  <2>3. frames[t][d].phase = "callback"
    BY <1>1, <2>1 DEF WalkInv, EnclosingInCallback
  <2> QED
    BY <1>4, <2>2, <2>3 DEF Innermost
<1> QED
  BY <1>4, <1>5 DEF InApplication, Outermost, d

-----------------------------------------------------------------------------
(* TreeWalk implements TreeWalkContract: the contract's walks are the      *)
(* frames without the pointers, and forgetting commutes with each of the   *)
(* three ways a stack changes.                                             *)
View(w) == [family |-> w.family, callback |-> w.callback, phase |-> w.phase,
            running |-> w.running, stopped |-> w.stopped, ret |-> w.ret]

Mapped == [t \in Threads |-> Walks(frames[t])]

Views == [family : Families, callback : Callbacks, phase : Phases,
          running : Callbacks \cup {None}, stopped : BOOLEAN,
          ret : Results \cup {-1, 0}]

LEMMA WalksFacts ==
  ASSUME NEW s \in Seq(Frame)
  PROVE  /\ Walks(s) \in Seq(Views)
         /\ Len(Walks(s)) = Len(s)
         /\ \A i \in 1 .. Len(s) : Walks(s)[i] = View(s[i])
<1>1. /\ Len(s) \in Nat /\ DOMAIN s = 1 .. Len(s)
      /\ \A i \in 1 .. Len(s) : s[i] \in Frame
  BY StackFacts
<1>2. Walks(s) = [i \in 1 .. Len(s) |-> View(s[i])]
  BY <1>1 DEF Walks, View
<1>3. \A w \in Frame : View(w) \in Views
  BY DEF Frame, View, Views
<1>4. Walks(s) \in [1 .. Len(s) -> Views]
  BY <1>1, <1>2, <1>3
<1>5. Walks(s) \in Seq(Views)
  BY <1>1, <1>4, SeqDef
<1>6. Len(Walks(s)) = Len(s)
  <2>1. DOMAIN Walks(s) = 1 .. Len(s)
    BY <1>4
  <2>2. Len(Walks(s)) \in Nat /\ DOMAIN Walks(s) = 1 .. Len(Walks(s))
    BY <1>5, LenProperties
  <2> QED
    BY <1>1, <2>1, <2>2
<1> QED
  BY <1>2, <1>5, <1>6

(* Two stacks of views are equal if they agree frame by frame.             *)
LEMMA WalksEqual ==
  ASSUME NEW s \in Seq(Frame), NEW v \in Seq(Views), Len(v) = Len(s),
         \A i \in 1 .. Len(s) : v[i] = View(s[i])
  PROVE  v = Walks(s)
BY WalksFacts, SeqEqual

LEMMA WalksPush ==
  ASSUME NEW s \in Seq(Frame), NEW w \in Frame
  PROVE  Walks(Append(s, w)) = Append(Walks(s), View(w))
<1> DEFINE v == Append(Walks(s), View(w))
<1>1. View(w) \in Views
  BY DEF Frame, View, Views
<1>2. /\ Walks(s) \in Seq(Views) /\ Len(Walks(s)) = Len(s) /\ Len(s) \in Nat
      /\ \A i \in 1 .. Len(s) : Walks(s)[i] = View(s[i])
  BY WalksFacts, StackFacts
<1>3. /\ v \in Seq(Views) /\ Len(v) = Len(s) + 1
      /\ \A i \in 1 .. Len(s) : v[i] = View(s[i])
      /\ v[Len(s) + 1] = View(w)
  BY <1>1, <1>2, AppendProperties
<1>4. /\ Append(s, w) \in Seq(Frame) /\ Len(Append(s, w)) = Len(s) + 1
      /\ \A i \in 1 .. Len(s) : Append(s, w)[i] = s[i]
      /\ Append(s, w)[Len(s) + 1] = w
  BY AppendProperties
<1> HIDE DEF v
<1>5. \A i \in 1 .. Len(s) + 1 : v[i] = View(Append(s, w)[i])
  BY <1>2, <1>3, <1>4
<1>6. v = Walks(Append(s, w))
  BY <1>3, <1>4, <1>5, WalksEqual
<1> QED
  BY <1>6 DEF v

LEMMA WalksPoke ==
  ASSUME NEW s \in Seq(Frame), ~ Outermost(s), NEW w \in Frame
  PROVE  Walks(SetInnermost(s, w)) = SetInnermost(Walks(s), View(w))
<1> DEFINE v == SetInnermost(Walks(s), View(w))
           r == SetInnermost(s, w)
<1>1. View(w) \in Views
  BY DEF Frame, View, Views
<1>2. /\ Walks(s) \in Seq(Views) /\ Len(Walks(s)) = Len(s)
      /\ Len(s) \in 1 .. Len(s) /\ Len(s) \in Nat \ {0}
      /\ \A i \in 1 .. Len(s) : Walks(s)[i] = View(s[i])
  BY WalksFacts, StackFacts DEF Outermost
<1>3. /\ v \in Seq(Views) /\ Len(v) = Len(s)
      /\ \A i \in 1 .. Len(s) : v[i] = IF i = Len(s) THEN View(w) ELSE Walks(s)[i]
  BY <1>1, <1>2, ExceptSeq DEF SetInnermost
<1>4. /\ r \in Seq(Frame) /\ Len(r) = Len(s)
      /\ \A i \in 1 .. Len(s) : r[i] = IF i = Len(s) THEN w ELSE s[i]
  BY <1>2, ExceptSeq DEF SetInnermost
<1> HIDE DEF v, r
<1>5. \A i \in 1 .. Len(s) : v[i] = View(r[i])
  BY <1>2, <1>3, <1>4
<1>6. v = Walks(r)
  BY <1>3, <1>4, <1>5, WalksEqual
<1> QED
  BY <1>6 DEF v, r

LEMMA WalksCut ==
  ASSUME NEW s \in Seq(Frame), NEW d \in 0 .. Len(s)
  PROVE  Walks(SubSeq(s, 1, d)) = SubSeq(Walks(s), 1, d)
<1> DEFINE v == SubSeq(Walks(s), 1, d)
           r == SubSeq(s, 1, d)
<1>1. /\ Walks(s) \in Seq(Views) /\ Len(Walks(s)) = Len(s)
      /\ Len(s) \in Nat /\ d \in Nat /\ d <= Len(s)
      /\ \A i \in 1 .. Len(s) : Walks(s)[i] = View(s[i])
      /\ \A i \in 1 .. d : s[i] \in Frame
  BY WalksFacts, StackFacts
<1>2. \A i \in 1 .. d : Walks(s)[i] \in Views /\ Walks(s)[i] = View(s[i])
  <2>1. \A i \in 1 .. d : i \in 1 .. Len(s)
    BY <1>1
  <2> QED
    BY <1>1, <2>1 DEF View, Views, Frame
<1>3. (IF 1 <= d THEN d - 1 + 1 ELSE 0) = d /\ d - 1 + 1 = d
      /\ \A i \in 1 .. d : 1 + i - 1 = i
  BY <1>1
<1>4. v \in Seq(Views) /\ Len(v) = d /\ \A i \in 1 .. d : v[i] = Walks(s)[i]
  <2>1. /\ v \in Seq(Views)
        /\ Len(v) = IF 1 <= d THEN d - 1 + 1 ELSE 0
        /\ \A i \in 1 .. d - 1 + 1 : v[i] = Walks(s)[1 + i - 1]
    BY <1>1, <1>2, SubSeqProperties
  <2> HIDE DEF v
  <2> QED
    BY <1>3, <2>1
<1>5. r \in Seq(Frame) /\ Len(r) = d /\ \A i \in 1 .. d : r[i] = s[i]
  <2>1. /\ r \in Seq(Frame)
        /\ Len(r) = IF 1 <= d THEN d - 1 + 1 ELSE 0
        /\ \A i \in 1 .. d - 1 + 1 : r[i] = s[1 + i - 1]
    BY <1>1, SubSeqProperties
  <2> HIDE DEF r
  <2> QED
    BY <1>3, <2>1
<1> HIDE DEF v, r
<1>6. \A i \in 1 .. Len(r) : v[i] = View(r[i])
  BY <1>2, <1>4, <1>5
<1>7. v = Walks(r)
  BY <1>4, <1>5, <1>6, WalksEqual
<1> QED
  BY <1>7 DEF v, r

(* A stack and its walks are outermost, and in application code, together; *)
(* and their innermost walks correspond.                                   *)
LEMMA WalksTop ==
  ASSUME NEW s \in Seq(Frame)
  PROVE  /\ Outermost(Walks(s)) <=> Outermost(s)
         /\ InApplication(Walks(s)) <=> InApplication(s)
         /\ ~ Outermost(s) => Innermost(Walks(s)) = View(Innermost(s))
<1>1. /\ Walks(s) \in Seq(Views) /\ Len(Walks(s)) = Len(s)
      /\ \A i \in 1 .. Len(s) : Walks(s)[i] = View(s[i])
  BY WalksFacts
<1>2. Outermost(Walks(s)) <=> Outermost(s)
  <2>1. \A S : \A q \in Seq(S) : q = << >> <=> Len(q) = 0
    BY EmptySeq
  <2> QED
    BY <1>1, <2>1 DEF Outermost
<1>3. ASSUME ~ Outermost(s) PROVE Innermost(Walks(s)) = View(Innermost(s))
  <2>1. Len(s) \in 1 .. Len(s)
    BY <1>3, StackFacts DEF Outermost
  <2> QED
    BY <1>1, <2>1 DEF Innermost
<1>4. \A w : View(w).phase = w.phase
  BY DEF View
<1> QED
  BY <1>2, <1>3, <1>4 DEF InApplication

(* What the contract sees of a step that makes r of thread t's stack.      *)
LEMMA MappedStep ==
  ASSUME WalkInv, NEW t \in Threads, NEW r, frames' = [frames EXCEPT ![t] = r]
  PROVE  /\ frames[t] \in Seq(Frame) /\ Mapped[t] = Walks(frames[t])
         /\ Mapped' = [Mapped EXCEPT ![t] = Walks(r)]
<1>1. frames \in [Threads -> Seq(Frame)]
  BY DEF WalkInv, TypeOK
<1>2. Mapped' = [u \in Threads |-> Walks(frames'[u])]
  BY DEF Mapped, Walks
<1>3. \A u \in Threads : frames'[u] = IF u = t THEN r ELSE frames[u]
  BY <1>1
<1>4. Mapped = [u \in Threads |-> Walks(frames[u])]
  BY DEF Mapped
<1> HIDE DEF Mapped
<1>5. \A u \in Threads : Walks(frames'[u]) = IF u = t THEN Walks(r) ELSE Walks(frames[u])
  BY <1>3
<1>6. [u \in Threads |-> Walks(frames'[u])]
        = [[u \in Threads |-> Walks(frames[u])] EXCEPT ![t] = Walks(r)]
  BY <1>5
<1> QED
  BY <1>1, <1>2, <1>4, <1>6

LEMMA StackOf ==
  ASSUME WalkInv, NEW t \in Threads
  PROVE  /\ frames[t] \in Seq(Frame) /\ Mapped[t] = Walks(frames[t])
         /\ Outermost(Mapped[t]) <=> Outermost(frames[t])
         /\ InApplication(Mapped[t]) <=> InApplication(frames[t])
         /\ ~ Outermost(frames[t]) => Innermost(Mapped[t]) = View(Top(t))
         /\ Len(Mapped[t]) = Len(frames[t])
<1>1. frames[t] \in Seq(Frame) /\ Mapped[t] = Walks(frames[t])
  BY DEF WalkInv, TypeOK, Mapped
<1> QED
  BY <1>1, WalksTop, WalksFacts DEF Top

(* Replacing the innermost frame replaces the innermost walk by its view.  *)
LEMMA MappedPoke ==
  ASSUME WalkInv, NEW t \in Threads, NEW w, Replaces(t, w)
  PROVE  Mapped' = [Mapped EXCEPT ![t] = SetInnermost(@, View(w))]
<1>1. ~ Outermost(frames[t]) /\ w \in Frame
      /\ frames' = [frames EXCEPT ![t] = SetInnermost(frames[t], w)]
  BY DEF Replaces, SetTop
<1>2. /\ frames[t] \in Seq(Frame) /\ Mapped[t] = Walks(frames[t])
      /\ Mapped' = [Mapped EXCEPT ![t] = Walks(SetInnermost(frames[t], w))]
  BY <1>1, MappedStep
<1>3. Walks(SetInnermost(frames[t], w)) = SetInnermost(Walks(frames[t]), View(w))
  BY <1>1, <1>2, WalksPoke
<1> QED
  BY <1>2, <1>3

(* The contract's copies of the shared vocabulary mean the same.           *)
LEMMA SameVocabulary ==
  /\ Contract!Families = Families /\ Contract!Ended = Ended
  /\ Contract!NoOutcome = NoOutcome
  /\ \A s : Contract!Outermost(s) <=> Outermost(s)
  /\ \A s : Contract!Innermost(s) = Innermost(s)
  /\ \A s : Contract!InApplication(s) <=> InApplication(s)
  /\ \A s, w : Contract!SetInnermost(s, w) = SetInnermost(s, w)
  /\ \A f, r : Contract!GoesOn(f, r) <=> GoesOn(f, r)
BY DEF Contract!Families, Families, Contract!Ended, Ended, Contract!Outermost,
       Outermost, Contract!Innermost, Innermost, Contract!InApplication,
       InApplication, Contract!SetInnermost, SetInnermost, Contract!GoesOn, GoesOn,
       Contract!NoOutcome, NoOutcome

Fields == {"family", "callback", "phase", "running", "stopped", "ret"}
LEMMA ViewFields ==
  ASSUME NEW w
  PROVE  View(w) = [k \in Fields |-> w[k]]
<1> DEFINE v == View(w)
<1>1. v = [k \in DOMAIN v |-> v[k]] /\ DOMAIN v = Fields
  BY DEF View, Fields
<1>2. \A k \in Fields : v[k] = w[k]
  BY DEF View, Fields
<1> HIDE DEF v
<1>3. v = [k \in Fields |-> w[k]]
  BY <1>1, <1>2
<1> QED
  BY <1>3 DEF v

LEMMA FrameDomain ==
  ASSUME NEW w \in Frame
  PROVE  Fields \subseteq DOMAIN w
BY DEF Frame, Fields

LEMMA ViewCalls ==
  ASSUME NEW w \in Frame, NEW v, v = View(w), NEW c
  PROVE  View([w EXCEPT !.phase = "callback", !.context = c, !.running = w.callback])
           = [v EXCEPT !.phase = "callback", !.running = v.callback]
<1> DEFINE x == [w EXCEPT !.phase = "callback", !.context = c, !.running = w.callback]
<1>1. View(x) = [k \in Fields |-> x[k]]
  BY ViewFields
<1>2. v = [k \in Fields |-> w[k]]
  BY ViewFields
<1>3. v.callback = w.callback
  BY DEF View
<1>4. \A k \in Fields :
        x[k] = [v EXCEPT !.phase = "callback", !.running = v.callback][k]
  BY FrameDomain, <1>2, <1>3 DEF Fields
<1> QED
  BY <1>1, <1>2, <1>4
LEMMA RefusalMaps ==
  ASSUME WalkInv, NEW t \in Threads, InjectedFault(t) \/ InvalidArguments(t)
  PROVE  Contract!Refuse(t)
<1>1. InApplication(frames[t]) /\ frames' = frames /\ errno' = errno
  BY DEF InjectedFault, InvalidArguments
<1>2. \E code \in Codes, reason \in {"fault", "args"} :
        last' = [last EXCEPT ![t] = [ret |-> -1, raised |-> code, reason |-> reason]]
  <2>1. CASE InjectedFault(t)
    BY <2>1 DEF InjectedFault, Fail
  <2>2. CASE InvalidArguments(t)
    BY <2>2, WalkAssumption DEF InvalidArguments, Fail, WalkAssumption
  <2> QED
    BY <2>1, <2>2
<1>3. InApplication(Mapped[t]) /\ Mapped' = Mapped
  BY <1>1, StackOf DEF Mapped, Walks
<1> QED
  BY <1>1, <1>2, <1>3, SameVocabulary DEF Contract!Refuse, Mapped

LEMMA StartMaps ==
  ASSUME WalkInv, NEW t \in Threads, NEW f \in Families, NEW cb \in Callbacks,
         StartWalk(t, f, cb)
  PROVE  Contract!Begin(t, f, cb)
<1> DEFINE w == [family |-> f, callback |-> cb, stopped |-> FALSE,
                 previous |-> Active(t, f), phase |-> "walking",
                 context |-> None, running |-> None, ret |-> 0]
           v == [family |-> f, callback |-> cb, phase |-> "walking",
                 running |-> None, stopped |-> FALSE, ret |-> 0]
<1>1. /\ InApplication(frames[t]) /\ Len(frames[t]) < MaxDepth
      /\ frames' = [frames EXCEPT ![t] = Append(frames[t], w)]
      /\ errno' = [errno EXCEPT ![t] = 0] /\ last' = last
  BY DEF StartWalk
<1>2. w \in Frame
  BY DEF WalkInv, TypeOK, Frame, Address, Active, Slot, Phases, Ended
<1>3. View(w) = v
  BY DEF View
<1> HIDE DEF w
<1>4. /\ frames[t] \in Seq(Frame) /\ Mapped[t] = Walks(frames[t])
      /\ Mapped' = [Mapped EXCEPT ![t] = Walks(Append(frames[t], w))]
  BY <1>1, MappedStep
<1>5. Walks(Append(frames[t], w)) = Append(Walks(frames[t]), v)
  BY <1>2, <1>3, <1>4, WalksPush
<1>6. Mapped' = [Mapped EXCEPT ![t] = Append(Mapped[t], v)]
  BY <1>4, <1>5
<1>7. InApplication(Mapped[t]) /\ Len(Mapped[t]) < MaxDepth
  BY <1>1, StackOf
<1> QED
  BY <1>1, <1>6, <1>7, SameVocabulary DEF Contract!Begin, Mapped

LEMMA DispatchMaps ==
  ASSUME WalkInv, NEW t \in Threads, NEW f \in Families, Dispatch(t, f)
  PROVE  Contract!Deliver(t)
<1>1. /\ Replaces(t, Called(t)) /\ Top(t).phase = "walking"
      /\ errno' = errno /\ last' = last
  BY DispatchEffect
<1>2. ~ Outermost(frames[t]) /\ Top(t) \in Frame
  BY <1>1, TopFacts DEF Replaces
<1> DEFINE v == Innermost(Mapped[t])
<1>3. ~ Outermost(Mapped[t]) /\ v = View(Top(t))
  BY <1>2, StackOf
<1>4. View(Called(t)) = [v EXCEPT !.phase = "callback", !.running = v.callback]
  <2> HIDE DEF v
  <2> QED
    BY <1>2, <1>3, ViewCalls DEF Called
<1>5. v.phase = "walking"
  BY <1>1, <1>3 DEF View
<1>6. Mapped' = [Mapped EXCEPT ![t] = SetInnermost(@, View(Called(t)))]
  BY <1>1, MappedPoke
<1> QED
  BY <1>1, <1>3, <1>4, <1>5, <1>6, SameVocabulary DEF Contract!Deliver, Mapped

LEMMA AnswerMaps ==
  ASSUME WalkInv, NEW t \in Threads, NEW r \in Results \cup {0},
         CallbackReturns(t, r)
  PROVE  Contract!Answer(t, r)
<1>1. /\ Replaces(t, AfterAnswer(t, r)) /\ Top(t).phase = "callback"
      /\ errno' = errno /\ last' = last
  BY CallbackReturnsEffect
<1>2. ~ Outermost(frames[t]) /\ Top(t) \in Frame
  BY <1>1, TopFacts DEF Replaces
<1> DEFINE v == Innermost(Mapped[t])
           on == GoesOn(v.family, r)
           x == [v EXCEPT !.phase = IF on THEN "walking" ELSE "stopped",
                          !.running = None,
                          !.stopped = v.stopped \/ r # 0,
                          !.ret = IF on THEN 0 ELSE r]
<1>3. ~ Outermost(Mapped[t]) /\ v = View(Top(t))
  BY <1>2, StackOf
<1>4. v.family = Top(t).family /\ v.stopped = Top(t).stopped /\ v.phase = "callback"
  BY <1>1, <1>3 DEF View
<1>5. View(AfterAnswer(t, r)) = x
  <2> DEFINE go == GoesOn(Top(t).family, r)
             ph == IF go THEN "walking" ELSE "stopped"
             rv == IF go THEN 0 ELSE r
             st == Top(t).stopped \/ r # 0
  <2>1. x = [View(Top(t)) EXCEPT !.phase = ph, !.running = None,
                                 !.stopped = st, !.ret = rv]
    BY <1>3, <1>4
  <2>2. AfterAnswer(t, r) = [Top(t) EXCEPT !.stopped = st, !.phase = ph,
                               !.context = None, !.running = None, !.ret = rv]
    BY DEF AfterAnswer
  <2> HIDE DEF ph, rv, st, x
  <2> QED
    BY <1>2, <2>1, <2>2 DEF View, Frame
<1>6. Mapped' = [Mapped EXCEPT ![t] = SetInnermost(@, x)]
  BY <1>1, <1>5, MappedPoke
<1> QED
  BY <1>1, <1>3, <1>4, <1>6, SameVocabulary DEF Contract!Answer, Mapped

LEMMA FinishMaps ==
  ASSUME WalkInv, NEW t \in Threads, NativeEnds(t)
  PROVE  Contract!Finish(t)
<1>1. /\ Replaces(t, AtEnd(t, "done", 0)) \/ Replaces(t, AtEnd(t, "failed", -1))
      /\ Top(t).phase = "walking" /\ last' = last
  BY NativeEndsEffect
<1>2. ~ Outermost(frames[t]) /\ Top(t) \in Frame
  BY <1>1, TopFacts DEF Replaces
<1> DEFINE v == Innermost(Mapped[t])
<1>3. ~ Outermost(Mapped[t]) /\ v = View(Top(t)) /\ v.phase = "walking"
  BY <1>1, <1>2, StackOf DEF View
<1>4. \A p \in Phases, r \in {-1, 0} :
        View(AtEnd(t, p, r)) = [v EXCEPT !.phase = p, !.ret = r]
  <2> TAKE p \in Phases, r \in {-1, 0}
  <2> DEFINE w == Top(t)
             x == AtEnd(t, p, r)
  <2>1. View(x) = [k \in Fields |-> x[k]] /\ v = [k \in Fields |-> w[k]]
    BY <1>3, ViewFields
  <2>2. x = [w EXCEPT !.phase = p, !.ret = r] /\ Fields \subseteq DOMAIN w
    BY <1>2, FrameDomain DEF AtEnd
  <2> HIDE DEF v, w, x
  <2>3. \A k \in Fields : x[k] = [v EXCEPT !.phase = p, !.ret = r][k]
    BY <2>1, <2>2
  <2> QED
    BY <2>1, <2>3 DEF x
<1>5. ASSUME NEW p \in Phases, NEW r \in {-1, 0}, Replaces(t, AtEnd(t, p, r))
      PROVE  Mapped' = [Mapped EXCEPT ![t] = SetInnermost(@, [v EXCEPT !.phase = p, !.ret = r])]
  BY <1>4, <1>5, MappedPoke
<1>6. {"done", "failed"} \subseteq Phases
  BY DEF Phases, Ended
<1>7. \/ Mapped' = [Mapped EXCEPT ![t] = SetInnermost(@, [v EXCEPT !.phase = "done", !.ret = 0])]
      \/ Mapped' = [Mapped EXCEPT ![t] = SetInnermost(@, [v EXCEPT !.phase = "failed", !.ret = -1])]
  BY <1>1, <1>5, <1>6
<1>8. \E code \in Codes \cup {errno[t]} : errno' = [errno EXCEPT ![t] = code]
  BY DEF NativeEnds
<1> QED
  BY <1>1, <1>3, <1>7, <1>8, SameVocabulary DEF Contract!Finish, Mapped

LEMMA EndMaps ==
  ASSUME WalkInv, NEW t \in Threads, NEW f \in Families, EndWalk(t, f)
  PROVE  Contract!Conclude(t)
<1> DEFINE n == Len(frames[t])
           v == Innermost(Mapped[t])
           raised == Raised(Top(t), errno[t])
<1>1. /\ ~ Outermost(frames[t]) /\ Top(t) \in Frame /\ Top(t).phase \in Ended
      /\ n \in Nat \ {0}
      /\ frames' = [frames EXCEPT ![t] = SubSeq(frames[t], 1, n - 1)]
      /\ last' = [last EXCEPT ![t] = [ret |-> Top(t).ret, raised |-> raised,
                                      reason |-> Top(t).phase]]
      /\ errno' = errno
  BY TopFacts DEF EndWalk
<1>2. errno[t] \in Codes \cup {0}
  BY DEF WalkInv, TypeOK
<1>3. /\ raised \in Codes \cup {None}
      /\ raised # None <=> (Top(t).ret = -1 /\ ~ Top(t).stopped)
      /\ raised # None /\ errno[t] # 0 => raised = errno[t]
  BY <1>2, WalkAssumption DEF WalkAssumption, Raised, ErrorCode
<1> HIDE DEF raised
<1>4. ~ Outermost(Mapped[t]) /\ v = View(Top(t)) /\ Mapped[t] = Walks(frames[t])
      /\ Len(Mapped[t]) = n /\ frames[t] \in Seq(Frame)
  BY <1>1, StackOf
<1>5. v.phase = Top(t).phase /\ v.ret = Top(t).ret /\ v.stopped = Top(t).stopped
  BY <1>4 DEF View
<1>6. n - 1 \in 0 .. Len(frames[t])
  BY <1>1
<1>7. Mapped' = [Mapped EXCEPT ![t] = Walks(SubSeq(frames[t], 1, n - 1))]
  BY <1>1, MappedStep
<1>8. Walks(SubSeq(frames[t], 1, n - 1)) = SubSeq(Mapped[t], 1, Len(Mapped[t]) - 1)
  BY <1>4, <1>6, WalksCut
<1>9. Mapped' = [Mapped EXCEPT ![t] = SubSeq(@, 1, Len(@) - 1)]
  BY <1>7, <1>8
<1>10. /\ v.phase \in Ended
       /\ \E x \in Codes \cup {None} :
            /\ x # None <=> (v.ret = -1 /\ ~ v.stopped)
            /\ x # None /\ errno[t] # 0 => x = errno[t]
            /\ last' = [last EXCEPT ![t] =
                          [ret |-> v.ret, raised |-> x, reason |-> v.phase]]
  <2>1. last' = [last EXCEPT ![t] = [ret |-> v.ret, raised |-> raised, reason |-> v.phase]]
    BY <1>1, <1>5
  <2>2. raised # None <=> (v.ret = -1 /\ ~ v.stopped)
    BY <1>3, <1>5
  <2> HIDE DEF v
  <2> QED
    BY <1>1, <1>3, <1>5, <2>1, <2>2
<1> QED
  BY <1>1, <1>4, <1>9, <1>10, SameVocabulary DEF Contract!Conclude, Mapped

LEMMA JumpMaps ==
  ASSUME WalkInv, NEW t \in Threads, LongJump(t)
  PROVE  Contract!Abandon(t)
<1>1. /\ Unwinds /\ InApplication(frames[t]) /\ errno' = errno /\ last' = last
  BY DEF LongJump
<1>2. PICK d \in 0 .. Len(frames[t]) - 1 :
        frames' = [frames EXCEPT ![t] = SubSeq(frames[t], 1, d)]
  BY DEF LongJump
<1>3. /\ frames[t] \in Seq(Frame) /\ Mapped[t] = Walks(frames[t])
      /\ Len(Mapped[t]) = Len(frames[t]) /\ InApplication(Mapped[t])
  BY <1>1, StackOf
<1>4. d \in 0 .. Len(frames[t])
  BY <1>3, StackFacts
<1>5. Mapped' = [Mapped EXCEPT ![t] = Walks(SubSeq(frames[t], 1, d))]
  BY <1>2, MappedStep
<1>6. Walks(SubSeq(frames[t], 1, d)) = SubSeq(Mapped[t], 1, d)
  BY <1>3, <1>4, WalksCut
<1>7. \E e \in 0 .. Len(Mapped[t]) - 1 :
        Mapped' = [Mapped EXCEPT ![t] = SubSeq(@, 1, e)]
  BY <1>2, <1>3, <1>5, <1>6
<1> QED
  BY <1>1, <1>3, <1>7, SameVocabulary DEF Contract!Abandon, Mapped

LEMMA SetErrnoMaps ==
  ASSUME WalkInv, NEW t \in Threads, SetErrno(t)
  PROVE  Contract!SetErrno(t)
<1>1. /\ InApplication(frames[t]) /\ frames' = frames /\ last' = last
      /\ \E code \in Codes \cup {0} : errno' = [errno EXCEPT ![t] = code]
  BY DEF SetErrno
<1>2. InApplication(Mapped[t]) /\ Mapped' = Mapped
  BY <1>1, StackOf DEF Mapped, Walks
<1> QED
  BY <1>1, <1>2, SameVocabulary DEF Contract!SetErrno, Mapped

LEMMA InitMaps == Init => Contract!Init
<1> SUFFICES ASSUME Init PROVE Contract!Init
  OBVIOUS
<1>1. Walks(<< >>) = << >>
  BY DEF Walks
<1>2. Mapped = [t \in Threads |-> << >>]
  BY <1>1 DEF Init, Mapped
<1> QED
  BY <1>2, SameVocabulary DEF Init, Contract!Init, Mapped

LEMMA StepMaps == WalkInv /\ [Next]_vars => [Contract!Next]_Contract!contractVars
<1> SUFFICES ASSUME WalkInv, [Next]_vars PROVE [Contract!Next]_Contract!contractVars
  OBVIOUS
<1>1. ASSUME NEW t \in Threads, InjectedFault(t) \/ InvalidArguments(t)
      PROVE  Contract!Next
  BY <1>1, RefusalMaps DEF Contract!Next
<1>2. ASSUME NEW t \in Threads, NEW cb \in Callbacks, StartFtw(t, cb) \/ StartNftw(t, cb)
      PROVE  Contract!Next
  BY <1>2, StartMaps, SameVocabulary DEF StartFtw, StartNftw, Families, Contract!Next
<1>3. ASSUME NEW t \in Threads, CallFtwCallback(t) \/ CallNftwCallback(t)
      PROVE  Contract!Next
  BY <1>3, DispatchMaps DEF CallFtwCallback, CallNftwCallback, Families, Contract!Next
<1>4. ASSUME NEW t \in Threads, NEW r \in Results \cup {0}, CallbackReturns(t, r)
      PROVE  Contract!Next
  BY <1>4, AnswerMaps DEF Contract!Next
<1>5. ASSUME NEW t \in Threads, NativeEnds(t) PROVE Contract!Next
  BY <1>5, FinishMaps DEF Contract!Next
<1>6. ASSUME NEW t \in Threads, ReturnFtw(t) \/ ReturnNftw(t) PROVE Contract!Next
  BY <1>6, EndMaps DEF ReturnFtw, ReturnNftw, Families, Contract!Next
<1>7. ASSUME NEW t \in Threads, LongJump(t) PROVE Contract!Next
  BY <1>7, JumpMaps DEF Contract!Next
<1>8. ASSUME NEW t \in Threads, SetErrno(t) PROVE Contract!Next
  BY <1>8, SetErrnoMaps DEF Contract!Next
<1>9. CASE UNCHANGED vars
  <2>1. frames' = frames /\ errno' = errno /\ last' = last
    BY <1>9 DEF vars
  <2>2. Mapped' = Mapped
    BY <2>1 DEF Mapped, Walks
  <2> QED
    BY <2>1, <2>2 DEF Contract!contractVars, Mapped
<1> QED
  BY <1>1, <1>2, <1>3, <1>4, <1>5, <1>6, <1>7, <1>8, <1>9 DEF Next

-----------------------------------------------------------------------------
(* The walks keep their invariant: types, frames and pointers agree in     *)
(* every reachable state (ftw.c:37-136).                                   *)
THEOREM WalkInvariant == Spec => []WalkInv
  BY InitInv, NextInv, PTL DEF Spec

(* Every variable keeps its type; no call raises the code 0.               *)
THEOREM TypeCorrect == Spec => []TypeOK
<1>1. WalkInv => TypeOK
  BY DEF WalkInv
<1> QED
  BY <1>1, WalkInvariant, PTL

(* However many walks, of either family, are nested in however many        *)
(* threads, an entry reaches the callback of the walk that found it and    *)
(* the answer is charged to that walk (ftw.c:42-46 and 57-61).             *)
THEOREM DispatchCorrect == Spec => []DispatchToOwner
<1>1. WalkInv => DispatchToOwner
  BY DEF WalkInv
<1> QED
  BY <1>1, WalkInvariant, PTL

(* The published pointer always designates the innermost walk of its       *)
(* family (ftw.c:86-88, 92, 122-124 and 128).                              *)
THEOREM PointersCorrect == Spec => []PointersChained
<1>1. WalkInv => PointersChained
  BY DEF WalkInv
<1> QED
  BY <1>1, WalkInvariant, PTL

(* A walk that saw the whole tree, or that its own callback ended, even    *)
(* with -1, raises no error (ftw.c:94 and 130).                            *)
THEOREM ErrorsAreGenuine == Spec => []NoSpuriousError
<1>1. WalkInv => NoSpuriousError
  BY DEF WalkInv
<1> QED
  BY <1>1, WalkInvariant, PTL

(* And a native failure of a portable walk is always reported, as -1 with  *)
(* an error, whatever its callback or nested walks answered (ftw.c:94-97   *)
(* and 130-133).                                                           *)
THEOREM FailuresAreReported == Spec => []NativeFailureReported
<1>1. WalkInv => NativeFailureReported
  BY DEF WalkInv
<1> QED
  BY <1>1, WalkInvariant, PTL

(* When no callback leaves by longjmp, a published pointer is null or      *)
(* designates a walk in progress of its own family: no address of a dead   *)
(* stack structure outlives the call (ftw.c:92 and 128).                   *)
THEOREM NothingDanglesEver == Spec => []NothingDangles
<1>1. WalkInv /\ PointersExact => NothingDangles
  BY ExactIsLive
<1>2. Init => PointersExact
  BY InitExact
<1>3. WalkInv /\ PointersExact /\ [Next]_vars => PointersExact'
  BY NextExact
<1> QED
  BY <1>1, <1>2, <1>3, WalkInvariant, PTL DEF Spec

(* Callers and callbacks cannot tell the wrappers, with their thread-local *)
(* pointers, from walks that are handed their callback directly: every     *)
(* behaviour of the walks is one of the contract (ftw.c:37-136).           *)
THEOREM WalksKeepTheContract == Spec => ContractSpec
<1>1. Init => Contract!Init
  BY InitMaps
<1>2. WalkInv /\ [Next]_vars => [Contract!Next]_Contract!contractVars
  BY StepMaps
<1> QED
  BY <1>1, <1>2, WalkInvariant, PTL DEF Spec, ContractSpec, Contract!Spec
=============================================================================

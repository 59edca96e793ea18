--------------------------- MODULE Keyboard_proofs ---------------------------
(***************************************************************************)
(* Proofs about the key's way.  First about Keyboard, for queues of every    *)
(* capacity, frames of any number of scanlines and any number of CIA ticks   *)
(* in one, and for every guest that keeps its Patience; then about the       *)
(* BoundedQueue the keys wait in, under every order of calls; and last about *)
(* the CIA they arrive at (CiaUse), for a byte of any width, either chip and *)
(* every guest.                                                             *)
(***************************************************************************)
EXTENDS Keyboard, Integers, SequenceTheorems, WellFoundedInduction, TLAPS

(* Sequences *)

LEMMA ConcatIsAssociative ==
  \A a, b, c \in Seq(Nat) : (a \o b) \o c = a \o (b \o c)
<1> SUFFICES ASSUME NEW a \in Seq(Nat), NEW b \in Seq(Nat), NEW c \in Seq(Nat)
             PROVE  (a \o b) \o c = a \o (b \o c)
  OBVIOUS
<1> QED BY ConcatAssociative, SMTT(30)

LEMMA AppendToSecond ==
  ASSUME NEW s \in Seq(Nat), NEW q \in Seq(Nat), NEW x \in Nat
  PROVE  Append(s \o q, x) = s \o Append(q, x)
<1>1. s \o q \in Seq(Nat) /\ <<x>> \in Seq(Nat)
  OBVIOUS
<1>2. Append(s \o q, x) = (s \o q) \o <<x>> /\ Append(q, x) = q \o <<x>>
  BY <1>1, AppendIsConcat
<1>3. (s \o q) \o <<x>> = s \o (q \o <<x>>)
  BY <1>1, ConcatIsAssociative, Zenon
<1> QED BY <1>2, <1>3

LEMMA AppendToLast ==
  ASSUME NEW s \in Seq(Nat), NEW r \in Seq(Nat), NEW q \in Seq(Nat), NEW x \in Nat
  PROVE  Append(s \o r \o q, x) = s \o r \o Append(q, x)
<1>1. s \o r \in Seq(Nat)
  OBVIOUS
<1> QED BY <1>1, AppendToSecond, Zenon

LEMMA HeadToMiddle ==
  ASSUME NEW s \in Seq(Nat), NEW q \in Seq(Nat), q # << >>
  PROVE  s \o << >> \o q = s \o <<Head(q)>> \o Tail(q)
<1>1. Head(q) \in Nat /\ Tail(q) \in Seq(Nat) /\ <<Head(q)>> \in Seq(Nat)
  BY HeadTailProperties
<1>2. q = <<Head(q)>> \o Tail(q)
  <2>1. /\ Len(q) \in Nat /\ Len(q) > 0 /\ Len(Tail(q)) = Len(q) - 1
        /\ \A i \in 1 .. Len(q) - 1 : Tail(q)[i] = q[i + 1]
        /\ Head(q) = q[1]
    BY HeadTailProperties
  <2>2. /\ <<Head(q)>> \o Tail(q) \in Seq(Nat)
        /\ Len(<<Head(q)>> \o Tail(q)) = Len(q)
        /\ \A i \in 1 .. Len(q) : (<<Head(q)>> \o Tail(q))[i] = q[i]
    BY <1>1, <2>1
  <2> QED BY <2>2, SeqEqual
<1>3. s \o << >> = s
  BY ConcatEmptySeq
<1>4. s \o (<<Head(q)>> \o Tail(q)) = s \o <<Head(q)>> \o Tail(q)
  BY <1>1, ConcatIsAssociative, Zenon
<1> QED BY <1>2, <1>3, <1>4

LEMMA MiddleToFirst ==
  ASSUME NEW s \in Seq(Nat), NEW x \in Nat
  PROVE  s \o <<x>> = Append(s, x) \o << >>
<1>1. Append(s, x) \in Seq(Nat)
  OBVIOUS
<1> QED BY <1>1, AppendIsConcat, ConcatEmptySeq
-----------------------------------------------------------------------------
(* Numbers *)

\* Every set of numbers has a smallest element.
LEMMA Smallest ==
  ASSUME NEW T, T \subseteq Nat, T # {}
  PROVE  \E n \in T : \A m \in T : n <= m
<1> DEFINE R == OpToRel(<, Nat)
<1>1. IsWellFoundedOn(R, Nat)  BY NatLessThanWellFounded, ZenonT(30)
<1>2. \A x, y \in Nat : x < y => <<x, y>> \in R  BY DEF OpToRel
<1> HIDE DEF R
<1>3. ASSUME IsWellFoundedOn(R, Nat)
      PROVE  \E n \in T : \A m \in T : ~(<<m, n>> \in R)
  <2>1. T \subseteq Nat /\ T # {}  OBVIOUS
  <2> QED  BY <2>1, <1>3, WFMin, ZenonT(20)
<1>4. PICK n \in T : \A m \in T : ~(<<m, n>> \in R)  BY <1>1, <1>3
<1>5. ASSUME NEW m \in T  PROVE n <= m
  <2>1. m \in Nat /\ n \in Nat  OBVIOUS
  <2>2. ~(m < n)  BY <1>2, <1>4, <2>1, ZenonT(30)
  <2> QED  BY <2>1, <2>2
<1> QED  BY <1>5

\* Induction, for a set of numbers.
LEMMA Induction ==
  ASSUME NEW T, 0 \in T, \A n \in Nat : n \in T => n + 1 \in T
  PROVE  Nat \subseteq T
<1> SUFFICES ASSUME Nat \ T # {}  PROVE FALSE
  OBVIOUS
<1>1. PICK n \in Nat \ T : \A m \in Nat \ T : n <= m  BY Smallest, ZenonT(30)
<1>2. n # 0  OBVIOUS
<1>3. n - 1 \in Nat /\ n = (n - 1) + 1  BY <1>2
<1>4. n - 1 \in T
  <2>1. ~(n <= n - 1)  OBVIOUS
  <2> QED  BY <1>1, <1>3, <2>1
<1> QED  BY <1>3, <1>4

-----------------------------------------------------------------------------
(* The chip, as far as the serial interrupt goes *)

\* CIA-A is a chip whose serial interrupt is enabled and raises the line.
SerialChip(c) ==
  /\ c = [timer |-> c.timer, data |-> c.data, mask |-> c.mask, ir |-> c.ir,
          sdr |-> c.sdr, tod |-> c.tod, latched |-> c.latched, latch |-> c.latch]
  /\ c.data \subseteq Source /\ c.ir \in BOOLEAN
  /\ "SP" \in c.mask
  /\ "SP" \in c.data => c.ir

\* The chip d is c, but for timers that ran on.
SameSerial(d, c) ==
  SerialChip(d) /\ d.sdr = c.sdr /\ ("SP" \in d.data <=> "SP" \in c.data)

LEMMA AfterTick ==
  ASSUME NEW c, SerialChip(c)
  PROVE  SameSerial(Tick(c), c)
<1> DEFINE timer == [w \in Which |-> StepTimer(c.timer[w])]
           data  == c.data \cup {w \in Which : Underflows(c.timer[w])}
           ir    == c.ir \/ data \cap c.mask # {}
<1>1. Tick(c) = [c EXCEPT !.timer = timer, !.data = data, !.ir = ir]
  BY DEF Tick, Rethink, SerialChip
<1>2. data \subseteq Source /\ ("SP" \in data <=> "SP" \in c.data)
  BY DEF SerialChip, Source, Which
<1>3. ir \in BOOLEAN /\ ("SP" \in data => ir)
  BY DEF SerialChip
<1> HIDE DEF timer, data, ir
<1> QED BY <1>1, <1>2, <1>3 DEF SerialChip, SameSerial

\* What the loop over the ticks of a scanline goes through.
Loop(f, c, n) == f = [k \in 0 .. n |-> IF k = 0 THEN c ELSE Tick(f[k - 1])]

LEMMA LoopExists ==
  ASSUME NEW c, NEW n \in Nat
  PROVE  \E f : Loop(f, c, n)
<1> DEFINE T == {k \in Nat : \E f : Loop(f, c, k)}
<1>1. 0 \in T
  <2> DEFINE f == [k \in 0 .. 0 |-> c]
  <2>1. Loop(f, c, 0)
    <3>1. \A k \in 0 .. 0 : k = 0  OBVIOUS
    <3> QED  BY <3>1 DEF Loop
  <2> QED  BY <2>1
<1>2. ASSUME NEW j \in Nat, j \in T  PROVE j + 1 \in T
  <2>1. PICK f : Loop(f, c, j)  BY <1>2
  <2> DEFINE Then(x) == Tick(x)
             h == [k \in 0 .. j + 1 |-> IF k <= j THEN f[k] ELSE Then(f[j])]
  <2>2. f = [k \in 0 .. j |-> IF k = 0 THEN c ELSE Then(f[k - 1])]
    BY <2>1 DEF Loop
  <2> HIDE DEF Then
  <2>3. ASSUME NEW k \in 0 .. j + 1
        PROVE  h[k] = IF k = 0 THEN c ELSE Then(h[k - 1])
    <3>1. CASE k = 0
      <4>1. k \in 0 .. j /\ k <= j /\ f[k] = c  BY <2>2, <3>1
      <4> QED  BY <3>1, <4>1
    <3>2. CASE k # 0 /\ k <= j
      <4>1. k \in 0 .. j /\ k - 1 \in 0 .. j + 1 /\ k - 1 <= j  BY <3>2
      <4>2. f[k] = Then(f[k - 1])  BY <2>2, <3>2, <4>1
      <4>3. h[k] = f[k] /\ h[k - 1] = f[k - 1]  BY <3>2, <4>1
      <4> QED  BY <3>2, <4>2, <4>3
    <3>3. CASE k = j + 1
      <4>1. k # 0 /\ ~(k <= j) /\ k - 1 = j /\ j \in 0 .. j + 1 /\ j <= j  BY <3>3
      <4>2. h[k] = Then(f[j]) /\ h[j] = f[j]  BY <4>1
      <4> QED  BY <3>3, <4>1, <4>2
    <3> QED  BY <3>1, <3>2, <3>3
  <2>4. h = [k \in 0 .. j + 1 |-> IF k = 0 THEN c ELSE Then(h[k - 1])]
    <3> DEFINE e == [k \in 0 .. j + 1 |-> IF k = 0 THEN c ELSE Then(h[k - 1])]
    <3>1. h = [k \in 0 .. j + 1 |-> h[k]]  OBVIOUS
    <3> HIDE DEF h
    <3>2. [k \in 0 .. j + 1 |-> h[k]] = e  BY <2>3
    <3> QED  BY <3>1, <3>2, ZenonT(30)
  <2> HIDE DEF h
  <2>5. Loop(h, c, j + 1)  BY <2>4 DEF Loop, Then
  <2> QED  BY <2>5
<1>3. n \in T
  <2> HIDE DEF T
  <2> QED  BY <1>1, <1>2, Induction
<1> QED  BY <1>3

LEMMA AfterTicks ==
  ASSUME NEW c, NEW n \in Nat, SerialChip(c)
  PROVE  SameSerial(Ticked(c, n), c)
<1> DEFINE Is(f) == Loop(f, c, n)
           after == CHOOSE f : Is(f)
<1>1. Ticked(c, n) = after[n]
  BY DEF Ticked, Loop
<1>2. Is(after)
  <2>1. \E f : Is(f)  BY LoopExists
  <2> HIDE DEF Is
  <2> QED  BY <2>1
<1> HIDE DEF after
<1>3. after = [k \in 0 .. n |-> IF k = 0 THEN c ELSE Tick(after[k - 1])]
  BY <1>2 DEF Loop
<1> DEFINE T == {k \in Nat : k <= n => SameSerial(after[k], c)}
<1>4. 0 \in T
  <2>1. after[0] = c  BY <1>3
  <2> QED  BY <2>1 DEF SameSerial
<1>5. ASSUME NEW k \in Nat, k \in T  PROVE k + 1 \in T
  <2> SUFFICES ASSUME k + 1 <= n  PROVE SameSerial(after[k + 1], c)
    OBVIOUS
  <2>1. k <= n /\ k + 1 \in 0 .. n /\ (k + 1) - 1 = k /\ k + 1 # 0
    OBVIOUS
  <2>2. after[k + 1] = Tick(after[k])  BY <1>3, <2>1
  <2>3. SameSerial(after[k], c)  BY <1>5, <2>1
  <2>4. SameSerial(Tick(after[k]), after[k])  BY <2>3, AfterTick DEF SameSerial
  <2> QED  BY <2>2, <2>3, <2>4 DEF SameSerial
<1>6. n \in T
  <2> HIDE DEF T
  <2> QED  BY <1>4, <1>5, Induction
<1> QED BY <1>1, <1>6

LEMMA AfterLoad ==
  ASSUME NEW c, NEW code, SerialChip(c)
  PROVE  /\ SerialChip(LoadSerial(c, code))
         /\ LoadSerial(c, code).sdr = code
         /\ "SP" \in LoadSerial(c, code).data
<1> DEFINE data == c.data \cup {"SP"}
<1>1. LoadSerial(c, code) = [c EXCEPT !.sdr = code, !.data = data, !.ir = TRUE]
  BY DEF SerialChip, LoadSerial
<1>2. data \subseteq Source /\ "SP" \in data
  BY DEF SerialChip, Source
<1> HIDE DEF data
<1> QED BY <1>1, <1>2 DEF SerialChip

LEMMA AfterCause ==
  ASSUME NEW c, SerialChip(c)
  PROVE  /\ SerialChip(AfterReadIcr(c))
         /\ AfterReadIcr(c).sdr = c.sdr
         /\ "SP" \notin AfterReadIcr(c).data
<1> DEFINE data == {}
<1>1. AfterReadIcr(c) = [c EXCEPT !.data = data, !.ir = FALSE]
  BY DEF AfterReadIcr
<1>2. data \subseteq Source /\ "SP" \notin data
  OBVIOUS
<1> HIDE DEF data
<1> QED BY <1>1, <1>2 DEF SerialChip

LEMMA AfterTimerUse ==
  ASSUME NEW c, NEW t, SerialChip(c)
  PROVE  LET d == WriteIcr([c EXCEPT !.timer["TA"] = t], TRUE, {"TA"})
         IN  SerialChip(d) /\ d.sdr = c.sdr /\ d.data = c.data
<1> DEFINE timer == [c.timer EXCEPT !["TA"] = t]
           mask  == c.mask \cup {"TA"}
           ir    == c.ir \/ c.data \cap mask # {}
           d     == WriteIcr([c EXCEPT !.timer["TA"] = t], TRUE, {"TA"})
<1>1. d = [c EXCEPT !.timer = timer, !.mask = mask, !.ir = ir]
  BY DEF WriteIcr, Rethink, SerialChip
<1>2. ir \in BOOLEAN /\ "SP" \in mask /\ ("SP" \in c.data => ir)
  BY DEF SerialChip
<1> HIDE DEF timer, mask, ir, d
<1>3. SerialChip(d) /\ d.sdr = c.sdr /\ d.data = c.data
  BY <1>1, <1>2 DEF SerialChip
<1> QED BY <1>3 DEF d
-----------------------------------------------------------------------------
(* The inductive invariant *)

KeysOK   == keys \in Queue(Nat) /\ keys.policy = "RejectNewest"
              /\ keys.capacity = Capacity /\ Len(keys.items) <= Capacity
BeamOK   == delay \in 0 .. Gap /\ vpos \in 0 .. Lines - 1 /\ age \in 0 .. Patience
GuestOK  == /\ handler \in {"idle", "entered", "serial", "leaving"}
            /\ late \in BOOLEAN /\ ports \in BOOLEAN /\ cleared \in BOOLEAN
            /\ received \in Seq(Nat) /\ admitted \in Seq(Nat)
            /\ loads \in Nat /\ pressed \in Nat

\* The register holds at most one key: while a handler is about to read it, no
\* new one is announced.
OneKey == /\ ~("SP" \in ciaA.data /\ handler = "serial")
          /\ "SP" \in ciaA.data \/ handler = "serial" => ciaA.sdr \in Nat

\* Until the handler has run out of patience, the delay of its key is not over.
DelayHolds ==
  "SP" \in ciaA.data \/ handler = "serial" =>
    (age < Patience => age + delay >= Gap - 1)

IInv == /\ KeysOK /\ BeamOK /\ GuestOK /\ SerialChip(ciaA)
        /\ OneKey /\ DelayHolds /\ KeysKept

LEMMA ImpliesTypeOK == IInv => TypeOK
BY DEF IInv, KeysOK, BeamOK, GuestOK, SerialChip, TypeOK

LEMMA InitIInv == Init => IInv
<1> SUFFICES ASSUME Init PROVE IInv
  OBVIOUS
<1>1. KeysOK
  BY KeyboardAssumption, DroppedMaxAssumption
     DEF Init, KeysOK, New, Queue, OverflowPolicy
<1>2. BeamOK
  BY KeyboardAssumption DEF Init, BeamOK
<1>3. GuestOK
  <2>1. << >> \in Seq(Nat)
    BY EmptySeq
  <2> QED BY <2>1 DEF Init, GuestOK
<1>4. SerialChip(ciaA) /\ "SP" \notin ciaA.data
  BY DEF Init, NewChip, SerialChip, Source
<1>5. InRegister = << >> /\ OneKey /\ DelayHolds
  BY <1>4 DEF Init, InRegister, OneKey, DelayHolds
<1>6. keys.items = << >> /\ received = << >> /\ admitted = << >>
  BY DEF Init, New
<1>7. KeysKept
  BY <1>5, <1>6, ConcatEmptySeq, EmptySeq DEF KeysKept
<1> QED BY <1>1, <1>2, <1>3, <1>4, <1>5, <1>7 DEF IInv
-----------------------------------------------------------------------------
(* The shell: an accepted key goes to the end, a rejected one nowhere *)

\* A queue with other items is a queue.
LEMMA QueueShorter ==
  ASSUME NEW q \in Queue(Nat), NEW items \in Seq(Nat),
         NEW r, r = [q EXCEPT !.items = items]
  PROVE  /\ r \in Queue(Nat) /\ r.items = items
         /\ r.policy = q.policy /\ r.capacity = q.capacity
  BY DEF Queue

LEMMA StepKeyEvent == ASSUME IInv, KeyEvent PROVE IInv'
<1> DEFINE x == pressed + 1
<1>0. /\ keys \in Queue(Nat) /\ keys.policy = "RejectNewest"
      /\ keys.capacity = Capacity /\ Len(keys.items) <= Capacity
      /\ keys.items \in Seq(Nat) /\ Len(keys.items) \in Nat /\ Capacity \in Nat
      /\ received \in Seq(Nat) /\ admitted \in Seq(Nat) /\ x \in Nat
  BY KeyboardAssumption DEF IInv, KeysOK, GuestOK, Queue
<1>1. UNCHANGED <<delay, vpos, ciaA, ports, age>> /\ UNCHANGED guest
      /\ pressed' = x
  BY DEF KeyEvent
<1>2. BeamOK' /\ SerialChip(ciaA)' /\ OneKey' /\ DelayHolds' /\ InRegister' = InRegister
  BY <1>1 DEF IInv, BeamOK, OneKey, DelayHolds, InRegister, guest
<1>3. CASE Admission(keys) = "Rejected"
  <2>1. keys' = [keys EXCEPT !.dropped = SaturatingSucc(keys.dropped)]
        /\ admitted' = admitted
    BY <1>3 DEF KeyEvent, Push
  <2>2. SaturatingSucc(keys.dropped) \in 0 .. DroppedMax
    BY <1>0, DroppedMaxAssumption DEF Queue, SaturatingSucc
  <2>3. KeysOK' /\ keys'.items = keys.items
    BY <1>0, <2>1, <2>2 DEF KeysOK, Queue
  <2>4. GuestOK' /\ KeysKept'
    BY <1>0, <1>1, <1>2, <2>1, <2>3 DEF IInv, GuestOK, KeysKept, guest
  <2> QED BY <1>2, <2>3, <2>4 DEF IInv
<1>4. CASE Admission(keys) # "Rejected"
  <2>1. Admission(keys) = "Accepted" /\ Len(keys.items) < Capacity
    BY <1>0, <1>4 DEF Admission, IsFull
  <2>2. keys' = [keys EXCEPT !.items = Append(keys.items, x),
                             !.highWater = IF keys.highWater > Len(keys.items)
                                           THEN keys.highWater ELSE Len(keys.items) + 1]
        /\ admitted' = Append(admitted, x)
    BY <2>1 DEF KeyEvent, Push
  <2>3. Append(keys.items, x) \in Seq(Nat)
        /\ Len(Append(keys.items, x)) = Len(keys.items) + 1
    BY <1>0, AppendProperties
  <2> DEFINE more == Append(keys.items, x)
             mark == IF keys.highWater > Len(keys.items)
                     THEN keys.highWater ELSE Len(keys.items) + 1
  <2>9. mark \in Nat
    BY <1>0 DEF Queue
  <2>10. keys' = [keys EXCEPT !.items = more, !.highWater = mark]
    BY <2>2
  <2>11. more \in Seq(Nat) /\ Len(more) = Len(keys.items) + 1
    BY <2>3
  <2>12. /\ keys' \in Queue(Nat) /\ keys'.items = more
         /\ keys'.policy = keys.policy /\ keys'.capacity = keys.capacity
    <3> HIDE DEF more, mark
    <3> QED BY <1>0, <2>9, <2>10, <2>11 DEF Queue
  <2>13. Len(more) <= Capacity
    <3> HIDE DEF more
    <3> QED BY <1>0, <2>1, <2>11
  <2>4. KeysOK' /\ keys'.items = Append(keys.items, x)
    <3>1. KeysOK'
      <4> HIDE DEF more
      <4> QED BY <1>0, <2>12, <2>13 DEF KeysOK
    <3> QED BY <3>1, <2>12
  <2>5. InRegister \in Seq(Nat)
    BY DEF IInv, OneKey, InRegister
  <2>6. received' = received
    BY <1>1 DEF guest
  <2>7. KeysKept'
    <3>1. admitted = received \o InRegister \o keys.items
      BY DEF IInv, KeysKept
    <3>2. received \in Seq(Nat) /\ keys.items \in Seq(Nat) /\ x \in Nat
      BY <1>0
    <3>3. Append(received \o InRegister \o keys.items, x)
            = received \o InRegister \o Append(keys.items, x)
      BY <2>5, <3>2, AppendToLast, Zenon
    <3> QED BY <1>2, <2>2, <2>4, <2>6, <3>1, <3>3 DEF KeysKept
  <2>8. GuestOK'
    BY <1>0, <1>1, <2>2, AppendProperties DEF IInv, GuestOK, guest
  <2> QED BY <1>2, <2>4, <2>7, <2>8 DEF IInv
<1> QED BY <1>3, <1>4
-----------------------------------------------------------------------------
(* The end of a scanline: a key is moved only into an empty register *)

LEMMA StepEndScanline == ASSUME IInv, EndScanline PROVE IInv'
<1> DEFINE line   == (vpos + 1) % Lines
           blank  == line = 0
           ticked == Ticked(ciaA, Ticks)
           feeds  == delay = 0 /\ Quiet(ticked) /\ keys.items # << >>
           waits  == "SP" \in ciaA.data \/ handler = "serial"
<1>0. /\ Gap \in Nat /\ Patience \in Nat /\ Patience < Gap
      /\ Lines \in Nat /\ Lines > 0
      /\ delay \in 0 .. Gap /\ age \in 0 .. Patience /\ vpos \in Nat
  BY KeyboardAssumption, PatienceAssumption DEF IInv, BeamOK
<1>1. /\ handler = "serial" => age < Patience
      /\ vpos' = line
      /\ ports' = (ports \/ Raised(ciaA, ticked))
      /\ delay' = AfterDelay(IF feeds THEN Gap ELSE delay, blank)
      /\ UNCHANGED guest /\ UNCHANGED input
      /\ feeds => /\ ciaA' = LoadSerial(ticked, Head(keys.items))
                  /\ keys' = Pop(keys)
                  /\ age' = 0
      /\ ~feeds => /\ ciaA' = ticked
                   /\ age' = IF blank /\ age < Patience THEN age + 1 ELSE age
                   /\ keys' = keys
  BY DEF EndScanline
<1>2. SerialChip(ciaA)
  BY DEF IInv
<1>3. SerialChip(ticked) /\ ticked.sdr = ciaA.sdr
      /\ ("SP" \in ticked.data <=> "SP" \in ciaA.data)
  BY <1>2, AfterTicks, KeyboardAssumption DEF SameSerial
<1>4. line \in 0 .. Lines - 1
  BY <1>0
<1>5. waits => (age < Patience => age + delay >= Gap - 1)
  BY DEF IInv, DelayHolds
<1>6. feeds => ~waits
  <2> SUFFICES ASSUME feeds PROVE "SP" \notin ciaA.data /\ handler # "serial"
    OBVIOUS
  <2>1. "SP" \notin ciaA.data
    BY <1>3 DEF Quiet, SerialChip
  <2>2. handler # "serial"
    BY <1>0, <1>1, <1>5
  <2> QED BY <2>1, <2>2
<1>7. received \in Seq(Nat) /\ keys.items \in Seq(Nat) /\ keys \in Queue(Nat)
  BY DEF IInv, GuestOK, KeysOK, Queue
<1>8. GuestOK'
  BY <1>1, <1>3 DEF IInv, GuestOK, guest, input, Raised, SerialChip
<1> HIDE DEF line, ticked
<1>9. delay' \in 0 .. Gap /\ vpos' \in 0 .. Lines - 1 /\ age' \in 0 .. Patience
  <2>1. CASE feeds
    <3> HIDE DEF feeds, blank
    <3> QED BY <2>1, <1>0, <1>1, <1>4 DEF AfterDelay
  <2>2. CASE ~feeds
    <3> HIDE DEF feeds, blank
    <3> QED BY <2>2, <1>0, <1>1, <1>4 DEF AfterDelay
  <2> QED BY <2>1, <2>2
<1>10. CASE feeds
  <2>1. /\ SerialChip(ciaA') /\ ciaA'.sdr = Head(keys.items) /\ "SP" \in ciaA'.data
        /\ handler' # "serial" /\ received' = received /\ admitted' = admitted
    BY <1>1, <1>3, <1>6, <1>10, AfterLoad DEF guest, input
  <2>2. Head(keys.items) \in Nat /\ Tail(keys.items) \in Seq(Nat)
        /\ Len(Tail(keys.items)) <= Len(keys.items)
        /\ keys.items # << >>
    BY <1>7, <1>10, HeadTailProperties
  <2>3. KeysOK' /\ keys'.items = Tail(keys.items)
    <3> DEFINE rest == Tail(keys.items)
    <3>1. keys' = [keys EXCEPT !.items = rest] /\ rest \in Seq(Nat)
      BY <1>1, <1>10, <2>2 DEF Pop
    <3>2. Len(rest) \in Nat /\ Len(rest) <= Len(keys.items)
      BY <2>2, LenProperties
    <3> HIDE DEF rest
    <3>3. /\ keys' \in Queue(Nat) /\ keys'.items = rest
          /\ keys'.policy = keys.policy /\ keys'.capacity = keys.capacity
      BY <1>7, <3>1, QueueShorter
    <3>5. Len(keys.items) \in Nat /\ Capacity \in Nat
      BY <1>7, KeyboardAssumption, LenProperties
    <3>4. KeysOK'
      BY <3>2, <3>3, <3>5 DEF IInv, KeysOK
    <3> QED BY <3>3, <3>4 DEF rest
  <2>4. OneKey'
    BY <2>1, <2>2 DEF OneKey
  <2>5. age' + delay' >= Gap - 1
    <3>1. feeds
      BY <1>10
    <3> HIDE DEF feeds, blank
    <3> QED BY <1>0, <1>1, <3>1 DEF AfterDelay
  <2>6. DelayHolds'
    BY <2>5 DEF DelayHolds
  <2>7. admitted = received \o << >> \o keys.items
    BY <1>6, <1>10 DEF IInv, KeysKept, InRegister
  <2>8. KeysKept'
    BY <1>7, <2>1, <2>2, <2>3, <2>7, HeadToMiddle DEF KeysKept, InRegister
  <2> QED BY <1>8, <1>9, <2>1, <2>3, <2>4, <2>6, <2>8 DEF IInv, BeamOK
<1>11. CASE ~feeds
  <2>1. /\ SerialChip(ciaA') /\ ciaA'.sdr = ciaA.sdr
        /\ ("SP" \in ciaA'.data <=> "SP" \in ciaA.data)
        /\ handler' = handler /\ received' = received /\ admitted' = admitted
        /\ keys' = keys
    BY <1>1, <1>3, <1>11 DEF guest, input
  <2>2. KeysOK' /\ OneKey' /\ KeysKept'
    BY <2>1 DEF IInv, KeysOK, OneKey, KeysKept, InRegister
  <2>3. (age < Patience => age + delay >= Gap - 1)
          => (age' < Patience => age' + delay' >= Gap - 1)
    <3>1. ~feeds
      BY <1>11
    <3> HIDE DEF feeds, blank
    <3> QED BY <1>0, <1>1, <3>1 DEF AfterDelay
  <2>4. DelayHolds'
    BY <1>5, <2>1, <2>3 DEF DelayHolds
  <2> QED BY <1>8, <1>9, <2>1, <2>2, <2>4 DEF IInv, BeamOK
<1> QED BY <1>10, <1>11
-----------------------------------------------------------------------------
(* The guest *)

LEMMA StepReadCause == ASSUME IInv, ReadCause PROVE IInv'
<1>1. SerialChip(ciaA') /\ ciaA'.sdr = ciaA.sdr /\ "SP" \notin ciaA'.data
  BY AfterCause DEF IInv, ReadCause
<1>2. /\ handler = "entered"
      /\ handler' = IF "SP" \in ciaA.data THEN "serial" ELSE "leaving"
      /\ UNCHANGED <<keys, delay, vpos, ports, cleared, received, loads, late, age>>
      /\ UNCHANGED input
  BY DEF ReadCause
<1>3. InRegister' = InRegister /\ OneKey' /\ DelayHolds'
  BY <1>1, <1>2 DEF IInv, InRegister, OneKey, DelayHolds
<1>4. KeysOK' /\ BeamOK' /\ GuestOK' /\ KeysKept'
  BY <1>2, <1>3 DEF IInv, KeysOK, BeamOK, GuestOK, KeysKept, input
<1> QED BY <1>1, <1>3, <1>4 DEF IInv

LEMMA StepReadKey == ASSUME IInv, ReadKey PROVE IInv'
<1>1. /\ handler = "serial" /\ handler' = "leaving"
      /\ received' = Append(received, ciaA.sdr)
      /\ UNCHANGED <<cleared, keys, delay, vpos, ciaA, ports, loads, late, age>>
      /\ UNCHANGED input
  BY DEF ReadKey
<1>2. "SP" \notin ciaA.data /\ ciaA.sdr \in Nat /\ received \in Seq(Nat)
  BY <1>1 DEF IInv, OneKey, GuestOK
<1>3. InRegister = <<ciaA.sdr>> /\ InRegister' = << >>
  BY <1>1, <1>2 DEF InRegister
<1>4. KeysOK' /\ BeamOK' /\ SerialChip(ciaA)' /\ OneKey' /\ DelayHolds'
  BY <1>1, <1>2 DEF IInv, KeysOK, BeamOK, OneKey, DelayHolds
<1>5. GuestOK'
  BY <1>1, <1>2, AppendProperties DEF IInv, GuestOK, input
<1>6. received \o <<ciaA.sdr>> = received' \o << >>
  BY <1>1, <1>2, MiddleToFirst
<1>7. KeysKept'
  BY <1>1, <1>3, <1>6 DEF IInv, KeysKept, input
<1> QED BY <1>4, <1>5, <1>7 DEF IInv

LEMMA StepUseTimer == ASSUME IInv, UseTimer PROVE IInv'
<1>1. SerialChip(ciaA') /\ ciaA'.sdr = ciaA.sdr /\ ciaA'.data = ciaA.data
  <2>1. SerialChip(ciaA)
    BY DEF IInv
  <2>2. \E t : ciaA' = WriteIcr([ciaA EXCEPT !.timer["TA"] = t], TRUE, {"TA"})
    BY Zenon DEF UseTimer
  <2>3. PICK t : ciaA' = WriteIcr([ciaA EXCEPT !.timer["TA"] = t], TRUE, {"TA"})
    BY <2>2
  <2> QED BY <2>1, <2>3, AfterTimerUse, Zenon
<1>2. /\ loads' = loads + 1
      /\ UNCHANGED <<keys, delay, vpos, ports, late, handler, cleared, received, age>>
      /\ UNCHANGED input
  BY DEF UseTimer
<1> QED BY <1>1, <1>2 DEF IInv, KeysOK, BeamOK, GuestOK, OneKey, DelayHolds, KeysKept,
                          InRegister, input

LEMMA StepHandler == ASSUME IInv, Enter \/ ClearPorts \/ Leave PROVE IInv'
<1>1. /\ UNCHANGED <<keys, delay, vpos, ciaA, received, loads, late, age>> /\ UNCHANGED input
      /\ handler' \in {"idle", "entered", "serial", "leaving"}
      /\ handler' = "serial" <=> handler = "serial"
      /\ ports' \in BOOLEAN /\ cleared' \in BOOLEAN
  BY DEF Enter, ClearPorts, Leave, IInv, GuestOK
<1> QED BY <1>1 DEF IInv, KeysOK, BeamOK, GuestOK, OneKey, DelayHolds, KeysKept,
                    InRegister, input

LEMMA NextIInv == IInv /\ [Next]_vars => IInv'
<1> SUFFICES ASSUME IInv, [Next]_vars PROVE IInv'
  OBVIOUS
<1>1. CASE UNCHANGED vars
  BY <1>1 DEF vars, IInv, KeysOK, BeamOK, GuestOK, OneKey, DelayHolds, KeysKept,
              InRegister
<1>2. CASE Next
  BY <1>2, StepKeyEvent, StepEndScanline, StepReadCause, StepReadKey, StepUseTimer,
     StepHandler DEF Next, Handler
<1> QED BY <1>1, <1>2

\* Keys, queue, register and handler stay as the inductive invariant has them.
THEOREM Invariance == Spec => []IInv
BY InitIInv, NextIInv, PTL DEF Spec

\* Type correctness: the queue never exceeds its capacity and the delay never
\* passes zero.
THEOREM TypeCorrect == Spec => []TypeOK
BY Invariance, ImpliesTypeOK, PTL

\* No accepted key is lost, doubled or overtaken on its way through the queue
\* and the one-byte register, however the handler is delayed within its
\* patience, and whatever timer A does on the same interrupt line.
THEOREM KeysAreKept == Spec => []KeysKept
<1>1. IInv => KeysKept
  BY DEF IInv
<1> QED BY <1>1, Invariance, PTL
-----------------------------------------------------------------------------
(* A BoundedQueue used through its methods in any order: a producer that pushes, *)
(* a consumer that pops and an owner that clears, whatever the program does. *)
(* Items are numbered by the push that offered them, so that a loss can be     *)
(* told from a reordering.  All variables but queue are history: no method     *)
(* reads them.  What follows holds for every capacity, both policies and every *)
(* value of the saturation bound.                                            *)

VARIABLES
  queue,
  offered,      \* pushes so far; the number of the newest item offered
  taken,        \* items popped so far
  discarded,    \* items discarded by clear so far
  lastTaken,    \* number of the last item that left through pop
  deepest       \* greatest length the queue has had

queueVars == <<queue, offered, taken, discarded, lastTaken, deepest>>

QueueInit ==
  /\ \E c \in Nat, p \in OverflowPolicy : queue = New(c, p)
  /\ offered = 0 /\ taken = 0 /\ discarded = 0 /\ lastTaken = 0 /\ deepest = 0

Offer ==
  /\ offered' = offered + 1
  /\ queue' = Push(queue, offered + 1)
  /\ deepest' = IF Len(queue'.items) > deepest THEN Len(queue'.items) ELSE deepest
  /\ UNCHANGED <<taken, discarded, lastTaken>>

\* pop on a queue that is not empty; on an empty one it returns None.
Take ==
  /\ queue.items # << >>
  /\ queue' = Pop(queue)
  /\ lastTaken' = Head(queue.items)
  /\ taken' = taken + 1
  /\ UNCHANGED <<offered, discarded, deepest>>

Discard ==
  /\ queue.items # << >>
  /\ queue' = Clear(queue)
  /\ discarded' = discarded + Len(queue.items)
  /\ UNCHANGED <<offered, taken, lastTaken, deepest>>

QueueNext == Offer \/ Take \/ Discard

QueueSpec == QueueInit /\ [][QueueNext]_queueVars
-----------------------------------------------------------------------------
\* len
Depth == Len(queue.items)

\* Every variable has its type and the depth never exceeds the capacity fixed
\* at construction ("Capacity is fixed at construction and never grows").
QueueTypeOK ==
  /\ queue \in Queue(Nat)
  /\ offered \in Nat /\ taken \in Nat /\ discarded \in Nat
  /\ lastTaken \in Nat /\ deepest \in Nat
  /\ Depth <= queue.capacity

Lost == offered - (taken + discarded + Depth)

\* Nothing disappears silently: an item offered was taken, or discarded, or is
\* still queued, or is counted by `dropped` (until that counter saturates).
\* This is what lets a shell report saturation from `dropped` alone.
NoSilentLoss ==
  /\ Lost >= 0
  /\ queue.dropped = IF Lost < DroppedMax THEN Lost ELSE DroppedMax

\* s[1], ..., s[n] increases from above lo up to at most hi.
Increasing(s, n, lo, hi) ==
  /\ \A i, j \in 1 .. n : i < j => s[i] < s[j]
  /\ \A i \in 1 .. n : lo < s[i] /\ s[i] <= hi

\* s[1], ..., s[n] are the n consecutive numbers that end with hi.
Consecutive(s, n, hi) == \A i \in 1 .. n : s[i] = (hi - n) + i

\* Whatever the interleaving of push, pop and clear, items leave in the order
\* they were offered: the backlog increases, and is newer than what has left.
OrderPreserved ==
  Increasing(queue.items, Depth, lastTaken, offered)

\* DropOldest keeps the freshest items: the backlog is exactly the last pushes,
\* with no hole in it, so what was lost is older than everything kept.
FreshestKept ==
  queue.policy = "DropOldest" =>
    Consecutive(queue.items, Depth, offered)

\* The high-water mark is the deepest the queue has been, even after draining
\* or clearing; and a queue that lost something had been filled to capacity.
HighWaterIsHistory ==
  /\ queue.highWater = deepest
  /\ queue.dropped > 0 => queue.highWater = queue.capacity

\* RejectNewest keeps the backlog intact: a push, full or not, never changes,
\* moves or removes an item already queued.
BacklogIntact ==
  [][ (queue.policy = "RejectNewest" /\ offered' # offered) =>
        /\ Depth' >= Depth
        /\ \A i \in 1 .. Depth : queue'.items[i] = queue.items[i] ]_queueVars
-----------------------------------------------------------------------------
\* What the five invariants need beside themselves: the history variables
\* relate to the backlog even while it is empty.
Bounds ==
  /\ Depth <= deepest
  /\ deepest <= queue.capacity
  /\ lastTaken <= offered

QueueInv ==
  /\ QueueTypeOK
  /\ Bounds
  /\ NoSilentLoss
  /\ OrderPreserved
  /\ FreshestKept
  /\ HighWaterIsHistory
-----------------------------------------------------------------------------
\* What push does in each of the three cases of its admission.
LEMMA PushCases ==
  ASSUME NEW q \in Queue(Nat), NEW x \in Nat, Len(q.items) <= q.capacity
  PROVE  \/ /\ Admission(q) = "Accepted"
            /\ Len(q.items) < q.capacity
            /\ Push(q, x) =
                 [q EXCEPT !.items     = Append(q.items, x),
                           !.highWater = IF q.highWater > Len(q.items)
                                         THEN q.highWater ELSE Len(q.items) + 1]
         \/ /\ Admission(q) = "Rejected"
            /\ Len(q.items) = q.capacity
            /\ q.capacity # 0 => q.policy = "RejectNewest"
            /\ Push(q, x) = [q EXCEPT !.dropped = SaturatingSucc(q.dropped)]
         \/ /\ Admission(q) = "AcceptedEvictingOldest"
            /\ Len(q.items) = q.capacity
            /\ q.capacity # 0
            /\ q.policy = "DropOldest"
            /\ Push(q, x) = [q EXCEPT !.items   = Append(Tail(q.items), x),
                                      !.dropped = SaturatingSucc(q.dropped)]
<1>1. /\ q.items \in Seq(Nat) /\ q.capacity \in Nat /\ Len(q.items) \in Nat
      /\ q.policy \in {"RejectNewest", "DropOldest"}
  BY DEF Queue, OverflowPolicy
<1>2. CASE q.capacity = 0
  <2>1. Admission(q) = "Rejected"
    BY <1>2 DEF Admission
  <2>2. Len(q.items) = q.capacity
    BY <1>1, <1>2
  <2> QED BY <1>2, <2>1, <2>2 DEF Push
<1>3. CASE q.capacity # 0 /\ Len(q.items) < q.capacity
  <2>1. Admission(q) = "Accepted"
    BY <1>1, <1>3 DEF Admission, IsFull
  <2> QED BY <1>3, <2>1 DEF Push
<1>4. CASE q.capacity # 0 /\ Len(q.items) = q.capacity
  <2>0. Admission(q) = IF q.policy = "RejectNewest" THEN "Rejected"
                                              ELSE "AcceptedEvictingOldest"
    BY <1>1, <1>4 DEF Admission, IsFull
  <2>1. CASE q.policy = "RejectNewest"
    BY <1>4, <2>0, <2>1 DEF Push
  <2>2. CASE q.policy = "DropOldest"
    BY <1>4, <2>0, <2>2 DEF Push
  <2> QED BY <1>1, <2>1, <2>2
<1> QED BY <1>1, <1>2, <1>3, <1>4

\* The three shapes an item sequence can take after a method: one more at the
\* back, one fewer at the front, or both.
LEMMA ItemShapes ==
  ASSUME NEW s \in Seq(Nat), NEW x \in Nat
  PROVE  /\ Append(s, x) \in Seq(Nat)
         /\ Len(Append(s, x)) = Len(s) + 1
         /\ \A i \in 1 .. Len(s) : Append(s, x)[i] = s[i]
         /\ Append(s, x)[Len(s) + 1] = x
         /\ s # << >> =>
              /\ Len(s) > 0
              /\ Head(s) = s[1]
              /\ Tail(s) \in Seq(Nat)
              /\ Len(Tail(s)) = Len(s) - 1
              /\ \A i \in 1 .. Len(s) - 1 : Tail(s)[i] = s[i + 1]
  OBVIOUS
-----------------------------------------------------------------------------
LEMMA QueueInitInv == QueueInit => QueueInv
<1> SUFFICES ASSUME QueueInit PROVE QueueInv
  OBVIOUS
<1>1. PICK c \in Nat, p \in OverflowPolicy : queue = New(c, p)
  BY DEF QueueInit
<1>2. c \in Nat
  OBVIOUS
<1>3. /\ queue.items = << >> /\ queue.capacity = c /\ queue.policy = p
      /\ queue.highWater = 0 /\ queue.dropped = 0
      /\ queue \in Queue(Nat)
  BY <1>1, <1>2, DroppedMaxAssumption DEF New, Queue
<1>4. Depth = 0
  BY <1>3 DEF Depth
<1>5. QueueTypeOK /\ Bounds
  BY <1>2, <1>3, <1>4 DEF QueueInit, QueueTypeOK, Bounds
<1>6. NoSilentLoss
  <2>1. Lost = 0
    BY <1>4 DEF QueueInit, Lost
  <2> QED BY <1>3, <2>1, DroppedMaxAssumption DEF NoSilentLoss
<1>7. OrderPreserved /\ FreshestKept
  BY <1>4 DEF OrderPreserved, FreshestKept, Increasing, Consecutive
<1>8. HighWaterIsHistory
  BY <1>3 DEF QueueInit, HighWaterIsHistory
<1> QED BY <1>5, <1>6, <1>7, <1>8 DEF QueueInv

\* How the backlog's order survives each change of shape: one item more at the
\* back (Append), one fewer at the front (Remove), or both (Shift).
LEMMA IncreasingAppend ==
  ASSUME NEW s, NEW t, NEW n \in Nat, NEW lo \in Nat, NEW hi \in Nat,
         \A i \in 1 .. n : s[i] \in Nat,
         Increasing(s, n, lo, hi), lo <= hi,
         t[n + 1] = hi + 1, \A i \in 1 .. n : t[i] = s[i]
  PROVE  Increasing(t, n + 1, lo, hi + 1)
  BY DEF Increasing

LEMMA IncreasingNext ==
  ASSUME NEW s, NEW n \in Nat, NEW lo \in Nat, NEW hi \in Nat,
         \A i \in 1 .. n : s[i] \in Nat, Increasing(s, n, lo, hi)
  PROVE  Increasing(s, n, lo, hi + 1)
  BY DEF Increasing

LEMMA IncreasingShift ==
  ASSUME NEW s, NEW t, NEW n \in Nat, NEW lo \in Nat, NEW hi \in Nat,
         \A i \in 1 .. n : s[i] \in Nat,
         Increasing(s, n, lo, hi), lo <= hi,
         t[n] = hi + 1, \A i \in 1 .. n - 1 : t[i] = s[i + 1]
  PROVE  Increasing(t, n, lo, hi + 1)
  BY DEF Increasing

LEMMA IncreasingRemove ==
  ASSUME NEW s, NEW t, NEW n \in Nat, NEW lo \in Nat, NEW hi \in Nat,
         \A i \in 1 .. n : s[i] \in Nat, n > 0,
         Increasing(s, n, lo, hi),
         \A i \in 1 .. n - 1 : t[i] = s[i + 1]
  PROVE  Increasing(t, n - 1, s[1], hi) /\ s[1] <= hi
  BY DEF Increasing

LEMMA ConsecutiveAppend ==
  ASSUME NEW s, NEW t, NEW n \in Nat, NEW hi \in Nat,
         \A i \in 1 .. n : s[i] \in Nat, Consecutive(s, n, hi),
         t[n + 1] = hi + 1, \A i \in 1 .. n : t[i] = s[i]
  PROVE  Consecutive(t, n + 1, hi + 1)
  BY DEF Consecutive

LEMMA ConsecutiveShift ==
  ASSUME NEW s, NEW t, NEW n \in Nat, NEW hi \in Nat,
         \A i \in 1 .. n : s[i] \in Nat, Consecutive(s, n, hi),
         t[n] = hi + 1, \A i \in 1 .. n - 1 : t[i] = s[i + 1]
  PROVE  Consecutive(t, n, hi + 1)
  BY DEF Consecutive

LEMMA ConsecutiveRemove ==
  ASSUME NEW s, NEW t, NEW n \in Nat, NEW hi \in Nat,
         \A i \in 1 .. n : s[i] \in Nat, Consecutive(s, n, hi),
         \A i \in 1 .. n - 1 : t[i] = s[i + 1]
  PROVE  Consecutive(t, n - 1, hi)
  BY DEF Consecutive

\* The types the arithmetic of a step needs, without the sequence itself.
Numbers ==
  /\ offered \in Nat /\ taken \in Nat /\ discarded \in Nat
  /\ deepest \in Nat /\ lastTaken \in Nat
  /\ Depth \in Nat /\ queue.capacity \in Nat
  /\ queue.highWater \in Nat /\ queue.dropped \in 0 .. DroppedMax
  /\ \A i \in 1 .. Depth : queue.items[i] \in Nat

LEMMA NumbersHold ==
  ASSUME QueueTypeOK PROVE Numbers
  BY DEF QueueTypeOK, Queue, Numbers, Depth
-----------------------------------------------------------------------------
\* The three parts of the invariant that count rather than order, after a push
\* that was accepted with room.
LEMMA AcceptedCounts ==
  ASSUME QueueInv, Numbers,
         offered' = offered + 1, Depth' = Depth + 1, Depth < queue.capacity,
         UNCHANGED <<taken, discarded, lastTaken>>,
         queue'.capacity = queue.capacity, queue'.dropped = queue.dropped,
         queue'.highWater = IF queue.highWater > Depth THEN queue.highWater
                                                       ELSE Depth + 1,
         deepest' = IF Depth' > deepest THEN Depth' ELSE deepest
  PROVE  Bounds' /\ NoSilentLoss' /\ HighWaterIsHistory'
<1>1. Bounds'
  BY DEF QueueInv, Bounds, Numbers
<1>2. NoSilentLoss'
  <2>1. Lost' = Lost
    BY DEF Lost, Numbers
  <2> QED BY <2>1 DEF QueueInv, NoSilentLoss
<1>3. HighWaterIsHistory'
  BY DroppedMaxAssumption DEF QueueInv, HighWaterIsHistory, Bounds, Numbers
<1> QED BY <1>1, <1>2, <1>3

\* The same after a push that lost an item, with the queue at its capacity.
LEMMA LossCounts ==
  ASSUME QueueInv, Numbers,
         offered' = offered + 1, Depth' = Depth, Depth = queue.capacity,
         UNCHANGED <<taken, discarded, lastTaken>>,
         queue'.capacity = queue.capacity,
         queue'.highWater = queue.highWater,
         queue'.dropped = SaturatingSucc(queue.dropped),
         deepest' = IF Depth' > deepest THEN Depth' ELSE deepest
  PROVE  Bounds' /\ NoSilentLoss' /\ HighWaterIsHistory'
<1>1. Bounds' /\ deepest' = deepest /\ deepest = queue.capacity
  BY DEF QueueInv, Bounds, Numbers
<1>2. NoSilentLoss'
  <2>1. Lost' = Lost + 1 /\ Lost \in Int
    BY DEF Lost, Numbers
  <2> QED
    BY <2>1, DroppedMaxAssumption DEF QueueInv, NoSilentLoss, SaturatingSucc, Numbers
<1>3. HighWaterIsHistory'
  BY <1>1 DEF QueueInv, HighWaterIsHistory
<1> QED BY <1>1, <1>2, <1>3
-----------------------------------------------------------------------------
\* A push keeps every part of the invariant, whatever its admission.
LEMMA OfferInv == QueueInv /\ Offer => QueueInv'
<1> SUFFICES ASSUME QueueInv, Offer PROVE QueueInv'
  OBVIOUS
<1>1. /\ Numbers
      /\ queue \in Queue(Nat) /\ queue.items \in Seq(Nat)
      /\ Depth <= queue.capacity /\ Depth = Len(queue.items)
      /\ lastTaken <= offered
  BY NumbersHold DEF QueueInv, QueueTypeOK, Queue, Bounds, Depth
<1>2. /\ offered' = offered + 1 /\ queue' = Push(queue, offered + 1)
      /\ UNCHANGED <<taken, discarded, lastTaken>>
      /\ deepest' = IF Depth' > deepest THEN Depth' ELSE deepest
  BY DEF Offer, Depth
<1>3. offered + 1 \in Nat /\ SaturatingSucc(queue.dropped) \in 0 .. DroppedMax
  BY <1>1, DroppedMaxAssumption DEF SaturatingSucc, Numbers
<1>4. CASE /\ Depth < queue.capacity
           /\ queue' = [queue EXCEPT
                          !.items     = Append(queue.items, offered + 1),
                          !.highWater = IF queue.highWater > Depth
                                        THEN queue.highWater
                                        ELSE Depth + 1]
  <2> DEFINE s == Append(queue.items, offered + 1)
  <2>1. /\ s \in Seq(Nat) /\ Len(s) = Depth + 1
        /\ \A i \in 1 .. Depth : s[i] = queue.items[i]
        /\ s[Depth + 1] = offered + 1
    BY <1>1, <1>3, ItemShapes
  <2> HIDE DEF s
  <2>2. /\ queue'.items = s /\ queue'.capacity = queue.capacity
        /\ queue'.policy = queue.policy /\ queue'.dropped = queue.dropped
        /\ queue'.highWater = IF queue.highWater > Depth
                              THEN queue.highWater ELSE Depth + 1
    BY <1>1, <1>4 DEF Queue, s
  <2>3. queue' \in Queue(Nat)
    <3>1. (IF queue.highWater > Depth THEN queue.highWater ELSE Depth + 1) \in Nat
      BY <1>1 DEF Numbers
    <3> QED BY <1>1, <1>4, <2>1, <3>1 DEF Queue, s
  <2>4. Depth' = Depth + 1
    BY <2>1, <2>2 DEF Depth
  <2>5. QueueTypeOK'
    BY <1>1, <1>2, <1>3, <1>4, <2>2, <2>3, <2>4 DEF QueueTypeOK, Numbers
  <2>6. Bounds' /\ NoSilentLoss' /\ HighWaterIsHistory'
    BY <1>1, <1>2, <1>4, <2>2, <2>4, AcceptedCounts
  <2>7. OrderPreserved'
    BY <1>1, <1>2, <2>1, <2>2, <2>4, IncreasingAppend
    DEF QueueInv, OrderPreserved, Numbers
  <2>8. FreshestKept'
    BY <1>1, <1>2, <2>1, <2>2, <2>4, ConsecutiveAppend
    DEF QueueInv, FreshestKept, Numbers
  <2> QED BY <2>5, <2>6, <2>7, <2>8 DEF QueueInv
<1>5. CASE /\ Depth = queue.capacity
           /\ queue.capacity # 0 => queue.policy = "RejectNewest"
           /\ queue' = [queue EXCEPT !.dropped = SaturatingSucc(queue.dropped)]
  <2>1. /\ queue'.items = queue.items /\ queue'.capacity = queue.capacity
        /\ queue'.policy = queue.policy /\ queue'.highWater = queue.highWater
        /\ queue'.dropped = SaturatingSucc(queue.dropped)
    BY <1>1, <1>5 DEF Queue
  <2>2. queue' \in Queue(Nat)
    BY <1>1, <1>3, <1>5 DEF Queue
  <2>3. Depth' = Depth
    BY <2>1 DEF Depth
  <2>4. Bounds' /\ NoSilentLoss' /\ HighWaterIsHistory'
    BY <1>1, <1>2, <1>5, <2>1, <2>3, LossCounts
  <2>5. QueueTypeOK'
    BY <1>1, <1>2, <1>3, <1>5, <2>1, <2>2, <2>3 DEF QueueTypeOK, Numbers
  <2>6. OrderPreserved'
    BY <1>1, <1>2, <2>1, <2>3, IncreasingNext DEF QueueInv, OrderPreserved, Numbers
  <2>7. FreshestKept'
    <3>1. CASE queue.policy = "DropOldest"
      <4>1. Depth = 0
        BY <1>1, <1>5, <3>1 DEF Numbers
      <4> QED BY <2>1, <2>3, <4>1 DEF FreshestKept, Consecutive
    <3> QED BY <2>1, <3>1 DEF FreshestKept
  <2> QED BY <2>4, <2>5, <2>6, <2>7 DEF QueueInv
<1>6. CASE /\ Depth = queue.capacity /\ queue.capacity # 0
           /\ queue' = [queue EXCEPT
                          !.items   = Append(Tail(queue.items), offered + 1),
                          !.dropped = SaturatingSucc(queue.dropped)]
  <2> DEFINE t == Tail(queue.items)
             s == Append(t, offered + 1)
  <2>1. /\ t \in Seq(Nat) /\ Len(t) = Depth - 1
        /\ \A i \in 1 .. Depth - 1 : t[i] = queue.items[i + 1]
    <3>1. queue.items # << >>
      BY <1>1, <1>6
    <3> QED BY <1>1, <3>1, ItemShapes
  <2> HIDE DEF t
  <2>2. /\ s \in Seq(Nat) /\ Len(s) = Depth
        /\ \A i \in 1 .. Depth - 1 : s[i] = queue.items[i + 1]
        /\ s[Depth] = offered + 1
    <3>1. /\ s \in Seq(Nat) /\ Len(s) = Len(t) + 1
          /\ \A i \in 1 .. Len(t) : s[i] = t[i]
          /\ s[Len(t) + 1] = offered + 1
      BY <1>3, <2>1, ItemShapes
    <3>2. (Depth - 1) + 1 = Depth
      BY <1>1 DEF Numbers
    <3> HIDE DEF s
    <3> QED BY <2>1, <3>1, <3>2
  <2> HIDE DEF s
  <2>3. /\ queue'.items = s /\ queue'.capacity = queue.capacity
        /\ queue'.policy = queue.policy /\ queue'.highWater = queue.highWater
        /\ queue'.dropped = SaturatingSucc(queue.dropped)
    BY <1>1, <1>6 DEF Queue, s, t
  <2>4. queue' \in Queue(Nat)
    BY <1>1, <1>3, <1>6, <2>2 DEF Queue, s, t
  <2>5. Depth' = Depth
    BY <2>2, <2>3 DEF Depth
  <2>6. Bounds' /\ NoSilentLoss' /\ HighWaterIsHistory'
    BY <1>1, <1>2, <1>6, <2>3, <2>5, LossCounts
  <2>7. QueueTypeOK'
    BY <1>1, <1>2, <1>3, <1>6, <2>3, <2>4, <2>5 DEF QueueTypeOK, Numbers
  <2>8. OrderPreserved'
    BY <1>1, <1>2, <2>2, <2>3, <2>5, IncreasingShift
    DEF QueueInv, OrderPreserved, Numbers
  <2>9. FreshestKept'
    BY <1>1, <1>2, <2>2, <2>3, <2>5, ConsecutiveShift
    DEF QueueInv, FreshestKept, Numbers
  <2> QED BY <2>6, <2>7, <2>8, <2>9 DEF QueueInv
<1> QED BY <1>1, <1>2, <1>3, <1>4, <1>5, <1>6, PushCases

\* A pop removes the front, so the rest stays ordered behind it.
LEMMA TakeInv == QueueInv /\ Take => QueueInv'
<1> SUFFICES ASSUME QueueInv, Take PROVE QueueInv'
  OBVIOUS
<1> DEFINE t == Tail(queue.items)
<1>1. /\ Numbers
      /\ queue \in Queue(Nat) /\ queue.items \in Seq(Nat)
      /\ queue.items # << >> /\ Depth = Len(queue.items)
      /\ Depth <= queue.capacity /\ Depth <= deepest
  BY NumbersHold DEF QueueInv, QueueTypeOK, Queue, Bounds, Depth, Take
<1>2. /\ t \in Seq(Nat) /\ Len(t) = Depth - 1 /\ Depth > 0
      /\ \A i \in 1 .. Depth - 1 : t[i] = queue.items[i + 1]
      /\ Head(queue.items) = queue.items[1]
  BY <1>1, ItemShapes
<1>3. queue' \in Queue(Nat)
  BY <1>1, <1>2 DEF Take, Pop, Queue
<1>4. /\ queue'.items = t /\ queue'.capacity = queue.capacity
      /\ queue'.policy = queue.policy /\ queue'.highWater = queue.highWater
      /\ queue'.dropped = queue.dropped
  BY <1>1 DEF Take, Pop, Queue
<1> HIDE DEF t
<1>5. /\ taken' = taken + 1 /\ lastTaken' = queue.items[1]
      /\ offered' = offered /\ discarded' = discarded /\ deepest' = deepest
  BY <1>2 DEF Take
<1>6. Depth' = Depth - 1
  BY <1>2, <1>4 DEF Depth
<1>7. Increasing(t, Depth - 1, queue.items[1], offered) /\ queue.items[1] <= offered
  BY <1>1, <1>2, IncreasingRemove DEF QueueInv, OrderPreserved, Numbers
<1>8. queue.items[1] \in Nat
  BY <1>1, <1>2 DEF Numbers
<1>9. QueueTypeOK' /\ Bounds'
  BY <1>1, <1>2, <1>3, <1>4, <1>5, <1>6, <1>7, <1>8
  DEF QueueInv, QueueTypeOK, Bounds, Numbers
<1>10. NoSilentLoss'
  <2>1. Lost' = Lost
    BY <1>1, <1>5, <1>6 DEF Lost, Numbers
  <2> QED BY <1>4, <2>1 DEF QueueInv, NoSilentLoss
<1>11. OrderPreserved'
  BY <1>4, <1>5, <1>6, <1>7 DEF OrderPreserved
<1>12. FreshestKept'
  BY <1>1, <1>2, <1>4, <1>5, <1>6, ConsecutiveRemove
  DEF QueueInv, FreshestKept, Numbers
<1>13. HighWaterIsHistory'
  BY <1>4, <1>5 DEF QueueInv, HighWaterIsHistory
<1> QED BY <1>9, <1>10, <1>11, <1>12, <1>13 DEF QueueInv

\* A clear empties the backlog and keeps both counters.
LEMMA DiscardInv == QueueInv /\ Discard => QueueInv'
<1> SUFFICES ASSUME QueueInv, Discard PROVE QueueInv'
  OBVIOUS
<1>1. /\ Numbers /\ queue \in Queue(Nat) /\ Depth = Len(queue.items)
      /\ Depth <= deepest /\ deepest <= queue.capacity /\ lastTaken <= offered
  BY NumbersHold DEF QueueInv, QueueTypeOK, Queue, Bounds, Depth
<1>2. queue' \in Queue(Nat)
  <2>1. << >> \in Seq(Nat)
    OBVIOUS
  <2>2. queue' = [queue EXCEPT !.items = << >>]
    BY DEF Discard, Clear
  <2> QED BY <1>1, <2>1, <2>2 DEF Queue
<1>3. /\ queue'.items = << >> /\ queue'.capacity = queue.capacity
      /\ queue'.policy = queue.policy /\ queue'.highWater = queue.highWater
      /\ queue'.dropped = queue.dropped
  BY <1>1 DEF Discard, Clear, Queue
<1>4. /\ discarded' = discarded + Depth /\ lastTaken' = lastTaken
      /\ offered' = offered /\ taken' = taken /\ deepest' = deepest
  BY <1>1 DEF Discard
<1>5. Depth' = 0
  BY <1>3 DEF Depth
<1>6. QueueTypeOK' /\ Bounds'
  BY <1>1, <1>2, <1>3, <1>4, <1>5 DEF QueueTypeOK, Bounds, Numbers
<1>7. NoSilentLoss'
  <2>1. Lost' = Lost
    BY <1>1, <1>4, <1>5 DEF Lost, Numbers
  <2> QED BY <1>3, <2>1 DEF QueueInv, NoSilentLoss
<1>8. OrderPreserved' /\ FreshestKept'
  BY <1>5 DEF OrderPreserved, FreshestKept, Increasing, Consecutive
<1>9. HighWaterIsHistory'
  BY <1>3, <1>4 DEF QueueInv, HighWaterIsHistory
<1> QED BY <1>6, <1>7, <1>8, <1>9 DEF QueueInv

\* The invariant is inductive.
LEMMA QueueInductive == QueueInv /\ [QueueNext]_queueVars => QueueInv'
<1> SUFFICES ASSUME QueueInv, [QueueNext]_queueVars PROVE QueueInv'
  OBVIOUS
<1>1. CASE UNCHANGED queueVars
  BY <1>1 DEF queueVars, QueueInv, QueueTypeOK, Bounds, NoSilentLoss, Lost, Depth,
              OrderPreserved, FreshestKept, HighWaterIsHistory
<1>2. CASE QueueNext
  BY <1>2, OfferInv, TakeInv, DiscardInv DEF QueueNext
<1> QED BY <1>1, <1>2
-----------------------------------------------------------------------------
\* Type correctness; in particular the depth never exceeds the capacity.
THEOREM QueueTypeCorrect == QueueSpec => []QueueTypeOK
<1>1. QueueInv => QueueTypeOK
  BY DEF QueueInv
<1> QED BY <1>1, QueueInitInv, QueueInductive, PTL DEF QueueSpec

\* Every item offered is taken, discarded, queued or counted as dropped.
THEOREM NothingLostSilently == QueueSpec => []NoSilentLoss
<1>1. QueueInv => NoSilentLoss
  BY DEF QueueInv
<1> QED BY <1>1, QueueInitInv, QueueInductive, PTL DEF QueueSpec

\* Items leave in the order they were offered.
THEOREM FirstInFirstOut == QueueSpec => []OrderPreserved
<1>1. QueueInv => OrderPreserved
  BY DEF QueueInv
<1> QED BY <1>1, QueueInitInv, QueueInductive, PTL DEF QueueSpec

\* DropOldest keeps exactly the newest items.
THEOREM DropOldestKeepsFreshest == QueueSpec => []FreshestKept
<1>1. QueueInv => FreshestKept
  BY DEF QueueInv
<1> QED BY <1>1, QueueInitInv, QueueInductive, PTL DEF QueueSpec

\* The high-water mark reports the deepest the queue has ever been.
THEOREM HighWaterExact == QueueSpec => []HighWaterIsHistory
<1>1. QueueInv => HighWaterIsHistory
  BY DEF QueueInv
<1> QED BY <1>1, QueueInitInv, QueueInductive, PTL DEF QueueSpec

\* RejectNewest never changes, moves or removes a queued item on a push.
THEOREM RejectNewestKeepsBacklog == QueueSpec => BacklogIntact
<1> DEFINE Intact == (queue.policy = "RejectNewest" /\ offered' # offered) =>
                        /\ Depth' >= Depth
                        /\ \A i \in 1 .. Depth : queue'.items[i] = queue.items[i]
<1>1. ASSUME QueueTypeOK, Offer, queue.policy = "RejectNewest" PROVE Intact
  <2>1. /\ Numbers /\ queue \in Queue(Nat) /\ queue.items \in Seq(Nat)
        /\ Depth <= queue.capacity /\ Depth = Len(queue.items)
        /\ offered + 1 \in Nat
    BY <1>1, NumbersHold DEF QueueTypeOK, Queue, Depth, Numbers
  <2>2. queue' = Push(queue, offered + 1)
    BY <1>1 DEF Offer
  <2>3. CASE queue'.items = Append(queue.items, offered + 1)
    <3>1. /\ Len(queue'.items) = Depth + 1
          /\ \A i \in 1 .. Depth : queue'.items[i] = queue.items[i]
      BY <2>1, <2>3, ItemShapes
    <3>2. Depth' = Depth + 1
      BY <3>1 DEF Depth
    <3> QED BY <2>1, <3>1, <3>2 DEF Numbers
  <2>4. CASE queue'.items = queue.items
    <3>1. Depth' = Depth
      BY <2>4 DEF Depth
    <3> QED BY <2>1, <2>4, <3>1 DEF Numbers
  <2>5. \/ queue'.items = Append(queue.items, offered + 1)
        \/ queue'.items = queue.items
    <3>1. \/ Push(queue, offered + 1) =
               [queue EXCEPT !.items     = Append(queue.items, offered + 1),
                             !.highWater = IF queue.highWater > Len(queue.items)
                                           THEN queue.highWater ELSE Len(queue.items) + 1]
          \/ Push(queue, offered + 1) =
               [queue EXCEPT !.dropped = SaturatingSucc(queue.dropped)]
      BY <1>1, <2>1, PushCases
    <3> QED BY <2>1, <2>2, <3>1 DEF Queue
  <2> QED BY <2>3, <2>4, <2>5
<1>2. QueueTypeOK /\ [QueueNext]_queueVars => [Intact]_queueVars
  <2>1. ASSUME QueueTypeOK, QueueNext PROVE Intact
    <3>1. CASE Offer
      BY <1>1, <2>1, <3>1
    <3>2. CASE Take \/ Discard
      BY <3>2 DEF Take, Discard
    <3> QED BY <2>1, <3>1, <3>2 DEF QueueNext
  <2> QED BY <2>1
<1> QED BY <1>2, QueueTypeCorrect, PTL DEF QueueSpec, BacklogIntact
-----------------------------------------------------------------------------
(***************************************************************************)
(* The CIA behind the serial register, under any accesses and ticks: CiaUse, *)
(* for every width of a byte and every guest.                               *)
(***************************************************************************)

\* A byte of the latch replaced leaves a word a word.
LEMMA LatchBytes ==
  ASSUME NEW n \in Word, NEW b \in 0 .. Byte - 1
  PROVE  /\ (n \div Byte) * Byte + b \in Word
         /\ (n % Byte) + b * Byte \in Word
<1> DEFINE q == n \div Byte
           r == n % Byte
<1>1. /\ Byte \in Nat /\ Byte > 1 /\ n \in Nat /\ n < Byte * Byte
      /\ b \in Nat /\ b <= Byte - 1
  BY ByteAssumption DEF Word
<1>2. q \in Nat /\ r \in 0 .. Byte - 1 /\ n = Byte * q + r
  BY <1>1
<1> HIDE DEF q, r
<1>3. q <= Byte - 1
  <2> SUFFICES ASSUME q >= Byte PROVE FALSE
    BY <1>1, <1>2
  <2>1. Byte * q >= Byte * Byte
    BY <1>1, <1>2
  <2> QED BY <2>1, <1>1, <1>2
<1>4. q * Byte \in Nat /\ q * Byte <= (Byte - 1) * Byte
  BY <1>1, <1>2, <1>3
<1>5. b * Byte \in Nat /\ b * Byte <= (Byte - 1) * Byte
  BY <1>1
<1>6. (Byte - 1) * Byte + (Byte - 1) <= Byte * Byte - 1
  BY <1>1
<1>7. Byte * Byte - 1 \in Int
  BY <1>1
<1>8. q * Byte + b \in Word
  BY <1>1, <1>4, <1>6, <1>7 DEF Word
<1>9. r + b * Byte \in Word
  BY <1>1, <1>2, <1>5, <1>6, <1>7 DEF Word
<1> QED BY <1>8, <1>9 DEF q, r

\* The typed parts of the state, one by one.
HistoryOK == loaded \in [Which -> Word] /\ elapsed \in [Which -> Word]
               /\ fired \subseteq Which /\ due \subseteq Which
ClockOK   == chip.tod \in Time /\ chip.latch \in Time /\ asked \in Time
               /\ digit \in 1 .. 3 /\ chip.latched \in BOOLEAN
ChipOK    == /\ chip \in [timer : [Which -> Timer], data : SUBSET Source,
                          mask : SUBSET Source, ir : BOOLEAN,
                          sdr : Code \cup {NoCode}, tod : Time,
                          latched : BOOLEAN, latch : Time]

\* While a reading is under way its time stands in the latch, and the digits
\* read are the first digits of that time.
ReadingInv ==
  /\ digit # 1 => /\ chip.latched /\ chip.latch = asked
                  /\ \A i \in 1 .. digit - 1 : readout[i] = asked[i]
  /\ digit = 1 => ReadingCoherent
  /\ digit # 1 => DOMAIN readout = 1 .. digit - 1

ChipIInv == /\ ChipOK /\ HistoryOK /\ ClockOK
        /\ LineTruthful /\ PeriodExact /\ OneShotFiresOnce /\ PeriodsReported
        /\ ReadingInv

LEMMA ChipInitIInv == ChipInit => ChipIInv
<1> SUFFICES ASSUME ChipInit PROVE ChipIInv
  OBVIOUS
<1>0. Byte \in Nat /\ Byte > 1 /\ Byte * Byte - 1 \in Word /\ 0 \in Word
  <2>1. Byte \in Nat /\ Byte > 1
    BY ByteAssumption
  <2>2. Byte * Byte \in Nat /\ Byte * Byte >= 1
    BY <2>1
  <2> QED BY <2>1, <2>2 DEF Word
<1>1. NewTimer \in Timer /\ NewTimer.count = Byte * Byte - 1 /\ ~NewTimer.running
  BY <1>0 DEF NewTimer, Timer
<1>2. <<0, 0, 0>> \in Time
  BY <1>0 DEF Time
<1> HIDE DEF NewTimer, Timer, Time
<1>3. ChipOK
  BY <1>1, <1>2 DEF ChipInit, NewChip, ChipOK
<1>4. HistoryOK
  BY <1>0, <1>1 DEF ChipInit, NewChip, HistoryOK
<1>5. ClockOK
  BY <1>2 DEF ChipInit, NewChip, ClockOK
<1>6. PeriodExact
  BY <1>0, <1>1 DEF ChipInit, NewChip, PeriodExact, Word
<1>7. ReadingInv
  BY DEF ChipInit, ReadingInv, ReadingCoherent
<1> QED BY <1>3, <1>4, <1>5, <1>6, <1>7
        DEF ChipIInv, ChipInit, NewChip, LineTruthful, OneShotFiresOnce,
            PeriodsReported
-----------------------------------------------------------------------------
(* A guest that writes a timer: the timer's new value, a counter that goes on *)
(* or is loaded, and the one-shot timers that stand.                          *)

LEMMA TimerWritten ==
  ASSUME ChipIInv, NEW w \in Which, NEW t \in Timer,
         chip' = [chip EXCEPT !.timer[w] = t], UNCHANGED reader, HistoryOK',
         \A v \in Which \ {w} : loaded'[v] = loaded[v] /\ elapsed'[v] = elapsed[v],
         t.count + elapsed'[w] = loaded'[w], due' = due,
         fired' \subseteq fired, w \in fired' => ~t.running
  PROVE  ChipIInv'
<1> HIDE DEF Timer, Time, Word
<1>1. ChipOK'
  BY DEF ChipIInv, ChipOK
<1>2. ClockOK' /\ LineTruthful' /\ ReadingInv'
  BY DEF ChipIInv, ChipOK, ClockOK, LineTruthful, ReadingInv, ReadingCoherent, reader
<1>3. \A v \in Which : chip'.timer[v] = IF v = w THEN t ELSE chip.timer[v]
  BY DEF ChipIInv, ChipOK
<1>4. PeriodExact'
  BY <1>3 DEF ChipIInv, PeriodExact
<1>5. OneShotFiresOnce'
  BY <1>3 DEF ChipIInv, HistoryOK, OneShotFiresOnce
<1>6. PeriodsReported'
  BY DEF ChipIInv, ChipOK, PeriodsReported
<1> QED BY <1>1, <1>2, <1>4, <1>5, <1>6 DEF ChipIInv

LEMMA StepWriteLow ==
  ASSUME ChipIInv, NEW w \in Which, NEW b \in 0 .. Byte - 1, WriteTimerLow(w, b)
  PROVE  ChipIInv'
<1> DEFINE t == WriteLow(chip.timer[w], b)
<1>0. chip.timer[w] \in Timer
  BY DEF ChipIInv, ChipOK
<1>1. (chip.timer[w].latch \div Byte) * Byte + b \in Word
  BY <1>0, LatchBytes DEF Timer
<1>2. /\ t \in Timer /\ t.count = chip.timer[w].count
      /\ t.running = chip.timer[w].running
  <2> HIDE DEF Word
  <2> QED BY <1>0, <1>1 DEF WriteLow, Timer
<1>3. /\ chip' = [chip EXCEPT !.timer[w] = t] /\ UNCHANGED reader
      /\ UNCHANGED <<loaded, elapsed, fired, due>>
  BY DEF WriteTimerLow, SetTimer, Undisturbed
<1> HIDE DEF t
<1>4. HistoryOK' /\ t.count + elapsed'[w] = loaded'[w]
  BY <1>2, <1>3 DEF ChipIInv, HistoryOK, PeriodExact
<1>5. w \in fired' => ~t.running
  BY <1>2, <1>3 DEF ChipIInv, OneShotFiresOnce
<1> QED BY <1>2, <1>3, <1>4, <1>5, TimerWritten

\* A counter that was just loaded has counted nothing.
LEMMA JustLoaded ==
  ASSUME ChipIInv, NEW w \in Which, NEW n \in Word, Reloaded(w, n)
  PROVE  /\ loaded' \in [Which -> Word] /\ elapsed' \in [Which -> Word]
         /\ \A v \in Which \ {w} : loaded'[v] = loaded[v] /\ elapsed'[v] = elapsed[v]
         /\ n + elapsed'[w] = loaded'[w]
<1>1. 0 \in Word /\ n + 0 = n
  <2>1. Byte * Byte - 1 \in Int
    BY ByteAssumption
  <2> QED BY <2>1 DEF Word
<1> HIDE DEF Word
<1> QED BY <1>1 DEF Reloaded, ChipIInv, HistoryOK

LEMMA StepWriteHigh ==
  ASSUME ChipIInv, NEW w \in Which, NEW b \in 0 .. Byte - 1, WriteTimerHigh(w, b)
  PROVE  ChipIInv'
<1> DEFINE o == chip.timer[w]
           n == (o.latch % Byte) + b * Byte
           t == WriteHigh(o, b)
           goes == o.running /\ ~o.oneShot
<1>0. o \in Timer
  BY DEF ChipIInv, ChipOK
<1>1. n \in Word
  BY <1>0, LatchBytes DEF Timer
<1>2. /\ t \in Timer /\ t.count = (IF goes THEN o.count ELSE n)
      /\ t.running = (o.running \/ o.oneShot)
  <2> HIDE DEF Word
  <2>1. t = [o EXCEPT !.latch = n, !.count = IF goes THEN @ ELSE n,
                      !.running = @ \/ o.oneShot]
    BY DEF WriteHigh
  <2> HIDE DEF n, t
  <2> QED BY <1>0, <1>1, <2>1 DEF Timer
<1>3. /\ chip' = [chip EXCEPT !.timer[w] = t] /\ UNCHANGED reader
      /\ IF goes THEN UNCHANGED <<loaded, elapsed>> ELSE Reloaded(w, n)
      /\ fired' = IF o.oneShot THEN fired \ {w} ELSE fired
      /\ due' = due
  BY DEF WriteTimerHigh, SetTimer, Undisturbed
<1>4. w \in fired /\ ~o.oneShot => ~o.running
  BY DEF ChipIInv, OneShotFiresOnce
<1>5. HistoryOK /\ o.count + elapsed[w] = loaded[w]
  BY DEF ChipIInv, PeriodExact
<1> HIDE DEF n, t, o
<1>6. fired' \subseteq fired /\ (w \in fired' => ~t.running)
  BY <1>2, <1>3, <1>4
<1>7. /\ HistoryOK' /\ t.count + elapsed'[w] = loaded'[w]
      /\ \A v \in Which \ {w} : loaded'[v] = loaded[v] /\ elapsed'[v] = elapsed[v]
  <2>1. CASE goes
    BY <2>1, <1>2, <1>3, <1>5, <1>6 DEF HistoryOK
  <2>2. CASE ~goes
    BY <2>2, <1>1, <1>2, <1>3, <1>5, <1>6, JustLoaded DEF HistoryOK
  <2> QED BY <2>1, <2>2
<1> QED BY <1>2, <1>3, <1>6, <1>7, TimerWritten

LEMMA StepWriteControl ==
  ASSUME ChipIInv, NEW w \in Which, NEW start \in BOOLEAN, NEW oneShot \in BOOLEAN,
         NEW load \in BOOLEAN, WriteTimerControl(w, start, oneShot, load)
  PROVE  ChipIInv'
<1> DEFINE o == chip.timer[w]
           t == WriteControl(o, start, oneShot, load)
<1>0. o \in Timer /\ o.latch \in Word
  BY DEF ChipIInv, ChipOK, Timer
<1>1. /\ t \in Timer /\ t.count = (IF load THEN o.latch ELSE o.count)
      /\ t.running = start
  <2> HIDE DEF Word
  <2> QED BY <1>0 DEF WriteControl, Timer
<1>2. /\ chip' = [chip EXCEPT !.timer[w] = t] /\ UNCHANGED reader
      /\ IF load THEN Reloaded(w, o.latch) ELSE UNCHANGED <<loaded, elapsed>>
      /\ fired' = IF start THEN fired \ {w} ELSE fired
      /\ due' = due
  BY DEF WriteTimerControl, SetTimer, Undisturbed
<1>3. HistoryOK /\ o.count + elapsed[w] = loaded[w]
  BY DEF ChipIInv, PeriodExact
<1> HIDE DEF t, o
<1>4. fired' \subseteq fired /\ (w \in fired' => ~t.running)
  BY <1>1, <1>2
<1>5. /\ HistoryOK' /\ t.count + elapsed'[w] = loaded'[w]
      /\ \A v \in Which \ {w} : loaded'[v] = loaded[v] /\ elapsed'[v] = elapsed[v]
  <2>1. CASE load
    BY <2>1, <1>0, <1>1, <1>2, <1>3, <1>4, JustLoaded DEF HistoryOK
  <2>2. CASE ~load
    BY <2>2, <1>1, <1>2, <1>3, <1>4 DEF HistoryOK
  <2> QED BY <2>1, <2>2
<1> QED BY <1>1, <1>2, <1>4, <1>5, TimerWritten
-----------------------------------------------------------------------------
(* A step that touches neither timer nor clock: the interrupt registers stay  *)
(* true and the serial register typed.                                        *)

\* The sources for which the line may lag behind.
Lag == IF ChipB THEN {"FLG"} ELSE {}

Truthful(data, mask, ir) ==
  (~ir => data \cap mask \subseteq Lag) /\ (ir => data # {})

LEMMA CausesChanged ==
  ASSUME ChipIInv, UNCHANGED <<loaded, elapsed, fired>>, UNCHANGED reader,
         NEW data \in SUBSET Source, NEW mask \in SUBSET Source, NEW ir \in BOOLEAN,
         NEW sdr \in Code \cup {NoCode},
         chip' = [chip EXCEPT !.data = data, !.mask = mask, !.ir = ir, !.sdr = sdr],
         Truthful(data, mask, ir), data \cap Which = due'
  PROVE  ChipIInv'
<1> HIDE DEF Timer, Time, Word, Source
<1>1. ChipOK'
  BY DEF ChipIInv, ChipOK
<1>2. /\ chip'.timer = chip.timer /\ chip'.tod = chip.tod
      /\ chip'.latched = chip.latched /\ chip'.latch = chip.latch
      /\ chip'.data = data /\ chip'.mask = mask /\ chip'.ir = ir
  BY DEF ChipIInv, ChipOK
<1>3. HistoryOK' /\ PeriodExact' /\ OneShotFiresOnce' /\ PeriodsReported'
  BY <1>2 DEF ChipIInv, HistoryOK, PeriodExact, OneShotFiresOnce, PeriodsReported
<1>4. ClockOK' /\ ReadingInv'
  BY <1>2 DEF ChipIInv, ClockOK, ReadingInv, ReadingCoherent, reader
<1>5. LineTruthful'
  BY <1>2 DEF LineTruthful, Lag, Truthful
<1> QED BY <1>1, <1>3, <1>4, <1>5 DEF ChipIInv

LEMMA StepInterrupts ==
  ASSUME ChipIInv,
         \/ \E enable \in BOOLEAN, sources \in SUBSET Source :
              WriteInterrupt(enable, sources)
         \/ WritePortB \/ WriteSerialByte \/ ReadInterrupt \/ PulseFlag \/ ReceiveByte
  PROVE  ChipIInv'
<1>0. /\ chip.data \in SUBSET Source /\ chip.mask \in SUBSET Source
      /\ chip.ir \in BOOLEAN /\ chip.sdr \in Code \cup {NoCode}
      /\ ~chip.ir => chip.data \cap chip.mask \subseteq Lag
      /\ chip.ir => chip.data # {}
      /\ chip.data \cap Which = due
      /\ chip = [timer |-> chip.timer, data |-> chip.data, mask |-> chip.mask,
                 ir |-> chip.ir, sdr |-> chip.sdr, tod |-> chip.tod,
                 latched |-> chip.latched, latch |-> chip.latch]
  BY DEF ChipIInv, ChipOK, LineTruthful, Lag, PeriodsReported
<1>1. ASSUME NEW enable \in BOOLEAN, NEW sources \in SUBSET Source,
             WriteInterrupt(enable, sources)
      PROVE  ChipIInv'
  <2> DEFINE mask == IF enable THEN chip.mask \cup sources ELSE chip.mask \ sources
             ir   == chip.ir \/ chip.data \cap mask # {}
  <2>1. mask \in SUBSET Source /\ ir \in BOOLEAN
    BY <1>0
  <2>2. chip' = [chip EXCEPT !.data = chip.data, !.mask = mask, !.ir = ir,
                             !.sdr = chip.sdr]
    BY <1>0, <1>1 DEF WriteInterrupt, WriteIcr, Rethink
  <2>3. Truthful(chip.data, mask, ir)
    BY <1>0 DEF Truthful
  <2>4. UNCHANGED <<loaded, elapsed, fired>> /\ UNCHANGED reader /\ due' = due
    BY <1>1 DEF WriteInterrupt, history
  <2> HIDE DEF mask, ir
  <2> QED BY <1>0, <2>1, <2>2, <2>3, <2>4, CausesChanged
<1>2. CASE ReadInterrupt
  <2>1. chip' = [chip EXCEPT !.data = {}, !.mask = chip.mask, !.ir = FALSE,
                             !.sdr = chip.sdr]
    BY <1>0, <1>2 DEF ReadInterrupt, AfterReadIcr
  <2>2. UNCHANGED <<loaded, elapsed, fired>> /\ UNCHANGED reader /\ due' = {}
    BY <1>2 DEF ReadInterrupt
  <2>3. {} \in SUBSET Source /\ FALSE \in BOOLEAN /\ Truthful({}, chip.mask, FALSE)
        /\ {} \cap Which = {}
    BY DEF Truthful
  <2> QED BY <1>0, <2>1, <2>2, <2>3, CausesChanged
<1>3. CASE PulseFlag
  <2> DEFINE data == chip.data \cup {"FLG"}
             ir   == chip.ir \/ data \cap chip.mask # {}
  <2>1. data \in SUBSET Source /\ ir \in BOOLEAN
    BY <1>0 DEF Source
  <2>2. chip' = [chip EXCEPT !.data = data, !.mask = chip.mask, !.ir = ir,
                             !.sdr = chip.sdr]
    BY <1>0, <1>3 DEF PulseFlag, SetFlag, Rethink
  <2>3. Truthful(data, chip.mask, ir)
    BY <1>0 DEF Truthful
  <2>4. UNCHANGED <<loaded, elapsed, fired>> /\ UNCHANGED reader /\ due' = due
    BY <1>3 DEF PulseFlag, history
  <2>5. data \cap Which = chip.data \cap Which
    BY DEF Which
  <2> HIDE DEF data, ir
  <2> QED BY <1>0, <2>1, <2>2, <2>3, <2>4, <2>5, CausesChanged
<1>4. CASE ReceiveByte
  <2> DEFINE data == chip.data \cup {"SP"}
             ir   == chip.ir \/ "SP" \in chip.mask
  <2>0. PICK code \in Code : chip' = LoadSerial(chip, code)
    BY <1>4 DEF ReceiveByte
  <2>1. /\ data \in SUBSET Source /\ ir \in BOOLEAN /\ code \in Code \cup {NoCode}
        /\ chip.mask \in SUBSET Source
    BY <1>0 DEF Source
  <2>2. chip' = [chip EXCEPT !.data = data, !.mask = chip.mask, !.ir = ir,
                             !.sdr = code]
    BY <1>0, <2>0 DEF LoadSerial
  <2>3. Truthful(data, chip.mask, ir)
    BY <1>0 DEF Truthful
  <2>4. UNCHANGED <<loaded, elapsed, fired>> /\ UNCHANGED reader /\ due' = due
    BY <1>4 DEF ReceiveByte, history
  <2>5. data \cap Which = chip.data \cap Which
    BY DEF Which
  <2> HIDE DEF data, ir
  <2> QED BY <1>0, <2>1, <2>2, <2>3, <2>4, <2>5, CausesChanged
<1>5. CASE WritePortB
  <2> DEFINE mask == chip.mask \cup {"FLG"}
  <2>1. /\ chip.data \in SUBSET Source /\ mask \in SUBSET Source /\ chip.ir \in BOOLEAN
        /\ chip.sdr \in Code \cup {NoCode}
    BY <1>0 DEF Source
  <2>2. chip' = [chip EXCEPT !.data = chip.data, !.mask = mask, !.ir = chip.ir,
                             !.sdr = chip.sdr]
    BY <1>0, <1>5 DEF WritePortB, EnableFlag
  <2>3. Truthful(chip.data, mask, chip.ir)
    BY <1>0, <1>5 DEF Lag, WritePortB, Truthful
  <2>4. UNCHANGED <<loaded, elapsed, fired>> /\ UNCHANGED reader /\ due' = due
    BY <1>5 DEF WritePortB, history
  <2> HIDE DEF mask
  <2> QED BY <1>0, <2>1, <2>2, <2>3, <2>4, CausesChanged
<1>6. CASE WriteSerialByte
  <2>0. PICK code \in Code : chip' = WriteSerial(chip, code)
    BY <1>6 DEF WriteSerialByte
  <2>1. /\ chip.data \in SUBSET Source /\ chip.mask \in SUBSET Source
        /\ chip.ir \in BOOLEAN /\ code \in Code \cup {NoCode}
    BY <1>0
  <2>2. chip' = [chip EXCEPT !.data = chip.data, !.mask = chip.mask, !.ir = chip.ir,
                             !.sdr = code]
    BY <1>0, <2>0 DEF WriteSerial
  <2>3. UNCHANGED <<loaded, elapsed, fired>> /\ UNCHANGED reader /\ due' = due
    BY <1>6 DEF WriteSerialByte, history
  <2>4. Truthful(chip.data, chip.mask, chip.ir)
    BY <1>0 DEF Truthful
  <2> QED BY <1>0, <2>1, <2>2, <2>3, <2>4, CausesChanged
<1> QED BY <1>1, <1>2, <1>3, <1>4, <1>5, <1>6
-----------------------------------------------------------------------------
(* The ticks *)

\* One tick of a timer: it stays typed, is loaded or counts one, and a one-shot
\* timer that fires stops.
LEMMA OneTick ==
  ASSUME NEW t \in Timer
  PROVE  /\ StepTimer(t) \in Timer
         /\ Underflows(t) => /\ StepTimer(t).count = t.latch
                             /\ StepTimer(t).running = ~t.oneShot
         /\ ~Underflows(t) => /\ StepTimer(t).running = t.running
                              /\ t.running => /\ t.count # 0
                                              /\ StepTimer(t).count = t.count - 1
                              /\ ~t.running => StepTimer(t).count = t.count
<1>1. t.count \in Word /\ (t.running /\ t.count # 0 => t.count - 1 \in Word)
  <2>1. Byte * Byte - 1 \in Int
    BY ByteAssumption
  <2> QED BY <2>1 DEF Timer, Word
<1> HIDE DEF Word
<1>2. t.latch \in Word /\ t.running \in BOOLEAN /\ t.oneShot \in BOOLEAN
  BY DEF Timer
<1>3. CASE Underflows(t)
  BY <1>1, <1>2, <1>3 DEF Underflows, StepTimer, Timer
<1>4. CASE ~Underflows(t)
  BY <1>1, <1>2, <1>4 DEF Underflows, StepTimer, Timer
<1> QED BY <1>3, <1>4

LEMMA StepTick == ASSUME ChipIInv, TickTimers PROVE ChipIInv'
<1> DEFINE next == [w \in Which |-> StepTimer(chip.timer[w])]
           data == chip.data \cup {w \in Which : Underflows(chip.timer[w])}
           ir   == chip.ir \/ data \cap chip.mask # {}
<1>0. /\ chip' = [chip EXCEPT !.timer = next, !.data = data, !.ir = ir]
      /\ UNCHANGED reader
      /\ ir \in BOOLEAN
  BY DEF TickTimers, Tick, Rethink, ChipIInv, ChipOK
<1>1. \A w \in Which : Underflows(chip.timer[w])
                         <=> chip.timer[w].running /\ elapsed[w] = loaded[w]
  <2> SUFFICES ASSUME NEW w \in Which
               PROVE  chip.timer[w].count = 0 <=> elapsed[w] = loaded[w]
    BY DEF Underflows
  <2>1. /\ chip.timer[w].count \in Nat /\ elapsed[w] \in Nat /\ loaded[w] \in Nat
        /\ chip.timer[w].count + elapsed[w] = loaded[w]
    BY DEF ChipIInv, ChipOK, HistoryOK, PeriodExact, Timer, Word
  <2> QED BY <2>1
<1>2. PeriodsReported'
  <2>1. chip'.data = data
    BY <1>0 DEF ChipIInv, ChipOK
  <2>2. due' = due \cup {w \in Which : Underflows(chip.timer[w])}
    BY <1>1 DEF TickTimers
  <2> QED BY <2>1, <2>2 DEF ChipIInv, PeriodsReported
<1>3. \A w \in Which : chip.timer[w] \in Timer
  BY DEF ChipIInv, ChipOK
<1>4. next \in [Which -> Timer] /\ data \in SUBSET Source
  BY <1>3, OneTick DEF ChipIInv, ChipOK, Which, Source
<1>5. (data \cap chip.mask # {} => ir) /\ (ir => data # {})
  BY DEF ChipIInv, LineTruthful
<1> HIDE DEF data, ir
<1>6. ChipOK' /\ ClockOK' /\ LineTruthful' /\ ReadingInv'
  <2> HIDE DEF next
  <2>1. ChipOK'
    BY <1>0, <1>4 DEF ChipIInv, ChipOK
  <2>2. /\ chip'.tod = chip.tod /\ chip'.latched = chip.latched
        /\ chip'.latch = chip.latch /\ chip'.mask = chip.mask
        /\ chip'.data = data /\ chip'.ir = ir
    BY <1>0 DEF ChipIInv, ChipOK
  <2>3. ClockOK' /\ LineTruthful' /\ ReadingInv'
    BY <1>0, <1>5, <2>2
       DEF ChipIInv, ClockOK, LineTruthful, ReadingInv, ReadingCoherent, reader
  <2> QED BY <2>1, <2>3
<1>7. \A w \in Which : chip'.timer[w] = StepTimer(chip.timer[w])
  BY <1>0 DEF ChipIInv, ChipOK
<1>8. ASSUME NEW w \in Which
      PROVE  /\ chip'.timer[w].count + elapsed'[w] = loaded'[w]
             /\ loaded'[w] \in Word /\ elapsed'[w] \in Word
             /\ w \in fired' => ~chip'.timer[w].running
  <2> DEFINE t == chip.timer[w]
             u == StepTimer(t)
  <2>1. /\ t \in Timer /\ chip'.timer[w] = u
        /\ t.count + elapsed[w] = loaded[w]
        /\ loaded[w] \in Word /\ elapsed[w] \in Word
        /\ w \in fired => ~t.running
    BY <1>3, <1>7 DEF ChipIInv, PeriodExact, HistoryOK, OneShotFiresOnce
  <2>2. /\ loaded'[w] = IF Underflows(t) THEN t.latch ELSE loaded[w]
        /\ elapsed'[w] = IF Underflows(t) THEN 0
                         ELSE IF t.running THEN elapsed[w] + 1 ELSE elapsed[w]
        /\ w \in fired' <=> w \in fired \/ (Underflows(t) /\ t.oneShot)
    BY <1>1 DEF TickTimers
  <2>3. /\ Underflows(t) => u.count = t.latch /\ u.running = ~t.oneShot
        /\ ~Underflows(t) => /\ u.running = t.running
                             /\ t.running => t.count # 0 /\ u.count = t.count - 1
                             /\ ~t.running => u.count = t.count
    BY <2>1, OneTick
  <2>4. Underflows(t) => t.running
    BY DEF Underflows
  <2>5. t.latch \in Word /\ t.count \in Word /\ Byte * Byte - 1 \in Int
    BY <2>1, ByteAssumption DEF Timer
  <2> HIDE DEF t, u
  <2>6. w \in fired' => ~chip'.timer[w].running
    BY <2>1, <2>2, <2>3, <2>4
  <2>7. CASE Underflows(t)
    BY <2>1, <2>2, <2>3, <2>5, <2>6, <2>7 DEF Word
  <2>8. CASE ~Underflows(t) /\ t.running
    BY <2>1, <2>2, <2>3, <2>5, <2>6, <2>8 DEF Word
  <2>9. CASE ~Underflows(t) /\ ~t.running
    BY <2>1, <2>2, <2>3, <2>5, <2>6, <2>9 DEF Word
  <2> QED BY <2>7, <2>8, <2>9
<1>9. PeriodExact' /\ OneShotFiresOnce' /\ HistoryOK'
  <2>1. fired' \subseteq Which /\ due' \subseteq Which
    BY DEF TickTimers, ChipIInv, HistoryOK
  <2>2. loaded' \in [Which -> Word] /\ elapsed' \in [Which -> Word]
    BY <1>8 DEF TickTimers
  <2> QED BY <1>8, <2>1, <2>2 DEF PeriodExact, OneShotFiresOnce, HistoryOK
<1> QED BY <1>6, <1>9, <1>2 DEF ChipIInv
-----------------------------------------------------------------------------
(* The time of day *)

\* A step that changes the time of day, its latch or the routine that reads it.
LEMMA ClockChanged ==
  ASSUME ChipIInv, UNCHANGED history,
         NEW tod \in Time, NEW latched \in BOOLEAN, NEW latch \in Time,
         chip' = [chip EXCEPT !.tod = tod, !.latched = latched, !.latch = latch],
         asked' \in Time, digit' \in 1 .. 3, ReadingInv'
  PROVE  ChipIInv'
<1> HIDE DEF Timer, Time, Word
<1>1. /\ ChipOK'
      /\ chip'.timer = chip.timer /\ chip'.data = chip.data
      /\ chip'.mask = chip.mask /\ chip'.ir = chip.ir
  BY DEF ChipIInv, ChipOK
<1>2. ClockOK'
  BY DEF ChipIInv, ChipOK, ClockOK
<1>3. HistoryOK' /\ PeriodExact' /\ OneShotFiresOnce' /\ LineTruthful' /\ PeriodsReported'
  BY <1>1 DEF ChipIInv, HistoryOK, PeriodExact, OneShotFiresOnce, LineTruthful,
              PeriodsReported, history
<1> QED BY <1>1, <1>2, <1>3 DEF ChipIInv

LEMMA StepClock ==
  ASSUME ChipIInv, ClockTime \/ \E i \in 1 .. 3, b \in 0 .. Byte - 1 : WriteTime(i, b)
  PROVE  ChipIInv'
<1>0. /\ chip.tod \in Time /\ chip.latched \in BOOLEAN /\ chip.latch \in Time
      /\ asked \in Time /\ digit \in 1 .. 3
      /\ chip = [timer |-> chip.timer, data |-> chip.data, mask |-> chip.mask,
                 ir |-> chip.ir, sdr |-> chip.sdr, tod |-> chip.tod,
                 latched |-> chip.latched, latch |-> chip.latch]
  BY DEF ChipIInv, ChipOK, ClockOK
<1>1. PICK tod \in Time :
        chip' = [chip EXCEPT !.tod = tod, !.latched = chip.latched, !.latch = chip.latch]
  <2>1. CASE ClockTime
    <3> DEFINE low  == Wrap(chip.tod[3])
               mid  == IF low = 0 THEN Wrap(chip.tod[2]) ELSE chip.tod[2]
               high == IF low = 0 /\ mid = 0 THEN Wrap(chip.tod[1]) ELSE chip.tod[1]
    <3>1. \A n \in 0 .. Byte - 1 : Wrap(n) \in 0 .. Byte - 1
      BY ByteAssumption DEF Wrap
    <3>2. <<high, mid, low>> \in Time
      BY <1>0, <3>1 DEF Time
    <3> HIDE DEF Time
    <3> QED BY <1>0, <2>1, <3>2 DEF ClockTime, TickTod
  <2>2. ASSUME NEW i \in 1 .. 3, NEW b \in 0 .. Byte - 1, WriteTime(i, b)
        PROVE  \E tod \in Time :
                 chip' = [chip EXCEPT !.tod = tod, !.latched = chip.latched,
                                      !.latch = chip.latch]
    <3>1. [chip.tod EXCEPT ![i] = b] \in Time
      BY <1>0 DEF Time
    <3> HIDE DEF Time
    <3> QED BY <1>0, <2>2, <3>1 DEF WriteTime, WriteTod
  <2> QED BY <2>1, <2>2
<1>2. UNCHANGED history /\ UNCHANGED reader
  BY DEF ClockTime, WriteTime
<1>3. chip'.latched = chip.latched /\ chip'.latch = chip.latch
  BY <1>0, <1>1
<1>4. ReadingInv'
  BY <1>2, <1>3 DEF ChipIInv, ReadingInv, ReadingCoherent, reader
<1> QED BY <1>0, <1>1, <1>2, <1>4, ClockChanged DEF reader

LEMMA StepReadTime == ASSUME ChipIInv, ReadTime PROVE ChipIInv'
<1>0. /\ chip.tod \in Time /\ chip.latched \in BOOLEAN /\ chip.latch \in Time
      /\ asked \in Time /\ digit \in 1 .. 3
      /\ chip = [timer |-> chip.timer, data |-> chip.data, mask |-> chip.mask,
                 ir |-> chip.ir, sdr |-> chip.sdr, tod |-> chip.tod,
                 latched |-> chip.latched, latch |-> chip.latch]
  BY DEF ChipIInv, ChipOK, ClockOK
<1>1. UNCHANGED history
  BY DEF ReadTime
<1> HIDE DEF Time
<1>2. CASE digit = 1
  <2>0. /\ chip' = [chip EXCEPT !.latched = TRUE, !.latch = chip.tod]
        /\ asked' = chip.tod /\ digit' = 2
        /\ readout' = [i \in 1 .. 1 |-> IF i = 1 THEN TodDigit(chip, i) ELSE readout[i]]
    BY <1>2 DEF ReadTime, AfterReadTod
  <2>1. /\ chip' = [chip EXCEPT !.tod = chip.tod, !.latched = TRUE, !.latch = chip.tod]
        /\ chip'.latched /\ chip'.latch = chip.tod
    BY <1>0, <2>0
  <2>3. DOMAIN readout' = 1 .. 1 /\ readout'[1] = chip.tod[1]
    BY <2>0 DEF TodDigit
  <2>4. digit' \in 1 .. 3 /\ TRUE \in BOOLEAN
    BY <2>0
  <2>2. ReadingInv'
    BY <2>0, <2>1, <2>3 DEF ReadingInv
  <2> QED BY <1>0, <1>1, <2>0, <2>1, <2>2, <2>4, ClockChanged
<1>3. CASE digit = 2
  <2>1. /\ chip' = chip /\ asked' = asked /\ digit' = 3 /\ digit' \in 1 .. 3
        /\ chip.latched /\ chip.latch = asked /\ readout[1] = asked[1]
        /\ readout' = [i \in 1 .. 2 |-> IF i = 2 THEN asked[2] ELSE readout[i]]
    BY <1>0, <1>3 DEF ReadTime, AfterReadTod, TodDigit, ChipIInv, ReadingInv
  <2>2. ReadingInv'
    BY <2>1 DEF ReadingInv
  <2>3. chip' = [chip EXCEPT !.tod = chip.tod, !.latched = chip.latched,
                             !.latch = chip.latch]
    BY <1>0, <2>1
  <2> QED BY <1>0, <1>1, <2>1, <2>2, <2>3, ClockChanged
<1>4. CASE digit = 3
  <2>0. /\ chip' = [chip EXCEPT !.latched = FALSE] /\ asked' = asked /\ digit' = 1
        /\ readout' = [i \in 1 .. 3 |-> IF i = 3 THEN TodDigit(chip, i) ELSE readout[i]]
    BY <1>4 DEF ReadTime, AfterReadTod
  <2>1. /\ chip' = [chip EXCEPT !.tod = chip.tod, !.latched = FALSE, !.latch = chip.latch]
    BY <1>0, <2>0
  <2>6. digit' \in 1 .. 3 /\ FALSE \in BOOLEAN
    BY <2>0
  <2>4. /\ chip.latched /\ chip.latch = asked
        /\ readout[1] = asked[1] /\ readout[2] = asked[2]
    BY <1>4 DEF ChipIInv, ReadingInv
  <2>5. readout' = [i \in 1 .. 3 |-> IF i = 3 THEN asked[3] ELSE readout[i]]
    BY <2>0, <2>4 DEF TodDigit
  <2>2. readout' = asked'
    BY <1>0, <2>0, <2>4, <2>5 DEF Time
  <2>3. ReadingInv'
    BY <2>0, <2>2 DEF ReadingInv, ReadingCoherent
  <2> QED BY <1>0, <1>1, <2>0, <2>1, <2>3, <2>6, ClockChanged
<1> QED BY <1>0, <1>2, <1>3, <1>4

LEMMA StepGiveUp == ASSUME ChipIInv, GiveUp PROVE ChipIInv'
<1>1. /\ UNCHANGED <<chip, asked>> /\ UNCHANGED history
      /\ digit' = 1 /\ DOMAIN readout' = 1 .. 0
  BY DEF GiveUp
<1>2. ReadingInv'
  BY <1>1 DEF ReadingInv, ReadingCoherent
<1> HIDE DEF Timer, Time, Word
<1> QED BY <1>1, <1>2 DEF ChipIInv, ChipOK, HistoryOK, ClockOK, LineTruthful, PeriodExact,
                          OneShotFiresOnce, PeriodsReported, history
-----------------------------------------------------------------------------
LEMMA ChipNextIInv == ChipIInv /\ [ChipNext]_chipVars => ChipIInv'
<1> SUFFICES ASSUME ChipIInv, [ChipNext]_chipVars PROVE ChipIInv'
  OBVIOUS
<1>1. CASE Guest /\ UNCHANGED uses
  <2>1. \A w \in uses \cap Which : w \in Which
    OBVIOUS
  <2> QED BY <1>1, <2>1, StepWriteLow, StepWriteHigh, StepWriteControl, StepInterrupts,
             StepClock, StepReadTime, StepGiveUp DEF Guest
<1>2. CASE Machine /\ UNCHANGED uses
  BY <1>2, StepTick, StepClock, StepInterrupts DEF Machine
<1>3. CASE UNCHANGED chipVars
  <2> HIDE DEF Timer, Time, Word
  <2> QED BY <1>3 DEF chipVars, ChipIInv, ChipOK, HistoryOK, ClockOK, LineTruthful, PeriodExact,
                      OneShotFiresOnce, PeriodsReported, ReadingInv, ReadingCoherent
<1> QED BY <1>1, <1>2, <1>3 DEF ChipNext

\* The chip and what is remembered of its timers and readings belong together.
THEOREM ChipInvariance == ChipSpec => []ChipIInv
BY ChipInitIInv, ChipNextIInv, PTL DEF ChipSpec

\* No counter, latch or digit leaves its width, whatever the guest writes.
THEOREM ChipTypeCorrect == ChipSpec => []ChipTypeOK
<1>1. ChipIInv /\ uses \in Guests => ChipTypeOK
  BY DEF ChipIInv, ChipOK, HistoryOK, ClockOK, ChipTypeOK
<1>2. ChipInit => uses \in Guests
  BY DEF ChipInit
<1>3. uses \in Guests /\ [ChipNext]_chipVars => (uses \in Guests)'
  BY DEF ChipNext, chipVars
<1> QED BY <1>1, <1>2, <1>3, ChipInvariance, PTL DEF ChipSpec

\* The interrupt line is up while an enabled source waits - but for the lag of
\* FLAG on CIA-B - and never without one to read: for every order of ticks,
\* pulses, bytes, mask writes and reads.
THEOREM LineIsTruthful == ChipSpec => []LineTruthful
<1>1. ChipIInv => LineTruthful
  BY DEF ChipIInv
<1> QED BY <1>1, ChipInvariance, PTL

\* The line lags behind for less than one tick.
THEOREM LineCatchesUp == ChipSpec => LineCaughtUp
<1>1. ChipIInv /\ [ChipNext]_chipVars
        => [TickTimers => (chip'.data \cap chip'.mask # {} => chip'.ir)]_chipVars
  <2> SUFFICES ASSUME ChipIInv, TickTimers PROVE chip'.data \cap chip'.mask # {} => chip'.ir
    OBVIOUS
  <2> DEFINE timer == [w \in Which |-> StepTimer(chip.timer[w])]
             data  == chip.data \cup {w \in Which : Underflows(chip.timer[w])}
             ir    == chip.ir \/ data \cap chip.mask # {}
  <2>1. chip' = [chip EXCEPT !.timer = timer, !.data = data, !.ir = ir]
    BY DEF TickTimers, Tick, Rethink, ChipIInv, ChipOK
  <2>2. data \cap chip.mask # {} => ir
    OBVIOUS
  <2> HIDE DEF timer, data, ir
  <2>3. chip'.data = data /\ chip'.mask = chip.mask /\ chip'.ir = ir
    BY <2>1 DEF ChipIInv, ChipOK
  <2> QED BY <2>2, <2>3
<1> QED BY <1>1, ChipInvariance, PTL DEF ChipSpec, LineCaughtUp

\* A period under way is not disturbed by writes to the latch or to the other
\* timer, for every width of the counters.
THEOREM PeriodsAreExact == ChipSpec => []PeriodExact
<1>1. ChipIInv => PeriodExact
  BY DEF ChipIInv
<1> QED BY <1>1, ChipInvariance, PTL

\* A one-shot timer fires once per start.
THEOREM OneShotOnce == ChipSpec => []OneShotFiresOnce
<1>1. ChipIInv => OneShotFiresOnce
  BY DEF ChipIInv
<1> QED BY <1>1, ChipInvariance, PTL

\* Every end of a period is reported once, and nothing else is, for every width of
\* the counters, a latch of zero included, and whatever is enabled meanwhile.
THEOREM PeriodsAreReported == ChipSpec => []PeriodsReported
<1>1. ChipIInv => PeriodsReported
  BY DEF ChipIInv
<1> QED BY <1>1, ChipInvariance, PTL

\* A time of day read digit by digit was the time when the reading began.
THEOREM ReadingsCoherent == ChipSpec => []ReadingCoherent
<1>1. ChipIInv => ReadingCoherent
  BY DEF ChipIInv, ReadingInv, ClockOK, ReadingCoherent
<1> QED BY <1>1, ChipInvariance, PTL
-----------------------------------------------------------------------------
\* Both chips side by side: each part behaves as it does alone, so what is proved
\* of the key's way and of the CIA holds of the machine with both.
THEOREM CiasApart == CiasSpec => [](KeysKept /\ LineTruthful /\ PeriodExact
                                    /\ PeriodsReported /\ ReadingCoherent)
<1>1. CiasInit => IInv /\ ChipInit
  BY InitIInv DEF CiasInit
<1>2. IInv /\ [CiaA \/ CiaB]_<<moves, vars, chipVars>> => IInv'
  <2>1. [CiaA \/ CiaB]_<<moves, vars, chipVars>> => [Next]_vars
    BY DEF CiaA, CiaB
  <2> QED BY <2>1, NextIInv
<1>3. [CiaA \/ CiaB]_<<moves, vars, chipVars>> => [ChipNext]_chipVars
  BY DEF CiaA, CiaB
<1>4. CiasSpec => []IInv
  BY <1>1, <1>2, PTL DEF CiasSpec
<1>5. CiasSpec => ChipSpec
  BY <1>1, <1>3, PTL DEF CiasSpec, ChipSpec
<1>6. IInv => KeysKept
  BY DEF IInv
<1> QED
  BY <1>4, <1>5, <1>6, LineIsTruthful, PeriodsAreExact, PeriodsAreReported,
     ReadingsCoherent, PTL
=============================================================================

---------------------------- MODULE Lance_proofs ----------------------------
(***************************************************************************)
(* Proofs about Lance, for rings of any length, frames of any size and any   *)
(* order of guest, interrupt handler and host.                              *)
(***************************************************************************)
EXTENDS Lance, SequenceTheorems, WellFoundedInduction, TLAPS

Unit == Nat \X Nat \X Nat

RxDescriptor == [own : BOOLEAN, stp : BOOLEAN, enp : BOOLEAN, err : BOOLEAN, unit : Unit]
TxDescriptor == [own : BOOLEAN, stp : BOOLEAN, enp : BOOLEAN, err : BOOLEAN,
                 full : BOOLEAN, unit : Unit]

Arrival == [id : Nat \ {0}, size : Nat \ {0}, mine : BOOLEAN]

Card == [csr0 : SUBSET Csr0Bit, initialized : BOOLEAN,
         rx : [0 .. RxLen - 1 -> RxDescriptor], rxAt : 0 .. RxLen - 1,
         pending : Seq(Arrival),
         tx : [0 .. TxLen - 1 -> TxDescriptor], txAt : 0 .. TxLen - 1,
         sent : Seq(Seq(Unit)),
         rxPackets : Nat, txPackets : Nat, dropped : Nat]

TypeInv ==
  /\ card \in Card
  /\ giveAt \in 0 .. TxLen - 1 /\ building \in Nat /\ given \in Nat
  /\ takeAt \in 0 .. RxLen - 1 /\ partial \in Seq(Unit) /\ delivered \in Seq(Seq(Unit))
  /\ isr \in {"idle", "ack", "drain"} /\ seen \subseteq Event
  /\ rings \in {"used", "faulted", "prepared"}
  /\ arrived \in Nat /\ wire \in Seq(Seq(Unit))

\* A stopped chip shows nothing but STOP, a transmitter that is on was started, and
\* whoever prepares the rings has stopped the chip and its own interrupt handler.
ControlInv ==
  /\ "STOP" \in card.csr0 => card.csr0 = {"STOP"} /\ isr # "ack"
  /\ "TXON" \in card.csr0 => "STRT" \in card.csr0
  /\ rings = "faulted" => "STOP" \in card.csr0
  /\ rings = "prepared" => "STOP" \in card.csr0 /\ isr = "idle"

\* The card as an INIT will find it, once the rings are prepared.
Ready == IF rings = "prepared" THEN [card EXCEPT !.rxAt = 0, !.txAt = 0] ELSE card
-----------------------------------------------------------------------------
(* The receive ring *)

\* The descriptor d continues the unit u, or begins a later frame.
Follows(u, d) == IF d.stp THEN u[1] < d.unit[1] ELSE d.unit = <<u[1], u[2] + 1, u[3]>>

Rx(c, at, j) == c.rx[Past(at, j, RxLen)]

\* f descriptors from the guest's place on are the guest's, the rest is the device's.
RxPlaced(c, at, f) ==
  /\ c.rxAt = Past(at, f, RxLen)
  /\ \A j \in 0 .. RxLen - 1 : Rx(c, at, j).own <=> j >= f

\* What a filled descriptor tells of its unit; its frame is none later than top.
RxUnit(d, last, top) ==
  /\ d.stp <=> d.unit[2] = 1
  /\ d.enp <=> d.unit[2] = d.unit[3]
  /\ 1 <= d.unit[2] /\ d.unit[2] <= d.unit[3]
  /\ last < d.unit[1] /\ d.unit[1] <= top

RxUnits(c, at, f, last, top) ==
  /\ \A j \in 0 .. f - 1 : RxUnit(Rx(c, at, j), last, top)
  /\ \A j \in 1 .. f - 1 : Follows(Rx(c, at, j - 1).unit, Rx(c, at, j))

\* The units the guest holds begin a frame, which the first filled descriptor continues.
RxBegun(c, at, part, f, last, top) ==
  part # << >> =>
    /\ \A i \in 1 .. Len(part) : part[i] = <<part[1][1], i, part[1][3]>>
    /\ Len(part) < part[1][3] /\ last < part[1][1] /\ part[1][1] <= top
    /\ f > 0 => Follows(part[Len(part)], Rx(c, at, 0))

\* The frames that wait for the receiver are later than top and in order.
RxPending(c, top, arr) ==
  /\ \A k \in 1 .. Len(c.pending) : top < c.pending[k].id /\ c.pending[k].id <= arr
  /\ \A k, l \in 1 .. Len(c.pending) : k < l => c.pending[k].id < c.pending[l].id

RxOk(c, at, part, last, arr) ==
  \E f \in 0 .. RxLen, top \in last .. arr :
    /\ RxPlaced(c, at, f) /\ RxUnits(c, at, f, last, top)
    /\ RxBegun(c, at, part, f, last, top) /\ RxPending(c, top, arr)

\* A frame's end that the guest has not taken keeps RINT up.
Waking(c) ==
  (\E i \in 0 .. RxLen - 1 : ~c.rx[i].own /\ c.rx[i].enp) => "RINT" \in c.csr0

LastDelivered == IF delivered = << >> THEN 0 ELSE delivered[Len(delivered)][1][1]

ReceiveInv ==
  /\ RxOk(Ready, takeAt, partial, LastDelivered, arrived)
  /\ isr = "idle" => Waking(card)
  /\ \A k \in 1 .. Len(delivered) : delivered[k] # << >>
-----------------------------------------------------------------------------
(* The transmit ring *)

Tx(c, j) == c.tx[Past(c.txAt, j, TxLen)]

\* h descriptors from the device's place on are the device's, up to the guest's place.
TxPlaced(c, at, h) ==
  /\ at = Past(c.txAt, h, TxLen)
  /\ \A j \in 0 .. TxLen - 1 : Tx(c, j).own <=> j < h

\* The unit of the j-th descriptor handed over; its frame is later than g.
TxUnit(d, j, g, gvn) ==
  /\ d.stp <=> d.unit[2] = 1
  /\ d.enp => d.unit[3] = d.unit[2]
  /\ d.unit[2] = TxLen => d.enp
  /\ 1 <= d.unit[2] /\ d.unit[2] <= j + 1
  /\ g < d.unit[1] /\ d.unit[1] <= gvn

\* The i-th descriptor is of the frame of the j-th, or of an earlier frame.
TxBefore(d, i, e, j) ==
  IF j - e.unit[2] < i
  THEN /\ d.unit[1] = e.unit[1] /\ d.unit[2] = e.unit[2] - (j - i)
       /\ i < j => ~d.enp
  ELSE d.unit[1] < e.unit[1]

TxUnits(c, h, g, gvn) ==
  /\ \A j \in 0 .. h - 1 : TxUnit(Tx(c, j), j, g, gvn)
  /\ \A j \in 1 .. h - 1 : Tx(c, j).stp <=> Tx(c, j - 1).enp
  /\ \A j \in 0 .. h - 1 : \A i \in 0 .. j : TxBefore(Tx(c, i), i, Tx(c, j), j)

\* The guest builds on the unit it handed over last.
TxBuilding(c, h, bld, gvn) ==
  /\ h = 0 => bld = 0
  /\ h > 0 => /\ Tx(c, h - 1).enp <=> bld = 0
              /\ bld # 0 => Tx(c, h - 1).unit[1] = gvn /\ Tx(c, h - 1).unit[2] = bld

TxOk(c, at, bld, gvn, g) ==
  \E h \in 0 .. TxLen : TxPlaced(c, at, h) /\ TxUnits(c, h, g, gvn) /\ TxBuilding(c, h, bld, gvn)

\* A transmitter that was started is on.
On(csr0) == "STRT" \in csr0 => "TXON" \in csr0

\* What left the card is whole and in order, and none later than frame g.
SentUpTo(out, g) ==
  /\ \A k \in 1 .. Len(out) : out[k] # << >> /\ IsWhole(out[k]) /\ out[k][1][1] <= g
  /\ \A k, l \in 1 .. Len(out) : k < l => out[k][1][1] < out[l][1][1]

Counted(c) == Len(c.pending) + c.rxPackets + c.dropped

TransmitInv ==
  \E g \in 0 .. given :
    /\ SentUpTo(Outgoing, g)
    /\ arrived <= Counted(card) /\ Counted(card) <= arrived + g
    /\ rings # "faulted" /\ On(card.csr0) => TxOk(Ready, giveAt, building, given, g)

IInv == TypeInv /\ ControlInv /\ ReceivedWhole /\ ReceiveInv /\ TransmitInv
-----------------------------------------------------------------------------
(* Counting, and places in a ring *)

\* Every set of numbers has a smallest element.
LEMMA Smallest ==
  ASSUME NEW T, T \subseteq Nat, T # {}
  PROVE  \E n \in T : \A m \in T : n <= m
<1> DEFINE R == OpToRel(<, Nat)
<1>1. IsWellFoundedOn(R, Nat)  BY NatLessThanWellFounded
<1>2. \A x, y \in Nat : x < y => <<x, y>> \in R  BY DEF OpToRel
<1> HIDE DEF R
<1>3. ASSUME IsWellFoundedOn(R, Nat)
      PROVE  \E n \in T : \A m \in T : ~(<<m, n>> \in R)
  <2>1. T \subseteq Nat /\ T # {}  OBVIOUS
  <2> QED  BY <2>1, <1>3, WFMin, ZenonT(20)
<1>4. PICK n \in T : \A m \in T : ~(<<m, n>> \in R)  BY <1>1, <1>3
<1>5. ASSUME NEW m \in T  PROVE n <= m
  <2>1. m \in Nat /\ n \in Nat  OBVIOUS
  <2>2. ~(m < n)  BY <1>2, <1>4, <2>1
  <2> QED  BY <2>1, <2>2
<1> QED  BY <1>5

\* Induction, for a set of numbers.
LEMMA Induction ==
  ASSUME NEW T, 0 \in T, \A n \in Nat : n \in T => n + 1 \in T
  PROVE  Nat \subseteq T
<1> SUFFICES ASSUME Nat \ T # {}  PROVE FALSE
  OBVIOUS
<1>1. PICK n \in Nat \ T : \A m \in Nat \ T : n <= m  BY Smallest
<1>2. n # 0  OBVIOUS
<1>3. n - 1 \in Nat /\ n = (n - 1) + 1  BY <1>2
<1>4. n - 1 \in T
  <2>1. ~(n <= n - 1)  OBVIOUS
  <2> QED  BY <1>1, <1>3, <2>1
<1> QED  BY <1>3, <1>4

\* Past without the remainder.
LEMMA PastIs ==
  ASSUME NEW n \in Nat \ {0}, NEW at \in 0 .. n - 1, NEW j \in 0 .. n
  PROVE  Past(at, j, n) = IF at + j < n THEN at + j ELSE at + j - n
<1>1. ASSUME NEW x \in Nat, x < n  PROVE x % n = x  BY <1>1
<1>2. ASSUME NEW x \in Nat, n <= x, x < 2 * n  PROVE x % n = x - n  BY <1>2
<1>3. CASE at + j < n
  <2>1. at + j \in Nat  OBVIOUS
  <2> QED  BY <1>1, <1>3, <2>1 DEF Past
<1>4. CASE ~(at + j < n)
  <2>1. at + j \in Nat /\ n <= at + j /\ at + j < 2 * n  BY <1>4
  <2> QED  BY <1>2, <1>4, <2>1 DEF Past
<1> QED  BY <1>3, <1>4

\* Going on from a place reaches every place of the ring once.
LEMMA PastFacts ==
  ASSUME NEW n \in Nat \ {0}, NEW at \in 0 .. n - 1
  PROVE  /\ Past(at, 0, n) = at /\ Past(at, n, n) = at
         /\ \A j \in 0 .. n : Past(at, j, n) \in 0 .. n - 1
         /\ \A j \in 0 .. n - 1 : Past(Past(at, j, n), n - at, n) = j
         /\ \A i \in 0 .. n - 1 : /\ Past(i, n - at, n) \in 0 .. n - 1
                                  /\ Past(at, Past(i, n - at, n), n) = i
         /\ \A i, j \in 0 .. n - 1 : Past(at, i, n) = Past(at, j, n) => i = j
         /\ \A f \in 0 .. n, j \in 0 .. n :
              Past(Past(at, f, n), j, n) =
                IF f + j <= n THEN Past(at, f + j, n) ELSE Past(at, f + j - n, n)
<1>1. \A j \in 0 .. n : /\ Past(at, j, n) = IF at + j < n THEN at + j ELSE at + j - n
                        /\ Past(at, j, n) \in 0 .. n - 1
  BY PastIs
<1>2. \A i \in 0 .. n - 1 : \A j \in 0 .. n :
        Past(i, j, n) = IF i + j < n THEN i + j ELSE i + j - n
  BY PastIs
<1>3. \A j \in 0 .. n - 1 : Past(Past(at, j, n), n - at, n) = j
  <2> SUFFICES ASSUME NEW j \in 0 .. n - 1  PROVE Past(Past(at, j, n), n - at, n) = j
    OBVIOUS
  <2> DEFINE p == Past(at, j, n)
  <2>1. p \in 0 .. n - 1 /\ p = IF at + j < n THEN at + j ELSE at + j - n  BY <1>1
  <2>2. n - at \in 0 .. n  OBVIOUS
  <2>3. Past(p, n - at, n) = IF p + (n - at) < n THEN p + (n - at) ELSE p + (n - at) - n
    BY <1>2, <2>1, <2>2
  <2> HIDE DEF p
  <2>4. Past(p, n - at, n) = j
    <3>1. CASE at + j < n
      <4>1. p = at + j  BY <2>1, <3>1
      <4> QED  BY <2>3, <4>1
    <3>2. CASE ~(at + j < n)
      <4>1. p = at + j - n  BY <2>1, <3>2
      <4> QED  BY <2>3, <4>1
    <3> QED  BY <3>1, <3>2
  <2> QED  BY <2>4 DEF p
<1>4. \A i \in 0 .. n - 1 : /\ Past(i, n - at, n) \in 0 .. n - 1
                            /\ Past(at, Past(i, n - at, n), n) = i
  <2> SUFFICES ASSUME NEW i \in 0 .. n - 1
               PROVE  /\ Past(i, n - at, n) \in 0 .. n - 1
                      /\ Past(at, Past(i, n - at, n), n) = i
    OBVIOUS
  <2>1. n - at \in 0 .. n  OBVIOUS
  <2>2. Past(i, n - at, n) = IF i < at THEN i + n - at ELSE i - at
    BY <1>2, <2>1
  <2> QED  BY <1>1, <2>2
<1>5. \A i, j \in 0 .. n - 1 : Past(at, i, n) = Past(at, j, n) => i = j
  BY <1>3
<1>6. ASSUME NEW f \in 0 .. n, NEW j \in 0 .. n
      PROVE  Past(Past(at, f, n), j, n) =
               IF f + j <= n THEN Past(at, f + j, n) ELSE Past(at, f + j - n, n)
  <2> DEFINE p == Past(at, f, n)
  <2>1. p \in 0 .. n - 1 /\ p = IF at + f < n THEN at + f ELSE at + f - n  BY <1>1
  <2>2. Past(p, j, n) = IF p + j < n THEN p + j ELSE p + j - n  BY <1>2, <2>1
  <2> HIDE DEF p
  <2>3. CASE f + j <= n
    <3>1. f + j \in 0 .. n  BY <2>3
    <3>2. Past(at, f + j, n) = IF at + (f + j) < n THEN at + (f + j) ELSE at + (f + j) - n
      BY <1>1, <3>1
    <3>3. Past(p, j, n) = Past(at, f + j, n)
      <4>1. CASE at + f < n
        <5>1. p = at + f  BY <2>1, <4>1
        <5> QED  BY <2>2, <3>2, <5>1
      <4>2. CASE ~(at + f < n)
        <5>1. p = at + f - n  BY <2>1, <4>2
        <5>2. p + j < n  BY <2>3, <5>1
        <5> QED  BY <2>2, <3>2, <4>2, <5>1, <5>2
      <4> QED  BY <4>1, <4>2
    <3> QED  BY <2>3, <3>3 DEF p
  <2>4. CASE ~(f + j <= n)
    <3>1. f + j - n \in 0 .. n  BY <2>4
    <3>2. Past(at, f + j - n, n) =
            IF at + (f + j - n) < n THEN at + (f + j - n) ELSE at + (f + j - n) - n
      BY <1>1, <3>1
    <3>3. Past(p, j, n) = Past(at, f + j - n, n)
      <4>1. CASE at + f < n
        <5>1. p = at + f  BY <2>1, <4>1
        <5>2. ~(p + j < n)  BY <2>4, <5>1
        <5> QED  BY <2>2, <2>4, <3>2, <4>1, <5>1, <5>2
      <4>2. CASE ~(at + f < n)
        <5>1. p = at + f - n  BY <2>1, <4>2
        <5> QED  BY <2>2, <2>4, <3>2, <4>2, <5>1
      <4> QED  BY <4>1, <4>2
    <3> QED  BY <2>4, <3>3 DEF p
  <2> QED  BY <2>3, <2>4
<1>7. Past(at, 0, n) = at /\ Past(at, n, n) = at
  <2>1. 0 \in 0 .. n /\ at + 0 < n /\ at + 0 = at  OBVIOUS
  <2>2. n \in 0 .. n /\ ~(at + n < n) /\ at + n - n = at  OBVIOUS
  <2> QED  BY <1>1, <2>1, <2>2
<1> QED  BY <1>1, <1>3, <1>4, <1>5, <1>6, <1>7

\* No step, and a whole turn, lead back.
LEMMA PastRound ==
  ASSUME NEW n \in Nat \ {0}, NEW at \in 0 .. n - 1
  PROVE  Past(at, 0, n) = at /\ Past(at, n, n) = at
BY PastFacts

\* Steps in a ring add up.
LEMMA PastPast ==
  ASSUME NEW n \in Nat \ {0}, NEW at \in 0 .. n - 1, NEW f \in 0 .. n, NEW j \in 0 .. n
  PROVE  /\ f + j <= n => Past(Past(at, f, n), j, n) = Past(at, f + j, n)
         /\ ~(f + j <= n) => Past(Past(at, f, n), j, n) = Past(at, f + j - n, n)
BY PastFacts

\* What Rewrite leaves at each place.
LEMMA RewriteAt ==
  ASSUME NEW n \in Nat \ {0}, NEW at \in 0 .. n - 1, NEW k, NEW ring, NEW new,
         NEW j \in 0 .. n - 1
  PROVE  Rewrite(ring, at, n, k, new)[Past(at, j, n)] =
           IF j < k THEN new[j] ELSE ring[Past(at, j, n)]
<1>1. Past(at, j, n) \in 0 .. n - 1 /\ Past(Past(at, j, n), n - at, n) = j
  BY PastFacts
<1> QED  BY <1>1 DEF Rewrite

\* The length of a run is where it ends.
LEMMA RunIs ==
  ASSUME NEW n \in Nat \ {0}, NEW at, NEW good, NEW k \in 0 .. n,
         \A j \in 0 .. k - 1 : Past(at, j, n) \in good,
         k < n => Past(at, k, n) \notin good
  PROVE  RunLength(at, n, good) = k
<1> DEFINE Is(r) == /\ \A j \in 0 .. r - 1 : Past(at, j, n) \in good
                    /\ r < n => Past(at, r, n) \notin good
<1>1. Is(k)  OBVIOUS
<1>2. ASSUME NEW r \in 0 .. n, Is(r)  PROVE r = k
  <2>1. CASE r < k
    <3>1. r \in 0 .. k - 1 /\ r < n  BY <2>1
    <3> QED  BY <1>2, <3>1
  <2>2. CASE k < r
    <3>1. k \in 0 .. r - 1 /\ k < n  BY <2>2
    <3> QED  BY <1>2, <3>1
  <2> QED  BY <2>1, <2>2
<1>3. RunLength(at, n, good) = CHOOSE r \in 0 .. n : Is(r)  BY DEF RunLength
<1> HIDE DEF Is
<1> QED  BY <1>1, <1>2, <1>3
-----------------------------------------------------------------------------
(* The loop of service_receive *)

\* The cards after each turn of the loop.
LEMMA Turns ==
  ASSUME NEW c, NEW n \in Nat
  PROVE  \E g : g = [k \in 0 .. n |-> IF k = 0 THEN c ELSE TakePending(g[k - 1])]
<1> DEFINE Is(g, m) == g = [k \in 0 .. m |-> IF k = 0 THEN c ELSE TakePending(g[k - 1])]
           T == {m \in Nat : \E g : Is(g, m)}
<1>1. 0 \in T
  <2> DEFINE g == [k \in 0 .. 0 |-> c]
  <2>1. Is(g, 0)
    <3>1. \A k \in 0 .. 0 : k = 0  OBVIOUS
    <3> QED  BY <3>1
  <2> QED  BY <2>1
<1>2. ASSUME NEW m \in Nat, m \in T  PROVE m + 1 \in T
  <2>1. PICK g : Is(g, m)  BY <1>2
  <2> DEFINE h == [k \in 0 .. m + 1 |-> IF k <= m THEN g[k] ELSE TakePending(g[m])]
  <2>2. ASSUME NEW k \in 0 .. m + 1
        PROVE  h[k] = IF k = 0 THEN c ELSE TakePending(h[k - 1])
    <3>1. CASE k = 0
      <4>1. k \in 0 .. m /\ k <= m /\ g[k] = c  BY <2>1, <3>1
      <4> QED  BY <3>1, <4>1
    <3>2. CASE k # 0 /\ k <= m
      <4>1. k \in 0 .. m /\ k - 1 \in 0 .. m + 1 /\ k - 1 <= m  BY <3>2
      <4>2. g[k] = TakePending(g[k - 1])  BY <2>1, <3>2, <4>1
      <4>3. h[k] = g[k] /\ h[k - 1] = g[k - 1]  BY <3>2, <4>1
      <4> QED  BY <3>2, <4>2, <4>3
    <3>3. CASE k = m + 1
      <4>1. k # 0 /\ ~(k <= m) /\ k - 1 = m /\ m \in 0 .. m + 1 /\ m <= m  BY <3>3
      <4>2. h[k] = TakePending(g[m]) /\ h[m] = g[m]  BY <4>1
      <4> QED  BY <4>1, <4>2
    <3> QED  BY <3>1, <3>2, <3>3
  <2>3. Is(h, m + 1)
    <3> DEFINE e == [k \in 0 .. m + 1 |-> IF k = 0 THEN c ELSE TakePending(h[k - 1])]
    <3>1. h = [k \in 0 .. m + 1 |-> h[k]]  OBVIOUS
    <3> HIDE DEF h
    <3>2. [k \in 0 .. m + 1 |-> h[k]] = e  BY <2>2
    <3> QED  BY <3>1, <3>2
  <2> HIDE DEF h, Is
  <2> QED  BY <2>3
<1>3. n \in T
  <2> HIDE DEF T
  <2> QED  BY <1>1, <1>2, Induction
<1> QED  BY <1>3

\* What every turn preserves is preserved by the loop.
LEMMA LoopKeeps ==
  ASSUME NEW S, NEW c \in S,
         \A d \in S : /\ Len(d.pending) \in Nat
                      /\ Len(d.pending) > 0 =>
                           /\ TakePending(d) \in S
                           /\ Len(TakePending(d).pending) = Len(d.pending) - 1
  PROVE  ServiceReceive(c) \in S
<1> DEFINE n == Len(c.pending)
           Is(g) == g = [k \in 0 .. n |-> IF k = 0 THEN c ELSE TakePending(g[k - 1])]
           after == CHOOSE g : Is(g)
           Missed(k) == c.pending[k].mine /\ after[k].rxPackets = after[k - 1].rxPackets
           Stops(k) == /\ \A j \in 1 .. k - 1 : ~Missed(j)
                       /\ k < n => k > 0 /\ Missed(k)
           turns == CHOOSE k \in 0 .. n : Stops(k)
<1>1. n \in Nat  OBVIOUS
<1>2. ServiceReceive(c) = IF Receiving(c) THEN after[turns] ELSE c
  BY DEF ServiceReceive
<1>3. Is(after)
  <2> HIDE DEF n
  <2>1. \E g : Is(g)  BY <1>1, Turns
  <2> HIDE DEF Is
  <2> QED  BY <2>1
<1> HIDE DEF after
<1>4. \A k \in 0 .. n : after[k] \in S /\ Len(after[k].pending) = n - k
  <2> DEFINE T == {k \in Nat : k <= n => after[k] \in S /\ Len(after[k].pending) = n - k}
  <2>1. 0 \in T
    <3>1. after[0] = c  BY <1>1, <1>3
    <3>2. Len(c.pending) = n - 0  BY <1>1
    <3> QED  BY <3>1, <3>2
  <2>2. ASSUME NEW k \in Nat, k \in T  PROVE k + 1 \in T
    <3> SUFFICES ASSUME k + 1 <= n
                 PROVE  after[k + 1] \in S /\ Len(after[k + 1].pending) = n - (k + 1)
      OBVIOUS
    <3> HIDE DEF n
    <3>1. k <= n /\ k + 1 \in 0 .. n /\ k + 1 # 0 /\ (k + 1) - 1 = k  BY <1>1
    <3>2. after[k + 1] = TakePending(after[k])  BY <1>3, <3>1
    <3>3. after[k] \in S /\ Len(after[k].pending) = n - k  BY <2>2, <3>1
    <3>4. Len(after[k].pending) > 0  BY <1>1, <3>1, <3>3
    <3> QED  BY <1>1, <3>2, <3>3, <3>4
  <2> HIDE DEF T
  <2>3. Nat \subseteq T  BY <2>1, <2>2, Induction
  <2> QED  BY <2>3 DEF T
<1>5. turns \in 0 .. n
  <2> DEFINE M == {k \in 1 .. n : Missed(k)}
  <2> HIDE DEF n, Missed
  <2>1. CASE M = {}
    <3>1. n \in 0 .. n /\ Stops(n)  BY <1>1, <2>1
    <3> QED  BY <3>1
  <2>2. CASE M # {}
    <3>1. PICK k \in M : \A m \in M : k <= m
      <4>1. M \subseteq Nat  BY <1>1
      <4> QED  BY <2>2, <4>1, Smallest
    <3>2. k \in 0 .. n /\ Stops(k)
      <4>1. \A j \in 1 .. k - 1 : j \in 1 .. n /\ ~(k <= j)  BY <1>1
      <4> QED  BY <1>1, <3>1, <4>1
    <3> QED  BY <3>2
  <2> QED  BY <2>1, <2>2
<1> HIDE DEF turns
<1> QED  BY <1>2, <1>4, <1>5
-----------------------------------------------------------------------------
(* Receiving a frame *)

\* The rings have descriptors.
LEMMA Lengths == RxLen \in Nat \ {0} /\ TxLen \in Nat \ {0}
BY LanceAssumption

\* Replacing k descriptors from the one that comes f after `at`.
LEMMA RewriteFrom ==
  ASSUME NEW n \in Nat \ {0}, NEW at \in 0 .. n - 1, NEW f \in 0 .. n, NEW k \in 0 .. n - f,
         NEW ring, NEW new, NEW j \in 0 .. n - 1
  PROVE  /\ f <= j /\ j < f + k =>
              Rewrite(ring, Past(at, f, n), n, k, new)[Past(at, j, n)] = new[j - f]
         /\ ~(f <= j /\ j < f + k) =>
              Rewrite(ring, Past(at, f, n), n, k, new)[Past(at, j, n)] = ring[Past(at, j, n)]
<1> DEFINE p == Past(at, f, n)
<1>1. p \in 0 .. n - 1  BY PastFacts
<1>2. \A i \in 0 .. n : Past(p, i, n) = IF f + i <= n THEN Past(at, f + i, n)
                                        ELSE Past(at, f + i - n, n)
  BY PastFacts
<1>3. \A i \in 0 .. n - 1 : Rewrite(ring, p, n, k, new)[Past(p, i, n)] =
                              IF i < k THEN new[i] ELSE ring[Past(p, i, n)]
  <2> HIDE DEF p
  <2> SUFFICES ASSUME NEW i \in 0 .. n - 1
               PROVE  Rewrite(ring, p, n, k, new)[Past(p, i, n)] =
                        IF i < k THEN new[i] ELSE ring[Past(p, i, n)]
    OBVIOUS
  <2>1. Past(p, i, n) \in 0 .. n - 1 /\ Past(Past(p, i, n), n - p, n) = i
    BY <1>1, PastFacts
  <2> QED  BY <2>1 DEF Rewrite
<1>4. Past(at, n, n) = at /\ Past(at, 0, n) = at
  BY PastFacts
<1> HIDE DEF p
<1>5. CASE f <= j
  <2>1. j - f \in 0 .. n - 1 /\ j - f \in 0 .. n /\ f + (j - f) = j /\ j <= n  BY <1>5
  <2>2. Past(p, j - f, n) = Past(at, j, n)  BY <1>2, <2>1
  <2>3. j - f < k <=> j < f + k  BY <2>1
  <2> QED  BY <1>3, <1>5, <2>1, <2>2, <2>3 DEF p
<1>6. CASE ~(f <= j)
  <2> DEFINE i == j + (n - f)
  <2>1. i \in 0 .. n - 1 /\ i \in 0 .. n /\ f + i = n + j /\ ~(i < k)  BY <1>6
  <2> HIDE DEF i
  <2>2. Past(p, i, n) = Past(at, j, n)
    <3>1. CASE j = 0
      <4>1. f + i <= n /\ f + i = n  BY <2>1, <3>1
      <4> QED  BY <1>2, <1>4, <2>1, <3>1, <4>1
    <3>2. CASE j # 0
      <4>1. ~(f + i <= n) /\ f + i - n = j  BY <2>1, <3>2
      <4> QED  BY <1>2, <2>1, <4>1
    <3> QED  BY <3>1, <3>2
  <2> QED  BY <1>3, <1>6, <2>1, <2>2 DEF p
<1> QED  BY <1>5, <1>6

\* The descriptors f, ..., f + k - 1 after the guest's place hold the first k units of frame
\* a; of the others at most the error flag has changed.
Fills(d, e, at, f, k, a) ==
  \A j \in 0 .. RxLen - 1 :
    /\ f <= j /\ j < f + k =>
         /\ ~Rx(e, at, j).own
         /\ Rx(e, at, j).stp <=> j = f
         /\ Rx(e, at, j).enp <=> (j - f) + 1 = a.size
         /\ Rx(e, at, j).unit = <<a.id, (j - f) + 1, a.size>>
    /\ ~(f <= j /\ j < f + k) =>
         /\ Rx(e, at, j).own <=> Rx(d, at, j).own
         /\ Rx(e, at, j).stp <=> Rx(d, at, j).stp
         /\ Rx(e, at, j).enp <=> Rx(d, at, j).enp
         /\ Rx(e, at, j).unit = Rx(d, at, j).unit

\* All the receiver does beside its own ring and queue is to count.
Aside(d, e) ==
  /\ e.tx = d.tx /\ e.txAt = d.txAt /\ e.sent = d.sent
  /\ "STOP" \in e.csr0 <=> "STOP" \in d.csr0
  /\ "STRT" \in e.csr0 <=> "STRT" \in d.csr0
  /\ "TXON" \in e.csr0 <=> "TXON" \in d.csr0
  /\ "RINT" \in d.csr0 => "RINT" \in e.csr0

\* How many descriptors the receiver may fill.
LEMMA ReceiveRun ==
  ASSUME NEW d \in Card, NEW at \in 0 .. RxLen - 1, NEW f \in 0 .. RxLen, RxPlaced(d, at, f)
  PROVE  RunLength(d.rxAt, RxLen, Owned(d.rx)) = RxLen - f
<1> DEFINE n == RxLen
           p == d.rxAt
<1>1. n \in Nat \ {0} /\ at \in 0 .. n - 1 /\ f \in 0 .. n  BY Lengths
<1>2. p = Past(at, f, n) /\ \A j \in 0 .. n - 1 : Rx(d, at, j).own <=> j >= f
  BY DEF RxPlaced
<1>3. DOMAIN d.rx = 0 .. n - 1  BY DEF Card
<1>4. \A i \in 0 .. n - 1 : i \in Owned(d.rx) <=> d.rx[i].own  BY <1>3 DEF Owned
<1>5. \A i \in 0 .. n - f : Past(p, i, n) = Past(at, f + i, n)
  <2> SUFFICES ASSUME NEW i \in 0 .. n - f  PROVE Past(p, i, n) = Past(at, f + i, n)
    OBVIOUS
  <2>1. i \in 0 .. n /\ f + i <= n  BY <1>1
  <2> HIDE DEF n, p
  <2> QED  BY <1>1, <1>2, <2>1, PastFacts
<1>6. \A j \in 0 .. n : Past(at, j, n) \in 0 .. n - 1  BY <1>1, PastFacts
<1>7. ASSUME NEW j \in 0 .. (n - f) - 1  PROVE Past(p, j, n) \in Owned(d.rx)
  <2>1. f + j \in 0 .. n - 1 /\ f + j >= f /\ j \in 0 .. n - f /\ f + j \in 0 .. n  BY <1>1
  <2>2. Rx(d, at, f + j).own  BY <1>2, <2>1
  <2> QED  BY <1>4, <1>5, <1>6, <2>1, <2>2 DEF Rx
<1>8. ASSUME n - f < n  PROVE Past(p, n - f, n) \notin Owned(d.rx)
  <2>1. 0 \in 0 .. n - 1 /\ ~(0 >= f) /\ n - f \in 0 .. n - f /\ f + (n - f) = n /\ n \in 0 .. n
    BY <1>1, <1>8
  <2>2. ~Rx(d, at, 0).own  BY <1>2, <2>1
  <2>3. Past(at, n, n) = at /\ Past(at, 0, n) = at  BY <1>1, PastFacts
  <2>4. Past(p, n - f, n) = Past(at, 0, n)  BY <1>5, <2>1, <2>3
  <2> QED  BY <1>4, <1>6, <2>1, <2>2, <2>4 DEF Rx
<1>9. n - f \in 0 .. n  BY <1>1
<1> HIDE DEF n, p
<1>10. RunLength(p, n, Owned(d.rx)) = n - f  BY <1>1, <1>7, <1>8, <1>9, RunIs
<1> QED  BY <1>10 DEF n, p

\* A filled descriptor and its fields.
LEMMA DescriptorIs ==
  ASSUME NEW o \in BOOLEAN, NEW p \in BOOLEAN, NEW q \in BOOLEAN, NEW r \in BOOLEAN,
         NEW u \in Unit
  PROVE  LET d == [own |-> o, stp |-> p, enp |-> q, err |-> r, unit |-> u] IN
         d \in RxDescriptor /\ (d.own <=> o) /\ (d.stp <=> p) /\ (d.enp <=> q) /\ d.unit = u
BY DEF RxDescriptor

\* write_receive_frame fills a run of the device's descriptors with the frame's units and
\* does nothing else to the ring; where it writes the last unit it raises RINT.
LEMMA WriteFills ==
  ASSUME NEW d \in Card, NEW a \in Arrival,
         NEW at \in 0 .. RxLen - 1, NEW f \in 0 .. RxLen, RxPlaced(d, at, f)
  PROVE  LET e == WriteReceiveFrame(d, a) IN
         /\ e \in Card /\ e.pending = d.pending /\ Aside(d, e)
         /\ e.rxPackets + e.dropped = d.rxPackets + d.dropped + 1
         /\ \E k \in 0 .. RxLen - f :
              /\ k <= a.size /\ (k = a.size => "RINT" \in e.csr0)
              /\ e.rxAt = Past(at, f + k, RxLen) /\ Fills(d, e, at, f, k, a)
<1> DEFINE n == RxLen
           run == RunLength(d.rxAt, RxLen, Owned(d.rx))
           used == IF run < a.size THEN run ELSE a.size
           filled == [j \in 0 .. used - 1 |->
                        [own |-> FALSE, stp |-> (j = 0), enp |-> (j + 1 = a.size),
                         err |-> FALSE, unit |-> <<a.id, j + 1, a.size>>]]
           next == Past(d.rxAt, used, RxLen)
           R == Rewrite(d.rx, d.rxAt, RxLen, used, filled)
           b == [d EXCEPT !.rx = R, !.rxAt = next]
           e == WriteReceiveFrame(d, a)
<1>1. n \in Nat \ {0} /\ at \in 0 .. n - 1 /\ f \in 0 .. n  BY Lengths
<1>2. d.rxAt = Past(at, f, n)  BY DEF RxPlaced
<1>3. a.size \in Nat \ {0} /\ a.id \in Nat  BY DEF Arrival
<1>4. run = n - f  BY ReceiveRun
<1>5. used \in 0 .. n - f /\ used <= a.size /\ used \in 0 .. n
  <2> HIDE DEF n, run
  <2> QED  BY <1>1, <1>3, <1>4
<1>6. e = CASE run >= a.size ->
                 [b EXCEPT !.csr0 = @ \cup {"RINT"}, !.rxPackets = @ + 1]
            [] run < a.size /\ run \in {0, RxLen} ->
                 [b EXCEPT !.csr0 = @ \cup {"MISS"}, !.dropped = @ + 1]
            [] OTHER ->
                 [b EXCEPT !.rx[next].err = TRUE, !.csr0 = @ \ {"RXON"}, !.dropped = @ + 1]
  BY DEF WriteReceiveFrame
<1>7. \A j \in 0 .. used - 1 :
        /\ filled[j] \in RxDescriptor
        /\ ~filled[j].own /\ (filled[j].stp <=> j = 0) /\ (filled[j].enp <=> j + 1 = a.size)
        /\ filled[j].unit = <<a.id, j + 1, a.size>>
  <2> SUFFICES ASSUME NEW j \in 0 .. used - 1
               PROVE  /\ filled[j] \in RxDescriptor
                      /\ ~filled[j].own /\ (filled[j].stp <=> j = 0)
                      /\ (filled[j].enp <=> j + 1 = a.size)
                      /\ filled[j].unit = <<a.id, j + 1, a.size>>
    OBVIOUS
  <2>1. filled[j] = [own |-> FALSE, stp |-> (j = 0), enp |-> (j + 1 = a.size),
                     err |-> FALSE, unit |-> <<a.id, j + 1, a.size>>]
    OBVIOUS
  <2>2. <<a.id, j + 1, a.size>> \in Unit
    <3>1. j + 1 \in Nat  BY <1>5
    <3> QED  BY <1>3, <3>1 DEF Unit
  <2> DEFINE p == j = 0
             q == j + 1 = a.size
             u == <<a.id, j + 1, a.size>>
             v == [own |-> FALSE, stp |-> p, enp |-> q, err |-> FALSE, unit |-> u]
  <2>3. p \in BOOLEAN /\ q \in BOOLEAN  OBVIOUS
  <2> HIDE DEF p, q, u
  <2>4. v \in RxDescriptor /\ ~v.own /\ (v.stp <=> p) /\ (v.enp <=> q) /\ v.unit = u
    BY <2>2, <2>3, DescriptorIs DEF u
  <2> HIDE DEF v, filled, used
  <2>5. filled[j] = v  BY <2>1 DEF v, p, q, u
  <2> QED  BY <2>4, <2>5 DEF p, q, u
<1> HIDE DEF filled
<1>8. \A j \in 0 .. n - 1 :
        /\ f <= j /\ j < f + used => R[Past(at, j, n)] = filled[j - f]
        /\ ~(f <= j /\ j < f + used) => R[Past(at, j, n)] = d.rx[Past(at, j, n)]
  <2>1. R = Rewrite(d.rx, Past(at, f, n), n, used, filled)  BY <1>2
  <2> HIDE DEF n, used, R
  <2> SUFFICES ASSUME NEW j \in 0 .. n - 1
               PROVE  /\ f <= j /\ j < f + used => R[Past(at, j, n)] = filled[j - f]
                      /\ ~(f <= j /\ j < f + used) =>
                           R[Past(at, j, n)] = d.rx[Past(at, j, n)]
    OBVIOUS
  <2> DEFINE ring == d.rx
  <2> HIDE DEF ring
  <2>2. /\ f <= j /\ j < f + used =>
             Rewrite(ring, Past(at, f, n), n, used, filled)[Past(at, j, n)] = filled[j - f]
        /\ ~(f <= j /\ j < f + used) =>
             Rewrite(ring, Past(at, f, n), n, used, filled)[Past(at, j, n)]
               = ring[Past(at, j, n)]
    BY <1>1, <1>5, RewriteFrom
  <2> QED  BY <2>1, <2>2 DEF ring
<1>9. d.rx \in [0 .. n - 1 -> RxDescriptor] /\ d.csr0 \subseteq Csr0Bit
      /\ d.rxPackets \in Nat /\ d.dropped \in Nat
  BY DEF Card
<1>10. \A i \in 0 .. n - 1 : /\ Past(i, n - at, n) \in 0 .. n - 1
                             /\ Past(at, Past(i, n - at, n), n) = i
  BY <1>1, PastFacts
<1>11. R \in [0 .. n - 1 -> RxDescriptor]
  <2>1. ASSUME NEW i \in 0 .. n - 1  PROVE R[i] \in RxDescriptor
    <3> DEFINE j == Past(i, n - at, n)
    <3>1. j \in 0 .. n - 1 /\ Past(at, j, n) = i  BY <1>10
    <3> HIDE DEF j, R, used, n
    <3>2. CASE f <= j /\ j < f + used
      <4>1. R[i] = filled[j - f]  BY <1>8, <3>1, <3>2
      <4>2. j - f \in 0 .. used - 1  BY <1>1, <1>5, <3>1, <3>2
      <4> QED  BY <1>7, <4>1, <4>2
    <3>3. CASE ~(f <= j /\ j < f + used)
      <4>1. R[i] = d.rx[i]  BY <1>8, <3>1, <3>3
      <4> QED  BY <1>9, <4>1
    <3> QED  BY <3>2, <3>3
  <2>2. R = [i \in 0 .. n - 1 |-> R[i]]  BY DEF Rewrite
  <2> HIDE DEF R
  <2> QED  BY <2>1, <2>2
<1>12. next \in 0 .. n - 1 /\ next = Past(at, f + used, n)
  <2>1. Past(Past(at, f, n), used, n) = Past(at, f + used, n) /\ f + used \in 0 .. n
    <3>1. f + used <= n /\ f + used \in 0 .. n  BY <1>1, <1>5
    <3> HIDE DEF n, used
    <3> QED  BY <1>1, <1>5, <3>1, PastFacts
  <2>2. Past(at, f + used, n) \in 0 .. n - 1
    <3> HIDE DEF n, used
    <3> QED  BY <1>1, <2>1, PastFacts
  <2> QED  BY <1>2, <2>1, <2>2
<1> HIDE DEF R, next, used, run, n
<1>13. b \in Card /\ b.rx = R /\ b.rxAt = next /\ b.pending = d.pending /\ b.csr0 = d.csr0
       /\ b.tx = d.tx /\ b.txAt = d.txAt /\ b.sent = d.sent
       /\ b.rxPackets = d.rxPackets /\ b.dropped = d.dropped
  BY <1>11, <1>12 DEF Card, n
<1> HIDE DEF b
<1>14. /\ e \in Card /\ e.pending = d.pending /\ Aside(d, e) /\ e.rxAt = next
       /\ e.rxPackets + e.dropped = d.rxPackets + d.dropped + 1
       /\ used = a.size => "RINT" \in e.csr0
       /\ DOMAIN e.rx = 0 .. n - 1
       /\ \A i \in 0 .. n - 1 : /\ e.rx[i].own <=> R[i].own
                                /\ e.rx[i].stp <=> R[i].stp
                                /\ e.rx[i].enp <=> R[i].enp
                                /\ e.rx[i].unit = R[i].unit
  <2>1. CASE run >= a.size
    <3>1. e = [b EXCEPT !.csr0 = @ \cup {"RINT"}, !.rxPackets = @ + 1]
      <4>1. ~(run < a.size)  BY <1>1, <1>3, <1>4, <2>1
      <4> QED  BY <1>6, <2>1, <4>1
    <3>2. d.csr0 \cup {"RINT"} \subseteq Csr0Bit  BY <1>9 DEF Csr0Bit, Event
    <3> HIDE DEF e
    <3> DEFINE s == d.csr0 \cup {"RINT"}
               m == d.rxPackets + 1
    <3>4. e = [b EXCEPT !.csr0 = s, !.rxPackets = m]  BY <1>13, <3>1
    <3>5. s \subseteq Csr0Bit /\ m \in Nat  BY <1>9, <3>2
    <3> HIDE DEF s, m
    <3>6. e \in Card  BY <1>13, <3>4, <3>5 DEF Card
    <3>7. e.rx = R /\ e.rxAt = next /\ e.pending = d.pending /\ e.csr0 = s
          /\ e.tx = d.tx /\ e.txAt = d.txAt /\ e.sent = d.sent
          /\ e.rxPackets = m /\ e.dropped = d.dropped
      BY <1>13, <3>4 DEF Card
    <3>3. e \in Card /\ e.rx = R /\ e.rxAt = next /\ e.pending = d.pending
          /\ e.csr0 = d.csr0 \cup {"RINT"}
          /\ e.tx = d.tx /\ e.txAt = d.txAt /\ e.sent = d.sent
          /\ e.rxPackets = d.rxPackets + 1 /\ e.dropped = d.dropped
      BY <3>6, <3>7 DEF s, m
    <3> QED  BY <1>9, <1>11, <3>3 DEF Aside
  <2>2. CASE run < a.size /\ run \in {0, RxLen}
    <3>1. e = [b EXCEPT !.csr0 = @ \cup {"MISS"}, !.dropped = @ + 1]
      <4>1. ~(run >= a.size)  BY <1>1, <1>3, <1>4, <2>2
      <4> QED  BY <1>6, <2>2, <4>1
    <3>2. d.csr0 \cup {"MISS"} \subseteq Csr0Bit  BY <1>9 DEF Csr0Bit, Event
    <3>0. used # a.size  BY <1>1, <1>3, <1>4, <2>2 DEF used
    <3> HIDE DEF e
    <3> DEFINE s == d.csr0 \cup {"MISS"}
               m == d.dropped + 1
    <3>4. e = [b EXCEPT !.csr0 = s, !.dropped = m]  BY <1>13, <3>1
    <3>5. s \subseteq Csr0Bit /\ m \in Nat  BY <1>9, <3>2
    <3> HIDE DEF s, m
    <3>6. e \in Card  BY <1>13, <3>4, <3>5 DEF Card
    <3>7. e.rx = R /\ e.rxAt = next /\ e.pending = d.pending /\ e.csr0 = s
          /\ e.tx = d.tx /\ e.txAt = d.txAt /\ e.sent = d.sent
          /\ e.rxPackets = d.rxPackets /\ e.dropped = m
      BY <1>13, <3>4 DEF Card
    <3>3. e \in Card /\ e.rx = R /\ e.rxAt = next /\ e.pending = d.pending
          /\ e.csr0 = d.csr0 \cup {"MISS"}
          /\ e.tx = d.tx /\ e.txAt = d.txAt /\ e.sent = d.sent
          /\ e.rxPackets = d.rxPackets /\ e.dropped = d.dropped + 1
      BY <3>6, <3>7 DEF s, m
    <3> QED  BY <1>9, <1>11, <3>3, <3>0 DEF Aside
  <2>3. CASE run < a.size /\ run \notin {0, RxLen}
    <3>1. e = [b EXCEPT !.rx[next].err = TRUE, !.csr0 = @ \ {"RXON"}, !.dropped = @ + 1]
      <4>1. ~(run >= a.size)  BY <1>1, <1>3, <1>4, <2>3
      <4> QED  BY <1>6, <2>3, <4>1
    <3>2. d.csr0 \ {"RXON"} \subseteq Csr0Bit  BY <1>9
    <3>0. used # a.size  BY <1>1, <1>3, <1>4, <2>3 DEF used
    <3> HIDE DEF e
    <3> DEFINE Q == [R EXCEPT ![next].err = TRUE]
    <3>4. Q \in [0 .. n - 1 -> RxDescriptor]
          /\ \A i \in 0 .. n - 1 : /\ Q[i].own <=> R[i].own
                                   /\ Q[i].stp <=> R[i].stp
                                   /\ Q[i].enp <=> R[i].enp
                                   /\ Q[i].unit = R[i].unit
      <4>1. Q = [R EXCEPT ![next] = [R[next] EXCEPT !.err = TRUE]]  OBVIOUS
      <4>2. R[next] \in RxDescriptor  BY <1>11, <1>12
      <4>3. [R[next] EXCEPT !.err = TRUE] \in RxDescriptor
            /\ ([R[next] EXCEPT !.err = TRUE].own <=> R[next].own)
            /\ ([R[next] EXCEPT !.err = TRUE].stp <=> R[next].stp)
            /\ ([R[next] EXCEPT !.err = TRUE].enp <=> R[next].enp)
            /\ [R[next] EXCEPT !.err = TRUE].unit = R[next].unit
        BY <4>2 DEF RxDescriptor
      <4> HIDE DEF Q
      <4> QED  BY <1>11, <1>12, <4>1, <4>3
    <3> DEFINE s == d.csr0 \ {"RXON"}
               m == d.dropped + 1
    <3>5. e = [b EXCEPT !.rx = Q, !.csr0 = s, !.dropped = m]
      BY <1>13, <3>1
    <3>6. s \subseteq Csr0Bit /\ m \in Nat  BY <1>9, <3>2
    <3> HIDE DEF Q, s, m
    <3>7. e \in Card  BY <1>13, <3>4, <3>5, <3>6 DEF Card, n
    <3>8. e.rx = Q /\ e.rxAt = next /\ e.pending = d.pending /\ e.csr0 = s
          /\ e.tx = d.tx /\ e.txAt = d.txAt /\ e.sent = d.sent
          /\ e.rxPackets = d.rxPackets /\ e.dropped = m
      BY <1>13, <3>5 DEF Card
    <3>3. e \in Card /\ e.rx = Q /\ e.rxAt = next /\ e.pending = d.pending
          /\ e.csr0 = d.csr0 \ {"RXON"}
          /\ e.tx = d.tx /\ e.txAt = d.txAt /\ e.sent = d.sent
          /\ e.rxPackets = d.rxPackets /\ e.dropped = d.dropped + 1
      BY <3>7, <3>8 DEF s, m
    <3> QED  BY <1>9, <3>4, <3>3, <3>0 DEF Aside
  <2> QED  BY <1>1, <1>3, <1>4, <2>1, <2>2, <2>3
<1> HIDE DEF e
<1>15. Fills(d, e, at, f, used, a)
  <2> SUFFICES ASSUME NEW j \in 0 .. n - 1
               PROVE  /\ f <= j /\ j < f + used =>
                           /\ ~Rx(e, at, j).own
                           /\ Rx(e, at, j).stp <=> j = f
                           /\ Rx(e, at, j).enp <=> (j - f) + 1 = a.size
                           /\ Rx(e, at, j).unit = <<a.id, (j - f) + 1, a.size>>
                      /\ ~(f <= j /\ j < f + used) =>
                           /\ Rx(e, at, j).own <=> Rx(d, at, j).own
                           /\ Rx(e, at, j).stp <=> Rx(d, at, j).stp
                           /\ Rx(e, at, j).enp <=> Rx(d, at, j).enp
                           /\ Rx(e, at, j).unit = Rx(d, at, j).unit
    BY DEF Fills, n
  <2> DEFINE i == Past(at, j, n)
  <2>1. i \in 0 .. n - 1
    <3>1. j \in 0 .. n  BY <1>1
    <3> QED  BY <1>1, <3>1, PastFacts
  <2>2. Rx(e, at, j) = e.rx[i] /\ Rx(d, at, j) = d.rx[i]  BY DEF Rx, n
  <2>3. /\ f <= j /\ j < f + used => R[i] = filled[j - f]
        /\ ~(f <= j /\ j < f + used) => R[i] = d.rx[i]
    BY <1>8
  <2> HIDE DEF i
  <2>4. CASE f <= j /\ j < f + used
    <3>1. j - f \in 0 .. used - 1 /\ (j - f = 0 <=> j = f)  BY <1>1, <1>5, <2>4
    <3>2. R[i] = filled[j - f]  BY <2>3, <2>4
    <3> QED  BY <1>7, <1>14, <2>1, <2>2, <2>4, <3>1, <3>2
  <2>5. CASE ~(f <= j /\ j < f + used)
    <3>1. R[i] = d.rx[i]  BY <2>3, <2>5
    <3> QED  BY <1>14, <2>1, <2>2, <2>5, <3>1
  <2> QED  BY <2>4, <2>5
<1> QED  BY <1>5, <1>12, <1>14, <1>15 DEF n, e

\* Only INTR is changed by the interrupt summary.
LEMMA SummaryIs ==
  ASSUME NEW c \in Card
  PROVE  LET e == Summary(c) IN
         /\ e \in Card
         /\ e.rx = c.rx /\ e.rxAt = c.rxAt /\ e.pending = c.pending
         /\ e.tx = c.tx /\ e.txAt = c.txAt /\ e.sent = c.sent
         /\ e.rxPackets = c.rxPackets /\ e.dropped = c.dropped
         /\ \A b \in Csr0Bit \ {"INTR"} : b \in e.csr0 <=> b \in c.csr0
<1> DEFINE csr == c.csr0 \ {"INTR"}
           s == IF "INEA" \in csr /\ csr \cap Event # {} THEN csr \cup {"INTR"} ELSE csr
           e == Summary(c)
<1>1. e = [c EXCEPT !.csr0 = s]  BY DEF Summary
<1>2. s \subseteq Csr0Bit /\ \A b \in Csr0Bit \ {"INTR"} : b \in s <=> b \in c.csr0
  <2>1. c.csr0 \subseteq Csr0Bit  BY DEF Card
  <2>2. "INTR" \in Csr0Bit  BY DEF Csr0Bit
  <2> QED  BY <2>1, <2>2
<1> HIDE DEF s, e
<1>3. e \in Card  BY <1>1, <1>2 DEF Card
<1>4. /\ e.rx = c.rx /\ e.rxAt = c.rxAt /\ e.pending = c.pending
      /\ e.tx = c.tx /\ e.txAt = c.txAt /\ e.sent = c.sent
      /\ e.rxPackets = c.rxPackets /\ e.dropped = c.dropped /\ e.csr0 = s
  BY <1>1 DEF Card
<1> QED  BY <1>2, <1>3, <1>4 DEF e

\* RxOk is about the ring, the receiver's place in it and the queue.
LEMMA RxOkSame ==
  ASSUME NEW d, NEW e, e.rx = d.rx, e.rxAt = d.rxAt, e.pending = d.pending,
         NEW at, NEW part, NEW last, NEW arr, RxOk(d, at, part, last, arr)
  PROVE  RxOk(e, at, part, last, arr)
BY DEF RxOk, RxPlaced, RxUnits, RxBegun, RxPending, Rx

\* The types of a receive descriptor.
LEMMA RxTypes ==
  ASSUME NEW d \in Card, NEW at \in 0 .. RxLen - 1, NEW j \in 0 .. RxLen - 1
  PROVE  /\ Rx(d, at, j) \in RxDescriptor
         /\ Rx(d, at, j).unit[1] \in Nat /\ Rx(d, at, j).unit[2] \in Nat
         /\ Rx(d, at, j).unit[3] \in Nat
         /\ Rx(d, at, j).unit = <<Rx(d, at, j).unit[1], Rx(d, at, j).unit[2],
                                 Rx(d, at, j).unit[3]>>
<1>1. Past(at, j, RxLen) \in 0 .. RxLen - 1
  <2>1. j \in 0 .. RxLen  BY Lengths
  <2> QED  BY Lengths, <2>1, PastFacts
<1>2. Rx(d, at, j) \in RxDescriptor  BY <1>1 DEF Rx, Card
<1>3. Rx(d, at, j).unit \in Unit  BY <1>2 DEF RxDescriptor
<1> QED  BY <1>2, <1>3 DEF Unit

\* The units of a frame later than all before it fit behind those in the ring.
LEMMA FillsKeep ==
  ASSUME NEW d \in Card, NEW e \in Card, NEW a \in Arrival, NEW at \in 0 .. RxLen - 1,
         NEW f \in 0 .. RxLen, NEW k \in 0 .. RxLen - f, k <= a.size,
         NEW last \in Nat, NEW top \in Nat, top < a.id, last <= top, NEW part \in Seq(Unit),
         RxPlaced(d, at, f), RxUnits(d, at, f, last, top), RxBegun(d, at, part, f, last, top),
         Fills(d, e, at, f, k, a), e.rxAt = Past(at, f + k, RxLen)
  PROVE  /\ RxPlaced(e, at, f + k) /\ RxUnits(e, at, f + k, last, a.id)
         /\ RxBegun(e, at, part, f + k, last, a.id)
<1>0. a.id \in Nat /\ a.size \in Nat /\ RxLen \in Nat \ {0}  BY Lengths DEF Arrival
<1>1. RxPlaced(e, at, f + k)
  <2>1. ASSUME NEW j \in 0 .. RxLen - 1  PROVE Rx(e, at, j).own <=> j >= f + k
    <3>1. Rx(d, at, j).own <=> j >= f  BY DEF RxPlaced
    <3>2. CASE f <= j /\ j < f + k  BY <1>0, <3>2 DEF Fills
    <3>3. CASE ~(f <= j /\ j < f + k)
      <4>1. Rx(e, at, j).own <=> Rx(d, at, j).own  BY <3>3 DEF Fills
      <4> QED  BY <1>0, <3>1, <3>3, <4>1
    <3> QED  BY <3>2, <3>3
  <2> QED  BY <2>1 DEF RxPlaced
<1>2. ASSUME NEW j \in 0 .. (f + k) - 1  PROVE RxUnit(Rx(e, at, j), last, a.id)
  <2>1. j \in 0 .. RxLen - 1  BY <1>0
  <2>2. CASE f <= j
    <3>1. /\ Rx(e, at, j).stp <=> j = f
          /\ Rx(e, at, j).enp <=> (j - f) + 1 = a.size
          /\ Rx(e, at, j).unit = <<a.id, (j - f) + 1, a.size>>
      BY <1>0, <2>1, <2>2 DEF Fills
    <3>2. (j = f <=> (j - f) + 1 = 1) /\ 1 <= (j - f) + 1 /\ (j - f) + 1 <= a.size
          /\ last < a.id /\ a.id <= a.id
      BY <1>0, <2>1, <2>2
    <3> QED  BY <3>1, <3>2 DEF RxUnit
  <2>3. CASE ~(f <= j)
    <3>1. j \in 0 .. f - 1 /\ ~(f <= j /\ j < f + k)  BY <1>0, <2>1, <2>3
    <3>2. RxUnit(Rx(d, at, j), last, top)  BY <3>1 DEF RxUnits
    <3>3. /\ Rx(e, at, j).stp <=> Rx(d, at, j).stp
          /\ Rx(e, at, j).enp <=> Rx(d, at, j).enp
          /\ Rx(e, at, j).unit = Rx(d, at, j).unit
      BY <2>1, <3>1 DEF Fills
    <3>4. Rx(d, at, j).unit[1] \in Nat  BY <2>1, RxTypes
    <3>5. Rx(d, at, j).unit[1] <= a.id
      <4> DEFINE z == Rx(d, at, j).unit[1]
      <4>1. z \in Nat /\ z <= top  BY <3>2, <3>4 DEF RxUnit
      <4> HIDE DEF z
      <4>2. z <= a.id  BY <1>0, <4>1
      <4> QED  BY <4>2 DEF z
    <3> QED  BY <3>2, <3>3, <3>5 DEF RxUnit
  <2> QED  BY <2>2, <2>3
<1>3. ASSUME NEW j \in 1 .. (f + k) - 1  PROVE Follows(Rx(e, at, j - 1).unit, Rx(e, at, j))
  <2>1. j \in 0 .. RxLen - 1 /\ j - 1 \in 0 .. RxLen - 1  BY <1>0
  <2>2. CASE f < j
    <3>1. (f <= j /\ j < f + k) /\ (f <= j - 1 /\ j - 1 < f + k) /\ j # f  BY <1>0, <2>1, <2>2
    <3>2. /\ ~Rx(e, at, j).stp
          /\ Rx(e, at, j).unit = <<a.id, (j - f) + 1, a.size>>
          /\ Rx(e, at, j - 1).unit = <<a.id, ((j - 1) - f) + 1, a.size>>
      BY <2>1, <3>1 DEF Fills
    <3>3. (j - f) + 1 = (((j - 1) - f) + 1) + 1  BY <1>0
    <3> QED  BY <3>2, <3>3 DEF Follows
  <2>3. CASE f = j
    <3>1. (f <= j /\ j < f + k) /\ ~(f <= j - 1 /\ j - 1 < f + k) /\ j - 1 \in 0 .. f - 1
      BY <1>0, <2>1, <2>3
    <3>2. /\ Rx(e, at, j).stp
          /\ Rx(e, at, j).unit = <<a.id, (j - f) + 1, a.size>>
          /\ Rx(e, at, j - 1).unit = Rx(d, at, j - 1).unit
      BY <2>1, <2>3, <3>1 DEF Fills
    <3>3. RxUnit(Rx(d, at, j - 1), last, top)  BY <3>1 DEF RxUnits
    <3>4. Rx(d, at, j - 1).unit[1] \in Nat  BY <2>1, RxTypes
    <3>5. Rx(d, at, j - 1).unit[1] < a.id
      <4> DEFINE z == Rx(d, at, j - 1).unit[1]
      <4>1. z \in Nat /\ z <= top  BY <3>3, <3>4 DEF RxUnit
      <4> HIDE DEF z
      <4>2. z < a.id  BY <1>0, <4>1
      <4> QED  BY <4>2 DEF z
    <3> QED  BY <3>2, <3>5 DEF Follows
  <2>4. CASE j < f
    <3>1. ~(f <= j /\ j < f + k) /\ ~(f <= j - 1 /\ j - 1 < f + k) /\ j \in 1 .. f - 1
      BY <1>0, <2>1, <2>4
    <3>2. /\ Rx(e, at, j).stp <=> Rx(d, at, j).stp
          /\ Rx(e, at, j).unit = Rx(d, at, j).unit
          /\ Rx(e, at, j - 1).unit = Rx(d, at, j - 1).unit
      BY <2>1, <3>1 DEF Fills
    <3>3. Follows(Rx(d, at, j - 1).unit, Rx(d, at, j))  BY <3>1 DEF RxUnits
    <3> QED  BY <3>2, <3>3 DEF Follows
  <2> QED  BY <1>0, <2>1, <2>2, <2>3, <2>4
<1>4. RxBegun(e, at, part, f + k, last, a.id)
  <2> SUFFICES ASSUME part # << >>
               PROVE  /\ \A i \in 1 .. Len(part) : part[i] = <<part[1][1], i, part[1][3]>>
                      /\ Len(part) < part[1][3] /\ last < part[1][1] /\ part[1][1] <= a.id
                      /\ f + k > 0 => Follows(part[Len(part)], Rx(e, at, 0))
    BY DEF RxBegun
  <2>0. Len(part) \in Nat /\ Len(part) > 0 /\ part[1] \in Unit /\ part[Len(part)] \in Unit
    OBVIOUS
  <2>1. /\ \A i \in 1 .. Len(part) : part[i] = <<part[1][1], i, part[1][3]>>
        /\ Len(part) < part[1][3] /\ last < part[1][1] /\ part[1][1] <= top
        /\ f > 0 => Follows(part[Len(part)], Rx(d, at, 0))
    BY DEF RxBegun
  <2>4. part[1][1] \in Nat  BY <2>0 DEF Unit
  <2>2. part[1][1] < a.id /\ part[1][1] <= a.id
    BY <1>0, <2>1, <2>4
  <2>3. ASSUME f + k > 0  PROVE Follows(part[Len(part)], Rx(e, at, 0))
    <3>1. 0 \in 0 .. RxLen - 1  BY <1>0
    <3>2. CASE f = 0
      <4>1. f <= 0 /\ 0 < f + k /\ (0 - f) + 1 = 1  BY <2>3, <3>2
      <4>2. Rx(e, at, 0).stp /\ Rx(e, at, 0).unit = <<a.id, (0 - f) + 1, a.size>>
        BY <3>1, <3>2, <4>1 DEF Fills
      <4>3. part[Len(part)] = <<part[1][1], Len(part), part[1][3]>>  BY <2>0, <2>1
      <4> QED  BY <2>2, <4>2, <4>3 DEF Follows
    <3>3. CASE f > 0
      <4>1. ~(f <= 0 /\ 0 < f + k)  BY <1>0, <3>3
      <4>2. /\ Rx(e, at, 0).stp <=> Rx(d, at, 0).stp
            /\ Rx(e, at, 0).unit = Rx(d, at, 0).unit
        BY <3>1, <4>1 DEF Fills
      <4> QED  BY <2>1, <3>3, <4>2 DEF Follows
    <3> QED  BY <1>0, <3>2, <3>3
  <2> QED  BY <2>1, <2>2, <2>3
<1> QED  BY <1>1, <1>2, <1>3, <1>4 DEF RxUnits

\* Where a frame's end is filled in, RINT is up.
LEMMA FillsWake ==
  ASSUME NEW d \in Card, NEW e \in Card, NEW a \in Arrival, NEW at \in 0 .. RxLen - 1,
         NEW f \in 0 .. RxLen, NEW k \in 0 .. RxLen - f, k <= a.size,
         k = a.size => "RINT" \in e.csr0,
         Fills(d, e, at, f, k, a), Aside(d, e), Waking(d)
  PROVE  Waking(e)
<1> SUFFICES ASSUME NEW i \in 0 .. RxLen - 1, ~e.rx[i].own, e.rx[i].enp
             PROVE  "RINT" \in e.csr0
  BY DEF Waking
<1> DEFINE j == Past(i, RxLen - at, RxLen)
<1>0. a.size \in Nat /\ RxLen \in Nat \ {0}  BY Lengths DEF Arrival
<1>1. j \in 0 .. RxLen - 1 /\ Past(at, j, RxLen) = i  BY <1>0, PastFacts
<1> HIDE DEF j
<1>2. e.rx[i] = Rx(e, at, j) /\ d.rx[i] = Rx(d, at, j)  BY <1>1 DEF Rx
<1>3. CASE f <= j /\ j < f + k
  <2>1. (j - f) + 1 = a.size  BY <1>1, <1>2, <1>3 DEF Fills
  <2>2. k = a.size  BY <1>0, <1>1, <1>3, <2>1
  <2> QED  BY <2>2
<1>4. CASE ~(f <= j /\ j < f + k)
  <2>1. ~d.rx[i].own /\ d.rx[i].enp  BY <1>1, <1>2, <1>4 DEF Fills
  <2>2. "RINT" \in d.csr0  BY <2>1 DEF Waking
  <2> QED  BY <2>2 DEF Aside
<1> QED  BY <1>3, <1>4

\* One frame less that waits is one more received or dropped.
LEMMA Balance ==
  ASSUME NEW p \in Nat, NEW x \in Nat, NEW y \in Nat, NEW u \in Nat, NEW v \in Nat,
         u + v = x + y + 1
  PROVE  (p - 1) + u + v = p + x + y
OBVIOUS

\* What the guest has to take is left as it is.
Unread(d, e) ==
  \A i \in 0 .. RxLen - 1 : ~d.rx[i].own => ~e.rx[i].own /\ e.rx[i].unit = d.rx[i].unit

\* What is filled was the device's.
LEMMA FillsLeave ==
  ASSUME NEW d \in Card, NEW e \in Card, NEW a, NEW at \in 0 .. RxLen - 1,
         NEW f \in 0 .. RxLen, NEW k, RxPlaced(d, at, f), Fills(d, e, at, f, k, a)
  PROVE  Unread(d, e)
<1> SUFFICES ASSUME NEW i \in 0 .. RxLen - 1, ~d.rx[i].own
             PROVE  ~e.rx[i].own /\ e.rx[i].unit = d.rx[i].unit
  BY DEF Unread
<1> DEFINE j == Past(i, RxLen - at, RxLen)
<1>1. j \in 0 .. RxLen - 1 /\ Past(at, j, RxLen) = i  BY Lengths, PastFacts
<1> HIDE DEF j
<1>2. e.rx[i] = Rx(e, at, j) /\ d.rx[i] = Rx(d, at, j)  BY <1>1 DEF Rx
<1>3. ~(j >= f)  BY <1>1, <1>2 DEF RxPlaced
<1>4. ~(f <= j /\ j < f + k)  BY <1>1, <1>3
<1> QED  BY <1>1, <1>2, <1>4 DEF Fills

\* One turn of the loop: the ring stays in order, and the frame is counted.
LEMMA TakePendingKeeps ==
  ASSUME NEW d \in Card, Len(d.pending) > 0, NEW at \in 0 .. RxLen - 1, NEW part \in Seq(Unit),
         NEW last \in Nat, NEW arr \in Nat, RxOk(d, at, part, last, arr)
  PROVE  LET e == TakePending(d) IN
         /\ e \in Card /\ RxOk(e, at, part, last, arr) /\ (Waking(d) => Waking(e))
         /\ Aside(d, e) /\ Counted(e) = Counted(d)
         /\ Len(e.pending) = Len(d.pending) - 1 /\ Unread(d, e)
<1> DEFINE a == Head(d.pending)
           b == [d EXCEPT !.pending = Tail(@)]
           w == WriteReceiveFrame(b, a)
           e == TakePending(d)
           q == Tail(d.pending)
<1>1. d.pending \in Seq(Arrival) /\ d.rxPackets \in Nat /\ d.dropped \in Nat  BY DEF Card
<1>2. /\ a \in Arrival /\ a = d.pending[1] /\ q \in Seq(Arrival)
      /\ Len(q) = Len(d.pending) - 1 /\ Len(d.pending) \in Nat
      /\ \A i \in 1 .. Len(q) : q[i] = d.pending[i + 1] /\ i + 1 \in 1 .. Len(d.pending)
  BY <1>1
<1>3. a.id \in Nat  BY <1>2 DEF Arrival
<1>4. PICK f \in 0 .. RxLen, top \in last .. arr :
        /\ RxPlaced(d, at, f) /\ RxUnits(d, at, f, last, top)
        /\ RxBegun(d, at, part, f, last, top) /\ RxPending(d, top, arr)
  BY DEF RxOk
<1>5. /\ top \in Nat /\ last <= top /\ top <= arr /\ top < a.id /\ a.id <= arr
      /\ \A i \in 1 .. Len(q) : a.id < q[i].id /\ q[i].id <= arr
      /\ \A i, j \in 1 .. Len(q) : i < j => q[i].id < q[j].id
  <2>1. 1 \in 1 .. Len(d.pending)  BY <1>2
  <2>2. top < a.id /\ a.id <= arr  BY <1>2, <1>4, <2>1 DEF RxPending
  <2>3. ASSUME NEW i \in 1 .. Len(q)  PROVE a.id < q[i].id /\ q[i].id <= arr
    <3>1. 1 < i + 1  OBVIOUS
    <3> QED  BY <1>2, <1>4, <2>1, <3>1 DEF RxPending
  <2>4. ASSUME NEW i \in 1 .. Len(q), NEW j \in 1 .. Len(q), i < j  PROVE q[i].id < q[j].id
    <3>1. i + 1 < j + 1  BY <1>2, <2>4
    <3> QED  BY <1>2, <1>4, <3>1 DEF RxPending
  <2> HIDE DEF a, q
  <2>5. top \in Nat /\ last <= top /\ top <= arr  OBVIOUS
  <2> QED  BY <2>2, <2>3, <2>4, <2>5
<1> HIDE DEF a, q
<1>6. b = [d EXCEPT !.pending = q]  BY DEF q
<1>7. e = IF a.mine THEN Summary(w) ELSE [b EXCEPT !.dropped = @ + 1]
  BY DEF TakePending, a
<1> HIDE DEF b, e
<1>8. /\ b \in Card /\ b.rx = d.rx /\ b.rxAt = d.rxAt /\ b.pending = q /\ b.csr0 = d.csr0
      /\ b.tx = d.tx /\ b.txAt = d.txAt /\ b.sent = d.sent
      /\ b.rxPackets = d.rxPackets /\ b.dropped = d.dropped
  BY <1>2, <1>6 DEF Card
<1>9. CASE ~a.mine
  <2> DEFINE m == d.dropped + 1
  <2>1. e = [b EXCEPT !.dropped = m] /\ m \in Nat  BY <1>1, <1>7, <1>8, <1>9
  <2> HIDE DEF m
  <2>2. /\ e \in Card /\ e.rx = d.rx /\ e.rxAt = d.rxAt /\ e.pending = q /\ e.csr0 = d.csr0
        /\ e.tx = d.tx /\ e.txAt = d.txAt /\ e.sent = d.sent
        /\ e.rxPackets = d.rxPackets /\ e.dropped = m
    BY <1>8, <2>1 DEF Card
  <2>3. RxPlaced(e, at, f) /\ RxUnits(e, at, f, last, top) /\ RxBegun(e, at, part, f, last, top)
    BY <1>4, <2>2 DEF RxPlaced, RxUnits, RxBegun, Rx
  <2>4. RxPending(e, top, arr)
    <3>1. \A i \in 1 .. Len(q) : top < q[i].id
      <4>0. \A i \in 1 .. Len(q) : q[i] \in Arrival  BY <1>2
      <4>1. \A i \in 1 .. Len(q) : q[i].id \in Nat  BY <4>0 DEF Arrival
      <4> QED  BY <1>3, <1>5, <4>1
    <3> QED  BY <1>5, <2>2, <3>1 DEF RxPending
  <2>5. RxOk(e, at, part, last, arr)  BY <2>3, <2>4 DEF RxOk
  <2>6. (Waking(d) => Waking(e)) /\ Aside(d, e) /\ Unread(d, e)
    BY <2>2 DEF Waking, Aside, Unread
  <2>7. Counted(e) = Counted(d)
    <3>1. Counted(e) = Len(q) + d.rxPackets + m  BY <2>2 DEF Counted
    <3>2. Counted(d) = Len(d.pending) + d.rxPackets + d.dropped  BY DEF Counted
    <3>3. Len(q) = Len(d.pending) - 1 /\ Len(d.pending) \in Nat  BY <1>2
    <3>4. m \in Nat /\ d.rxPackets + m = d.rxPackets + d.dropped + 1  BY <1>1 DEF m
    <3>5. Counted(e) = (Len(d.pending) - 1) + d.rxPackets + m  BY <3>1, <3>3
    <3> DEFINE p == Len(d.pending)
               x == d.rxPackets
               y == d.dropped
    <3>6. p \in Nat /\ x \in Nat /\ y \in Nat  BY <1>1, <3>3
    <3> HIDE DEF p, x, y, m
    <3>7. (p - 1) + x + m = p + x + y
      <4>1. x + m = x + y + 1  BY <3>4 DEF x, y
      <4>2. m \in Nat  BY <3>4
      <4> QED  BY <3>6, <4>1, <4>2, Balance
    <3> QED  BY <3>2, <3>5, <3>7 DEF p, x, y
  <2> QED  BY <1>2, <2>2, <2>5, <2>6, <2>7 DEF e
<1>10. CASE a.mine
  <2>1. RxPlaced(b, at, f) /\ RxUnits(b, at, f, last, top) /\ RxBegun(b, at, part, f, last, top)
    BY <1>4, <1>8 DEF RxPlaced, RxUnits, RxBegun, Rx
  <2>2. /\ w \in Card /\ w.pending = b.pending /\ Aside(b, w)
        /\ w.rxPackets + w.dropped = b.rxPackets + b.dropped + 1
        /\ \E k \in 0 .. RxLen - f :
             /\ k <= a.size /\ (k = a.size => "RINT" \in w.csr0)
             /\ w.rxAt = Past(at, f + k, RxLen) /\ Fills(b, w, at, f, k, a)
    BY <1>2, <1>8, <2>1, WriteFills
  <2> HIDE DEF w
  <2>3. PICK k \in 0 .. RxLen - f :
          /\ k <= a.size /\ (k = a.size => "RINT" \in w.csr0)
          /\ w.rxAt = Past(at, f + k, RxLen) /\ Fills(b, w, at, f, k, a)
    BY <2>2
  <2>4. /\ RxPlaced(w, at, f + k) /\ RxUnits(w, at, f + k, last, a.id)
        /\ RxBegun(w, at, part, f + k, last, a.id)
    BY <1>2, <1>5, <1>8, <2>1, <2>2, <2>3, FillsKeep
  <2>5. RxPending(w, a.id, arr)  BY <1>5, <1>8, <2>2 DEF RxPending
  <2>6. RxOk(w, at, part, last, arr)
    <3>1. f + k \in 0 .. RxLen /\ a.id \in last .. arr  BY Lengths, <1>3, <1>5
    <3> QED  BY <2>4, <2>5, <3>1 DEF RxOk
  <2>7. Waking(d) => Waking(w)
    <3>1. Waking(d) => Waking(b)  BY <1>8 DEF Waking
    <3>2. Waking(b) => Waking(w)  BY <1>2, <1>8, <2>2, <2>3, FillsWake
    <3> QED  BY <3>1, <3>2
  <2>8. e = Summary(w)  BY <1>7, <1>10
  <2>9. /\ e \in Card /\ e.rx = w.rx /\ e.rxAt = w.rxAt /\ e.pending = w.pending
        /\ e.tx = w.tx /\ e.txAt = w.txAt /\ e.sent = w.sent
        /\ e.rxPackets = w.rxPackets /\ e.dropped = w.dropped
        /\ \A x \in Csr0Bit \ {"INTR"} : x \in e.csr0 <=> x \in w.csr0
    BY <2>2, <2>8, SummaryIs
  <2>10. /\ "RINT" \in e.csr0 <=> "RINT" \in w.csr0
         /\ "STOP" \in e.csr0 <=> "STOP" \in w.csr0
         /\ "STRT" \in e.csr0 <=> "STRT" \in w.csr0
         /\ "TXON" \in e.csr0 <=> "TXON" \in w.csr0
    BY <2>9 DEF Csr0Bit, Control, Event
  <2>11. RxOk(e, at, part, last, arr)  BY <2>6, <2>9, RxOkSame
  <2>14. Unread(d, e)
    <3>1. Unread(b, w)  BY <1>8, <2>1, <2>2, <2>3, FillsLeave
    <3> QED  BY <1>8, <2>9, <3>1 DEF Unread
  <2>12. (Waking(d) => Waking(e)) /\ Aside(d, e)
    BY <1>8, <2>2, <2>7, <2>9, <2>10 DEF Waking, Aside
  <2>13. Counted(e) = Counted(d)
    <3>1. w.rxPackets \in Nat /\ w.dropped \in Nat /\ Len(q) \in Nat  BY <1>2, <2>2 DEF Card
    <3>2. Counted(e) = Len(q) + w.rxPackets + w.dropped  BY <1>8, <2>2, <2>9 DEF Counted
    <3>3. Counted(d) = Len(d.pending) + d.rxPackets + d.dropped  BY DEF Counted
    <3>4. w.rxPackets + w.dropped = d.rxPackets + d.dropped + 1  BY <1>8, <2>2
    <3>5. Len(q) = Len(d.pending) - 1 /\ Len(d.pending) \in Nat  BY <1>2
    <3>6. Counted(e) = (Len(d.pending) - 1) + w.rxPackets + w.dropped  BY <3>2, <3>5
    <3> DEFINE p == Len(d.pending)
               x == d.rxPackets
               y == d.dropped
    <3>7. p \in Nat /\ x \in Nat /\ y \in Nat  BY <1>1, <3>5
    <3> HIDE DEF p, x, y
    <3>8. (p - 1) + w.rxPackets + w.dropped = p + x + y
      <4> DEFINE u == w.rxPackets
                 v == w.dropped
      <4>1. u \in Nat /\ v \in Nat  BY <3>1
      <4>2. u + v = x + y + 1  BY <3>4 DEF x, y
      <4> HIDE DEF u, v
      <4>3. (p - 1) + u + v = p + x + y  BY <3>7, <4>1, <4>2, Balance
      <4> QED  BY <4>3 DEF u, v
    <3> QED  BY <3>3, <3>6, <3>8 DEF p, x, y
  <2> QED  BY <1>2, <1>8, <2>2, <2>9, <2>11, <2>12, <2>13, <2>14 DEF e
<1> QED  BY <1>9, <1>10

\* service_receive as a whole.
LEMMA ServiceReceiveKeeps ==
  ASSUME NEW c \in Card, NEW at \in 0 .. RxLen - 1, NEW part \in Seq(Unit),
         NEW last \in Nat, NEW arr \in Nat, RxOk(c, at, part, last, arr)
  PROVE  LET e == ServiceReceive(c) IN
         /\ e \in Card /\ RxOk(e, at, part, last, arr) /\ (Waking(c) => Waking(e))
         /\ Aside(c, e) /\ Counted(e) = Counted(c) /\ Unread(c, e)
<1> DEFINE S == {d \in Card : /\ RxOk(d, at, part, last, arr) /\ (Waking(c) => Waking(d))
                              /\ Aside(c, d) /\ Counted(d) = Counted(c) /\ Unread(c, d)}
<1>1. c \in S  BY DEF Aside, Unread
<1>2. ASSUME NEW d \in S
      PROVE  /\ Len(d.pending) \in Nat
             /\ Len(d.pending) > 0 => /\ TakePending(d) \in S
                                      /\ Len(TakePending(d).pending) = Len(d.pending) - 1
  <2>1. d \in Card /\ d.pending \in Seq(Arrival)  BY DEF Card
  <2>2. ASSUME Len(d.pending) > 0
        PROVE  TakePending(d) \in S /\ Len(TakePending(d).pending) = Len(d.pending) - 1
    <3> DEFINE e == TakePending(d)
    <3>1. /\ e \in Card /\ RxOk(e, at, part, last, arr) /\ (Waking(d) => Waking(e))
          /\ Aside(d, e) /\ Counted(e) = Counted(d)
          /\ Len(e.pending) = Len(d.pending) - 1 /\ Unread(d, e)
      BY <2>1, <2>2, TakePendingKeeps
    <3> HIDE DEF e
    <3>2. Aside(c, e) /\ Unread(c, e)  BY <3>1 DEF Aside, Unread
    <3> QED  BY <3>1, <3>2 DEF e
  <2> QED  BY <2>1, <2>2
<1> HIDE DEF S
<1>3. ServiceReceive(c) \in S  BY <1>1, <1>2, LoopKeeps
<1> QED  BY <1>3 DEF S
-----------------------------------------------------------------------------
(* Sending a frame *)

\* The types of a transmit descriptor.
LEMMA TxTypes ==
  ASSUME NEW c \in Card, NEW j \in 0 .. TxLen - 1
  PROVE  /\ Past(c.txAt, j, TxLen) \in 0 .. TxLen - 1
         /\ Tx(c, j) \in TxDescriptor /\ Tx(c, j).unit \in Unit
         /\ Tx(c, j).unit[1] \in Nat /\ Tx(c, j).unit[2] \in Nat /\ Tx(c, j).unit[3] \in Nat
<1>1. Past(c.txAt, j, TxLen) \in 0 .. TxLen - 1
  <2>1. j \in 0 .. TxLen /\ c.txAt \in 0 .. TxLen - 1  BY Lengths DEF Card
  <2> QED  BY Lengths, <2>1, PastFacts
<1>2. Tx(c, j) \in TxDescriptor  BY <1>1 DEF Tx, Card
<1>3. Tx(c, j).unit \in Unit  BY <1>2 DEF TxDescriptor
<1> QED  BY <1>1, <1>2, <1>3 DEF Unit

\* The device finds what it may send.
LEMMA TransmitRun ==
  ASSUME NEW c \in Card, NEW at, NEW h \in 0 .. TxLen, TxPlaced(c, at, h)
  PROVE  RunLength(c.txAt, TxLen, Owned(c.tx)) = h
<1>1. DOMAIN c.tx = 0 .. TxLen - 1  BY DEF Card
<1>2. ASSUME NEW j \in 0 .. TxLen - 1
      PROVE  Past(c.txAt, j, TxLen) \in Owned(c.tx) <=> j < h
  BY <1>1, TxTypes DEF Owned, TxPlaced, Tx
<1>3. \A j \in 0 .. h - 1 : Past(c.txAt, j, TxLen) \in Owned(c.tx)
  <2>1. \A j \in 0 .. h - 1 : j \in 0 .. TxLen - 1 /\ j < h  BY Lengths
  <2> QED  BY <1>2, <2>1
<1>4. h < TxLen => Past(c.txAt, h, TxLen) \notin Owned(c.tx)
  <2>1. h < TxLen => h \in 0 .. TxLen - 1 /\ ~(h < h)  BY Lengths
  <2> QED  BY <1>2, <2>1
<1> QED  BY Lengths, <1>3, <1>4, RunIs

\* It skips nothing: what it may send begins with the start of a frame.
LEMMA NothingSkipped ==
  ASSUME NEW c \in Card, NEW at, NEW h \in 0 .. TxLen, NEW g, NEW gvn,
         TxPlaced(c, at, h), TxUnits(c, h, g, gvn)
  PROVE  RunLength(c.txAt, TxLen, {i \in Owned(c.tx) : ~c.tx[i].stp}) = 0
<1>0. 0 \in 0 .. TxLen - 1  BY Lengths
<1>1. Past(c.txAt, 0, TxLen) \notin {i \in Owned(c.tx) : ~c.tx[i].stp}
  <2>1. CASE h = 0
    <3>1. ~Tx(c, 0).own  BY <1>0, <2>1 DEF TxPlaced
    <3> QED  BY <3>1 DEF Owned, Tx
  <2>2. CASE h # 0
    <3>1. 0 \in 0 .. h - 1  BY Lengths, <2>2
    <3>2. TxUnit(Tx(c, 0), 0, g, gvn)  BY <3>1 DEF TxUnits
    <3>3. Tx(c, 0).unit[2] \in Nat  BY <1>0, TxTypes
    <3>4. Tx(c, 0).unit[2] = 1  BY <3>2, <3>3 DEF TxUnit
    <3>5. Tx(c, 0).stp  BY <3>2, <3>4 DEF TxUnit
    <3> QED  BY <3>5 DEF Tx
  <2> QED  BY <2>1, <2>2
<1>2. 0 \in 0 .. TxLen /\ \A j \in 0 .. 0 - 1 : FALSE  BY Lengths
<1> DEFINE good == {i \in Owned(c.tx) : ~c.tx[i].stp}
<1> HIDE DEF good
<1>3. Past(c.txAt, 0, TxLen) \notin good  BY <1>1 DEF good
<1>4. RunLength(c.txAt, TxLen, good) = 0  BY Lengths, <1>2, <1>3, RunIs
<1> QED  BY <1>4 DEF good

\* Up to its first ENP, the ring holds one frame, from its first unit on.
LEMMA FirstFrame ==
  ASSUME NEW c \in Card, NEW h \in 0 .. TxLen, NEW g, NEW gvn, TxUnits(c, h, g, gvn),
         NEW e \in 0 .. h - 1, \A i \in 0 .. e - 1 : ~Tx(c, i).enp
  PROVE  /\ Tx(c, e).unit[2] = e + 1
         /\ \A i \in 0 .. e : /\ Tx(c, i).unit[1] = Tx(c, e).unit[1]
                              /\ Tx(c, i).unit[2] = i + 1
<1> DEFINE m == Tx(c, e).unit[2]
<1>0. e \in 0 .. TxLen - 1 /\ e \in Nat /\ h \in Nat  BY Lengths
<1>1. m \in Nat /\ 1 <= m /\ m <= e + 1
  <2>1. TxUnit(Tx(c, e), e, g, gvn)  BY DEF TxUnits
  <2> QED  BY <1>0, <2>1, TxTypes DEF TxUnit
<1>2. \A i \in 0 .. e : TxBefore(Tx(c, i), i, Tx(c, e), e)  BY DEF TxUnits
<1> HIDE DEF m
<1>3. ASSUME m < e + 1  PROVE FALSE
  <2> DEFINE i == (e - m) + 1
  <2>1. i \in 0 .. e /\ e - m < i /\ m - (e - i) = 1 /\ i \in 1 .. h - 1
        /\ i - 1 \in 0 .. e - 1 /\ i \in 0 .. h - 1
    BY <1>0, <1>1, <1>3
  <2> HIDE DEF i
  <2>2. Tx(c, i).unit[2] = 1  BY <1>2, <2>1 DEF TxBefore, m
  <2>3. TxUnit(Tx(c, i), i, g, gvn)  BY <2>1 DEF TxUnits
  <2>4. Tx(c, i).stp  BY <2>2, <2>3 DEF TxUnit
  <2>5. Tx(c, i - 1).enp  BY <2>1, <2>4 DEF TxUnits
  <2> QED  BY <2>1, <2>5
<1>4. m = e + 1  BY <1>0, <1>1, <1>3
<1>5. ASSUME NEW i \in 0 .. e
      PROVE  Tx(c, i).unit[1] = Tx(c, e).unit[1] /\ Tx(c, i).unit[2] = i + 1
  <2>1. e - m < i /\ m - (e - i) = i + 1  BY <1>0, <1>4
  <2> QED  BY <1>2, <2>1 DEF TxBefore, m
<1> QED  BY <1>4, <1>5 DEF m

\* What is left in the ring once its first frame, of e + 1 descriptors, is gone.
LEMMA Departed ==
  ASSUME NEW c \in Card, NEW d \in Card, NEW at, NEW h \in 0 .. TxLen, NEW e \in 0 .. h - 1,
         NEW g \in Nat, NEW gvn \in Nat, NEW bld \in Nat,
         TxPlaced(c, at, h), TxUnits(c, h, g, gvn), TxBuilding(c, h, bld, gvn),
         Tx(c, e).enp, \A i \in 0 .. e - 1 : ~Tx(c, i).enp,
         d.txAt = Past(c.txAt, e + 1, TxLen),
         \A j \in 0 .. TxLen - 1 :
           /\ j <= e => ~d.tx[Past(c.txAt, j, TxLen)].own
           /\ ~(j <= e) => d.tx[Past(c.txAt, j, TxLen)] = Tx(c, j)
  PROVE  TxOk(d, at, bld, gvn, Tx(c, e).unit[1])
<1> DEFINE n == TxLen
           p == c.txAt
           k == e + 1
           r == h - k
           x == Tx(c, e).unit[1]
<1>0. n \in Nat \ {0} /\ p \in 0 .. n - 1 /\ k \in 1 .. n /\ r \in 0 .. n - k /\ h \in Nat
      /\ e \in Nat /\ h <= n /\ h = k + r /\ k = e + 1
  BY Lengths DEF Card
<1>1. x \in Nat
  <2>1. e \in 0 .. TxLen - 1  BY <1>0
  <2> QED  BY <2>1, TxTypes
<1>2. \A j \in 0 .. n : Past(d.txAt, j, n) = IF k + j <= n THEN Past(p, k + j, n)
                                              ELSE Past(p, k + j - n, n)
  <2> SUFFICES ASSUME NEW j \in 0 .. n
               PROVE  Past(d.txAt, j, n) = IF k + j <= n THEN Past(p, k + j, n)
                                           ELSE Past(p, k + j - n, n)
    OBVIOUS
  <2>1. /\ n \in Nat \ {0} /\ p \in 0 .. n - 1 /\ k \in 0 .. n
        /\ d.txAt = Past(p, k, n)
    BY <1>0
  <2> HIDE DEF n, p, k
  <2>2. /\ k + j <= n => Past(Past(p, k, n), j, n) = Past(p, k + j, n)
        /\ ~(k + j <= n) => Past(Past(p, k, n), j, n) = Past(p, k + j - n, n)
    BY <2>1, PastPast
  <2> QED  BY <2>1, <2>2
<1>3. ASSUME NEW j \in 0 .. n - k - 1
      PROVE  Tx(d, j) = Tx(c, k + j) /\ k + j \in 0 .. n - 1
  <2>1. k + j <= n /\ k + j \in 0 .. n - 1 /\ ~(k + j <= e) /\ j \in 0 .. n  BY <1>0
  <2>2. Past(d.txAt, j, n) = Past(p, k + j, n)  BY <1>2, <2>1
  <2>3. d.tx[Past(p, k + j, n)] = Tx(c, k + j)  BY <2>1
  <2> QED  BY <2>1, <2>2, <2>3 DEF Tx
<1>4. ASSUME NEW j \in n - k .. n - 1  PROVE ~Tx(d, j).own
  <2> DEFINE i == k + j - n
  <2>1. i \in 0 .. n - 1 /\ i <= e /\ j \in 0 .. n /\ (k + j <= n => i = 0 /\ k + j = n)
    BY <1>0
  <2>2. Past(d.txAt, j, n) = Past(p, i, n)
    <3>1. Past(p, n, n) = p /\ Past(p, 0, n) = p  
      <4>1. n \in Nat \ {0} /\ p \in 0 .. n - 1  BY <1>0
      <4> HIDE DEF n, p
      <4> QED  BY <4>1, PastRound
    <3> QED  BY <1>2, <2>1, <3>1
  <2>3. ~d.tx[Past(p, i, n)].own  BY <2>1
  <2> QED  BY <2>2, <2>3 DEF Tx
<1>5. TxPlaced(d, at, r)
  <2>1. at = Past(d.txAt, r, n)
    <3>1. at = Past(p, h, n)  BY DEF TxPlaced
    <3>2. k + r <= n /\ k + r = h /\ r \in 0 .. n  BY <1>0
    <3> QED  BY <1>2, <3>1, <3>2
  <2>2. ASSUME NEW j \in 0 .. n - 1  PROVE Tx(d, j).own <=> j < r
    <3>1. CASE j \in 0 .. n - k - 1
      <4>1. Tx(c, k + j).own <=> k + j < h  BY <1>3, <3>1 DEF TxPlaced
      <4> QED  BY <1>0, <1>3, <3>1, <4>1
    <3>2. CASE j \in n - k .. n - 1
      <4>1. ~(j < r)  BY <1>0, <3>2
      <4> QED  BY <1>4, <3>2, <4>1
    <3> QED  BY <1>0, <3>1, <3>2
  <2> QED  BY <2>1, <2>2 DEF TxPlaced
<1>6. \A j \in 0 .. r - 1 : /\ j \in 0 .. n - k - 1 /\ k + j \in 0 .. h - 1
                            /\ Tx(d, j) = Tx(c, k + j) /\ k + j \in 0 .. n - 1
                            /\ j \in Nat
  <2>1. \A j \in 0 .. r - 1 : j \in 0 .. n - k - 1 /\ k + j \in 0 .. h - 1  BY <1>0
  <2> QED  BY <1>3, <2>1
<1> HIDE DEF r
<1>7. ASSUME NEW j \in 0 .. r - 1
      PROVE  TxUnit(Tx(d, j), j, x, gvn)
  <2>1. TxUnit(Tx(c, k + j), k + j, g, gvn)  BY <1>6 DEF TxUnits
  <2>2. TxBefore(Tx(c, e), e, Tx(c, k + j), k + j)
    <3>1. e \in 0 .. k + j  BY <1>0, <1>6
    <3> QED  BY <1>6, <3>1 DEF TxUnits
  <2>3. Tx(c, k + j).unit[2] \in Nat /\ Tx(c, k + j).unit[1] \in Nat  BY <1>6, TxTypes
  <2>4. ~((k + j) - Tx(c, k + j).unit[2] < e) /\ x < Tx(c, k + j).unit[1]
    <3>1. e < k + j  BY <1>0, <1>6
    <3> QED  BY <2>2, <3>1 DEF TxBefore
  <2>5. Tx(c, k + j).unit[2] <= j + 1  BY <1>0, <1>6, <2>3, <2>4
  <2> QED  BY <1>6, <2>1, <2>4, <2>5 DEF TxUnit
<1>8. ASSUME NEW j \in 1 .. r - 1  PROVE Tx(d, j).stp <=> Tx(d, j - 1).enp
  <2>1. j \in 0 .. r - 1 /\ j - 1 \in 0 .. r - 1 /\ k + j \in 1 .. h - 1
        /\ (k + j) - 1 = k + (j - 1)
    BY <1>0 DEF r
  <2>2. Tx(c, k + j).stp <=> Tx(c, (k + j) - 1).enp  BY <2>1 DEF TxUnits
  <2> QED  BY <1>6, <2>1, <2>2
<1>9. ASSUME NEW j \in 0 .. r - 1, NEW i \in 0 .. j
      PROVE  TxBefore(Tx(d, i), i, Tx(d, j), j)
  <2>1. i \in 0 .. r - 1 /\ k + i \in 0 .. k + j /\ k + j \in 0 .. h - 1
    BY <1>0, <1>6 DEF r
  <2>2. TxBefore(Tx(c, k + i), k + i, Tx(c, k + j), k + j)  BY <2>1 DEF TxUnits
  <2> DEFINE m == Tx(c, k + j).unit[2]
  <2>3. m \in Nat  BY <1>6, TxTypes
  <2> HIDE DEF m
  <2>4. /\ (k + j) - m < k + i <=> j - m < i
        /\ m - ((k + j) - (k + i)) = m - (j - i)
        /\ k + i < k + j <=> i < j
    BY <1>0, <2>3 DEF r
  <2> QED  BY <1>6, <2>1, <2>2, <2>4 DEF TxBefore, m
<1>10. TxBuilding(d, r, bld, gvn)
  <2>1. h > 0 /\ h - 1 \in 0 .. n - 1  BY <1>0
  <2>2. CASE r = 0
    <3>1. h - 1 = e  BY <1>0, <2>2 DEF r
    <3>2. bld = 0  BY <2>1, <3>1 DEF TxBuilding
    <3>3. ~(r > 0)  BY <2>2
    <3> QED  BY <3>2, <3>3 DEF TxBuilding
  <2>3. CASE r > 0
    <3>1. r - 1 \in 0 .. r - 1 /\ k + (r - 1) = h - 1 /\ r # 0  BY <1>0, <2>3 DEF r
    <3>2. Tx(d, r - 1) = Tx(c, h - 1)  BY <1>6, <3>1
    <3> QED  BY <2>1, <3>1, <3>2 DEF TxBuilding
  <2> QED  BY <1>0, <2>2, <2>3 DEF r
<1>11. TxUnits(d, r, x, gvn)  BY <1>7, <1>8, <1>9 DEF TxUnits
<1>12. r \in 0 .. TxLen  BY <1>0 DEF r
<1> QED  BY <1>5, <1>10, <1>11, <1>12 DEF TxOk

\* A later frame goes behind those that left.
LEMMA SentAppend ==
  ASSUME NEW w \in Seq(Seq(Unit)), NEW s \in Seq(Seq(Unit)), NEW x \in Seq(Unit), NEW g \in Nat,
         NEW y \in Nat, SentUpTo(w \o s, g), g < y, x # << >>, IsWhole(x), x[1][1] = y
  PROVE  SentUpTo(w \o Append(s, x), y)
<1> DEFINE out == w \o s
           new == w \o Append(s, x)
           n == Len(out)
<1>0. /\ out \in Seq(Seq(Unit)) /\ n \in Nat /\ n = Len(w) + Len(s)
      /\ new \in Seq(Seq(Unit)) /\ Len(new) = n + 1
      /\ \A k \in 1 .. n : out[k] \in Seq(Unit)
  OBVIOUS
<1>1. /\ \A k \in 1 .. n : new[k] = out[k]
      /\ new[n + 1] = x
  OBVIOUS
<1>2. /\ \A k \in 1 .. n : out[k] # << >> /\ IsWhole(out[k]) /\ out[k][1][1] <= g
      /\ \A k, l \in 1 .. n : k < l => out[k][1][1] < out[l][1][1]
  BY DEF SentUpTo
<1>3. \A k \in 1 .. n : out[k][1][1] \in Nat
  <2> SUFFICES ASSUME NEW k \in 1 .. n  PROVE out[k][1][1] \in Nat
    OBVIOUS
  <2>1. out[k] \in Seq(Unit) /\ out[k] # << >>  BY <1>0, <1>2
  <2> DEFINE u == out[k]
  <2>3. u \in Seq(Unit) /\ u # << >>  BY <2>1
  <2> HIDE DEF u
  <2>4. u[1] \in Unit  BY <2>3
  <2>2. out[k][1] \in Unit  BY <2>4 DEF u
  <2> QED  BY <2>2 DEF Unit
<1>7. n \in Nat  BY <1>0
<1> HIDE DEF out, new, n
<1>4. ASSUME NEW k \in 1 .. n + 1
      PROVE  new[k] # << >> /\ IsWhole(new[k]) /\ new[k][1][1] <= y
  <2>1. CASE k = n + 1  BY <1>1, <2>1
  <2>2. CASE k \in 1 .. n
    <3>1. out[k][1][1] <= y  BY <1>2, <1>3, <2>2
    <3> QED  BY <1>1, <1>2, <2>2, <3>1
  <2>3. k = n + 1 \/ k \in 1 .. n  BY <1>7
  <2> QED  BY <2>1, <2>2, <2>3
<1>5. ASSUME NEW k \in 1 .. n + 1, NEW l \in 1 .. n + 1, k < l
      PROVE  new[k][1][1] < new[l][1][1]
  <2>1. k \in 1 .. n  BY <1>0, <1>5
  <2>2. CASE l = n + 1
    <3>1. out[k][1][1] < y  BY <1>2, <1>3, <2>1
    <3> QED  BY <1>1, <2>1, <2>2, <3>1
  <2>3. CASE l \in 1 .. n  BY <1>1, <1>2, <1>5, <2>1, <2>3
  <2> QED  BY <1>0, <2>2, <2>3
<1>6. SentUpTo(new, y)  BY <1>0, <1>4, <1>5 DEF SentUpTo
<1> QED  BY <1>6 DEF new

\* A ring whose first k descriptors the device has handed back.
LEMMA Unloaded ==
  ASSUME NEW c \in Card, NEW k \in 0 .. TxLen
  PROVE  LET gone == [j \in 0 .. k - 1 |->
                        [c.tx[Past(c.txAt, j, TxLen)] EXCEPT !.own = FALSE]]
             ring == Rewrite(c.tx, c.txAt, TxLen, k, gone)
         IN  /\ ring \in [0 .. TxLen - 1 -> TxDescriptor]
             /\ \A j \in 0 .. TxLen - 1 :
                  /\ j < k => ~ring[Past(c.txAt, j, TxLen)].own
                  /\ ~(j < k) => ring[Past(c.txAt, j, TxLen)] = Tx(c, j)
<1> DEFINE gone == [j \in 0 .. k - 1 |-> [c.tx[Past(c.txAt, j, TxLen)] EXCEPT !.own = FALSE]]
           ring == Rewrite(c.tx, c.txAt, TxLen, k, gone)
<1>0. TxLen \in Nat \ {0} /\ c.txAt \in 0 .. TxLen - 1 /\ k \in Nat /\ k <= TxLen
  BY Lengths DEF Card
<1>1. c.tx \in [0 .. TxLen - 1 -> TxDescriptor]  BY DEF Card
<1>2. ASSUME NEW j \in 0 .. k - 1
      PROVE  gone[j] \in TxDescriptor /\ ~gone[j].own
  <2>1. gone[j] = [c.tx[Past(c.txAt, j, TxLen)] EXCEPT !.own = FALSE]  OBVIOUS
  <2>2. j \in 0 .. TxLen - 1  BY <1>0
  <2> DEFINE x == c.tx[Past(c.txAt, j, TxLen)]
  <2>3. x \in TxDescriptor  BY <1>1, <2>2, TxTypes
  <2> HIDE DEF x, gone
  <2>4. gone[j] = [x EXCEPT !.own = FALSE]  BY <2>1 DEF x
  <2>5. [x EXCEPT !.own = FALSE] \in TxDescriptor /\ ~[x EXCEPT !.own = FALSE].own
    BY <2>3 DEF TxDescriptor
  <2> QED  BY <2>4, <2>5
<1> HIDE DEF gone
<1>3. ASSUME NEW j \in 0 .. TxLen - 1
      PROVE  ring[Past(c.txAt, j, TxLen)] = IF j < k THEN gone[j]
                                                     ELSE c.tx[Past(c.txAt, j, TxLen)]
  <2> DEFINE p == c.txAt
             old == c.tx
  <2>1. p \in 0 .. TxLen - 1  BY <1>0
  <2> HIDE DEF p, old
  <2>2. Rewrite(old, p, TxLen, k, gone)[Past(p, j, TxLen)] =
          IF j < k THEN gone[j] ELSE old[Past(p, j, TxLen)]
    BY <1>0, <2>1, RewriteAt
  <2> QED  BY <2>2 DEF p, old
<1>4. ASSUME NEW i \in 0 .. TxLen - 1  PROVE ring[i] \in TxDescriptor
  <2> DEFINE j == Past(i, TxLen - c.txAt, TxLen)
  <2>1. j \in 0 .. TxLen - 1 /\ Past(c.txAt, j, TxLen) = i  BY <1>0, PastFacts
  <2> HIDE DEF j, ring
  <2>2. ring[i] = IF j < k THEN gone[j] ELSE c.tx[i]  BY <1>3, <2>1
  <2>3. j < k => j \in 0 .. k - 1  BY <1>0, <2>1
  <2> QED  BY <1>1, <1>2, <2>2, <2>3
<1>5. ring = [i \in 0 .. TxLen - 1 |-> ring[i]]  BY DEF Rewrite
<1> HIDE DEF ring
<1>6. ring \in [0 .. TxLen - 1 -> TxDescriptor]  BY <1>4, <1>5
<1>7. ASSUME NEW j \in 0 .. TxLen - 1
      PROVE  /\ j < k => ~ring[Past(c.txAt, j, TxLen)].own
             /\ ~(j < k) => ring[Past(c.txAt, j, TxLen)] = Tx(c, j)
  <2>1. j < k => j \in 0 .. k - 1  BY <1>0
  <2> QED  BY <1>2, <1>3, <2>1 DEF Tx
<1> QED  BY <1>6, <1>7 DEF ring, gone

\* The transmit ring and the place in it are all that TxOk is about.
LEMMA TxOkSame ==
  ASSUME NEW d, NEW e, e.tx = d.tx, e.txAt = d.txAt,
         NEW at, NEW bld, NEW gvn, NEW g, TxOk(d, at, bld, gvn, g)
  PROVE  TxOk(e, at, bld, gvn, g)
BY DEF TxOk, TxPlaced, TxUnits, TxBuilding, Tx

\* What left before frame g left before any later one.
LEMMA SentLater ==
  ASSUME NEW out \in Seq(Seq(Unit)), NEW g \in Nat, NEW y \in Nat, g <= y, SentUpTo(out, g)
  PROVE  SentUpTo(out, y)
<1> SUFFICES ASSUME NEW k \in 1 .. Len(out)  PROVE out[k][1][1] <= y
  BY DEF SentUpTo
<1>1. out[k] \in Seq(Unit) /\ out[k] # << >> /\ out[k][1][1] <= g  BY DEF SentUpTo
<1> DEFINE u == out[k]
<1>2. u \in Seq(Unit) /\ u # << >>  BY <1>1
<1> HIDE DEF u
<1>3. u[1] \in Unit  BY <1>2
<1>4. out[k][1][1] \in Nat  BY <1>3 DEF Unit, u
<1> QED  BY <1>1, <1>4

\* The buffers of the first frame, put together, are that frame.
LEMMA FrameIsWhole ==
  ASSUME NEW c \in Card, NEW h \in 0 .. TxLen, NEW g, NEW gvn, TxUnits(c, h, g, gvn),
         NEW e \in 0 .. h - 1, Tx(c, e).enp, \A i \in 0 .. e - 1 : ~Tx(c, i).enp
  PROVE  LET frame == [j \in 1 .. e + 1 |-> Tx(c, j - 1).unit] IN
         /\ frame \in Seq(Unit) /\ frame # << >> /\ IsWhole(frame)
         /\ frame[1][1] = Tx(c, e).unit[1]
<1> DEFINE frame == [j \in 1 .. e + 1 |-> Tx(c, j - 1).unit]
           x == Tx(c, e).unit[1]
<1>0. e \in Nat /\ e + 1 \in Nat /\ \A j \in 1 .. e + 1 : j - 1 \in 0 .. TxLen - 1
  BY Lengths
<1>1. \A j \in 1 .. e + 1 : frame[j] = Tx(c, j - 1).unit /\ frame[j] \in Unit
  BY <1>0, TxTypes
<1>2. frame \in [1 .. e + 1 -> Unit]  BY <1>1
<1>3. \A j \in 1 .. e + 1 : frame[j][1] = x /\ frame[j][2] = j
  <2>1. \A i \in 0 .. e : Tx(c, i).unit[1] = x /\ Tx(c, i).unit[2] = i + 1
    BY FirstFrame
  <2>2. \A j \in 1 .. e + 1 : j - 1 \in 0 .. e /\ (j - 1) + 1 = j  BY <1>0
  <2> HIDE DEF frame, x
  <2> QED  BY <1>1, <2>1, <2>2
<1>4. frame[e + 1][3] = e + 1
  <2>1. TxUnit(Tx(c, e), e, g, gvn)  BY DEF TxUnits
  <2>2. Tx(c, e).unit[3] = Tx(c, e).unit[2]  BY <2>1 DEF TxUnit
  <2>3. e + 1 \in 1 .. e + 1 /\ (e + 1) - 1 = e  BY <1>0
  <2>4. frame[e + 1] = Tx(c, e).unit  BY <1>1, <2>3
  <2> HIDE DEF frame
  <2> QED  BY <1>3, <2>2, <2>3, <2>4
<1> HIDE DEF frame, x
<1>5. frame \in Seq(Unit) /\ Len(frame) = e + 1  BY <1>0, <1>2
<1>6. 1 \in 1 .. e + 1 /\ e + 1 # 0  BY <1>0
<1>7. frame # << >> /\ frame[1][1] = x  BY <1>3, <1>5, <1>6
<1>8. IsWhole(frame)  BY <1>3, <1>4, <1>5, <1>7 DEF IsWhole
<1> QED  BY <1>5, <1>7, <1>8 DEF frame, x

\* Sending may switch the transmitter off; it starts nothing and loses no wakeup.
Stays(c, e) ==
  /\ "STOP" \in e.csr0 <=> "STOP" \in c.csr0
  /\ "STRT" \in e.csr0 <=> "STRT" \in c.csr0
  /\ "TXON" \in e.csr0 => "TXON" \in c.csr0
  /\ Waking(c) => Waking(e)

\* What left the card since it was at frame g, and what it counted on the way.
Sends(c, e, w, at, bld, gvn, g) ==
  \E y \in g .. gvn :
    /\ SentUpTo(w \o e.sent, y)
    /\ Counted(c) <= Counted(e) /\ Counted(e) + g <= Counted(c) + y
    /\ On(e.csr0) => TxOk(e, at, bld, gvn, y)

\* The count is a number.
LEMMA CountedIs ==
  ASSUME NEW c \in Card
  PROVE  Counted(c) \in Nat
<1>1. Len(c.pending) \in Nat /\ c.rxPackets \in Nat /\ c.dropped \in Nat
  <2>1. c.pending \in Seq(Arrival)  BY DEF Card
  <2> QED  BY <2>1 DEF Card
<1> QED  BY <1>1 DEF Counted

\* service_transmit from the start of a frame on: the frame leaves, whole, or it is
\* dropped and the transmitter stops.
LEMMA TransmitFrameKeeps ==
  ASSUME NEW c \in Card, NEW h \in 1 .. TxLen, NEW at, NEW g \in Nat, NEW gvn \in Nat,
         NEW bld \in Nat, g <= gvn, "STRT" \in c.csr0,
         TxPlaced(c, at, h), TxUnits(c, h, g, gvn), TxBuilding(c, h, bld, gvn),
         NEW rat \in 0 .. RxLen - 1, NEW part \in Seq(Unit), NEW top \in Nat, NEW arr \in Nat,
         RxOk(c, rat, part, top, arr),
         NEW w \in Seq(Seq(Unit)), SentUpTo(w \o c.sent, g)
  PROVE  LET e == TransmitFrame(c) IN
         /\ e \in Card /\ RxOk(e, rat, part, top, arr) /\ Stays(c, e)
         /\ Sends(c, e, w, at, bld, gvn, g)
<1> DEFINE run   == RunLength(c.txAt, TxLen, Owned(c.tx))
           Desc(j) == c.tx[Past(c.txAt, j, TxLen)]
           Ends  == {j \in 0 .. run - 1 : Desc(j).enp}
           whole == Ends # {}
           first == CHOOSE j \in Ends : \A i \in Ends : j <= i
           used  == IF whole THEN 1 + first ELSE run
           gone  == [j \in 0 .. used - 1 |-> [Desc(j) EXCEPT !.own = FALSE]]
           next  == Past(c.txAt, used, TxLen)
           last  == Past(c.txAt, used - 1, TxLen)
           frame == [j \in 1 .. used |-> Desc(j - 1).unit]
           runt  == \A j \in 0 .. used - 1 : ~Desc(j).full
           ring  == Rewrite(c.tx, c.txAt, TxLen, used, gone)
           d     == [c EXCEPT !.tx = ring, !.txAt = next, !.csr0 = @ \cup {"TINT"}]
           sending == [d EXCEPT !.sent = Append(@, frame), !.txPackets = @ + 1]
           e == TransmitFrame(c)
<1>1. e = CASE whole /\ ~runt -> ServiceReceive(sending)
            [] whole /\ runt ->
                 [d EXCEPT !.tx[last].err = TRUE, !.csr0 = @ \ {"TXON"}, !.dropped = @ + 1]
            [] ~whole /\ run < TxLen ->
                 [d EXCEPT !.tx[next].err = TRUE, !.csr0 = @ \ {"TXON"}]
            [] ~whole /\ run = TxLen -> [d EXCEPT !.dropped = @ + 1]
  BY DEF TransmitFrame
<1>2. run = h  BY TransmitRun
<1>3. \A j : Desc(j) = Tx(c, j)  BY DEF Tx
<1>4. /\ used \in 1 .. h
      /\ whole => /\ first \in 0 .. h - 1 /\ used = first + 1 /\ Tx(c, first).enp
                  /\ \A i \in 0 .. first - 1 : ~Tx(c, i).enp
      /\ ~whole => \A i \in 0 .. h - 1 : ~Tx(c, i).enp
  <2> HIDE DEF run, first, Desc
  <2>1. CASE whole
    <3>1. Ends \subseteq Nat  OBVIOUS
    <3>2. \E j \in Ends : \A i \in Ends : j <= i
      <4> HIDE DEF Ends
      <4> QED  BY <2>1, <3>1, Smallest
    <3>3. first \in Ends /\ \A i \in Ends : first <= i  BY <3>2 DEF first
    <3>4. first \in 0 .. h - 1 /\ Tx(c, first).enp  BY <1>2, <1>3, <3>3
    <3>5. ASSUME NEW i \in 0 .. first - 1, Tx(c, i).enp  PROVE FALSE
      <4>1. i \in Ends /\ ~(first <= i)  BY <1>2, <1>3, <3>4, <3>5
      <4> QED  BY <3>3, <4>1
    <3>6. used = first + 1  BY <2>1, <3>4 DEF used
    <3> HIDE DEF used, Ends
    <3>7. used \in 1 .. h  BY <3>4, <3>6
    <3> QED  BY <2>1, <3>4, <3>5, <3>6, <3>7
  <2>2. CASE ~whole
    <3>1. \A i \in 0 .. h - 1 : ~Tx(c, i).enp  BY <1>2, <1>3, <2>2
    <3> QED  BY <1>2, <2>2, <3>1
  <2> QED  BY <2>1, <2>2
<1>5. /\ ring \in [0 .. TxLen - 1 -> TxDescriptor]
      /\ \A j \in 0 .. TxLen - 1 :
           /\ j < used => ~ring[Past(c.txAt, j, TxLen)].own
           /\ ~(j < used) => ring[Past(c.txAt, j, TxLen)] = Tx(c, j)
  <2> HIDE DEF used
  <2>1. used \in 0 .. TxLen  BY <1>4, Lengths
  <2> QED  BY <2>1, Unloaded
<1>6. next \in 0 .. TxLen - 1 /\ last \in 0 .. TxLen - 1
  <2>1. c.txAt \in 0 .. TxLen - 1 /\ TxLen \in Nat \ {0}  BY Lengths DEF Card
  <2> HIDE DEF used
  <2>2. used \in 0 .. TxLen /\ used - 1 \in 0 .. TxLen  BY <1>4, <2>1
  <2> QED  BY <2>1, <2>2, PastFacts
<1>7. frame = [j \in 1 .. used |-> Tx(c, j - 1).unit]  BY <1>3
<1> HIDE DEF run, Desc, Ends, first, used, gone, next, last, frame, runt, ring, e
<1>8. /\ c.csr0 \subseteq Csr0Bit /\ c.sent \in Seq(Seq(Unit)) /\ c.pending \in Seq(Arrival)
      /\ c.rxPackets \in Nat /\ c.txPackets \in Nat /\ c.dropped \in Nat
      /\ "TINT" \in Csr0Bit
  BY DEF Card, Csr0Bit, Event
<1> DEFINE s == c.csr0 \cup {"TINT"}
<1>9. s \subseteq Csr0Bit  BY <1>8
<1>10. \A b \in {"STOP", "STRT", "TXON", "RINT"} : b \in s <=> b \in c.csr0  OBVIOUS
<1>11. d = [c EXCEPT !.tx = ring, !.txAt = next, !.csr0 = s]  OBVIOUS
<1> HIDE DEF s, d, whole
<1>12. /\ d \in Card /\ d.tx = ring /\ d.txAt = next /\ d.csr0 = s
       /\ d.rx = c.rx /\ d.rxAt = c.rxAt /\ d.pending = c.pending /\ d.sent = c.sent
       /\ d.rxPackets = c.rxPackets /\ d.txPackets = c.txPackets /\ d.dropped = c.dropped
  <2>1. d \in Card  BY <1>5, <1>6, <1>9, <1>11 DEF Card
  <2> QED  BY <1>11, <2>1 DEF Card
<1>13. ASSUME whole
       PROVE  LET x == Tx(c, first).unit[1] IN
              /\ x \in g .. gvn /\ g < x
              /\ frame \in Seq(Unit) /\ frame # << >> /\ IsWhole(frame) /\ frame[1][1] = x
              /\ TxOk(d, at, bld, gvn, x)
  <2>1. /\ first \in 0 .. h - 1 /\ used = first + 1 /\ Tx(c, first).enp
        /\ \A i \in 0 .. first - 1 : ~Tx(c, i).enp
        /\ h \in 0 .. TxLen /\ first \in 0 .. TxLen - 1
    BY <1>4, <1>13, Lengths
  <2>2. TxUnit(Tx(c, first), first, g, gvn)  BY <2>1 DEF TxUnits
  <2>3. Tx(c, first).unit[1] \in Nat  BY <2>1, TxTypes
  <2>4. Tx(c, first).unit[1] \in g .. gvn /\ g < Tx(c, first).unit[1]
    BY <2>2, <2>3 DEF TxUnit
  <2>5. frame = [j \in 1 .. first + 1 |-> Tx(c, j - 1).unit]  BY <1>7, <2>1
  <2>6. /\ frame \in Seq(Unit) /\ frame # << >> /\ IsWhole(frame)
        /\ frame[1][1] = Tx(c, first).unit[1]
    BY <2>1, <2>5, FrameIsWhole
  <2>7. \A j \in 0 .. TxLen - 1 :
          /\ j <= first => ~d.tx[Past(c.txAt, j, TxLen)].own
          /\ ~(j <= first) => d.tx[Past(c.txAt, j, TxLen)] = Tx(c, j)
    <3>1. \A j \in 0 .. TxLen - 1 : j <= first <=> j < used  BY <2>1
    <3> QED  BY <1>5, <1>12, <3>1
  <2>8. d.txAt = Past(c.txAt, first + 1, TxLen)
    <3>1. d.txAt = Past(c.txAt, used, TxLen)  BY <1>12 DEF next
    <3> QED  BY <2>1, <3>1
  <2>9. TxOk(d, at, bld, gvn, Tx(c, first).unit[1])
    BY <1>12, <2>1, <2>7, <2>8, Departed
  <2> QED  BY <2>4, <2>6, <2>9
<1>14. Counted(c) \in Nat /\ Counted(d) = Counted(c)
  BY <1>12, CountedIs DEF Counted
<1>15. CASE whole /\ ~runt
  <2> DEFINE x == Tx(c, first).unit[1]
             out == Append(c.sent, frame)
             m == c.txPackets + 1
  <2>1. e = ServiceReceive(sending)  BY <1>1, <1>15
  <2>2. sending = [d EXCEPT !.sent = out, !.txPackets = m]  BY <1>12
  <2>3. out \in Seq(Seq(Unit)) /\ m \in Nat  BY <1>8, <1>13, <1>15
  <2> HIDE DEF sending, m
  <2>4. sending \in Card /\ sending.tx = d.tx /\ sending.txAt = d.txAt /\ sending.sent = out
        /\ sending.csr0 = d.csr0 /\ sending.rx = d.rx /\ sending.rxAt = d.rxAt
        /\ sending.pending = d.pending /\ sending.rxPackets = d.rxPackets
        /\ sending.dropped = d.dropped
    <3> HIDE DEF out
    <3>1. sending \in Card  BY <1>12, <2>2, <2>3 DEF Card
    <3> QED  BY <1>12, <2>2, <3>1 DEF Card
  <2>5. RxOk(sending, rat, part, top, arr)  BY <1>12, <2>4, RxOkSame
  <2>6. /\ e \in Card /\ RxOk(e, rat, part, top, arr) /\ (Waking(sending) => Waking(e))
        /\ Aside(sending, e) /\ Counted(e) = Counted(sending)
    BY <2>1, <2>4, <2>5, ServiceReceiveKeeps
  <2>7. Counted(e) = Counted(c)  BY <1>14, <2>4, <2>6 DEF Counted
  <2>8. Stays(c, e)
    <3>1. Waking(c) => Waking(sending)  BY <1>10, <1>12, <2>4 DEF Waking
    <3> QED  BY <1>10, <1>12, <2>4, <2>6, <3>1 DEF Stays, Aside
  <2>9. TxOk(e, at, bld, gvn, x)
    <3>1. e.tx = d.tx /\ e.txAt = d.txAt  BY <2>4, <2>6 DEF Aside
    <3> QED  BY <1>13, <1>15, <3>1, TxOkSame
  <2>10. SentUpTo(w \o e.sent, x)
    <3>1. e.sent = out  BY <2>4, <2>6 DEF Aside
    <3> HIDE DEF x
    <3>2. x \in Nat /\ g < x /\ frame \in Seq(Unit) /\ frame # << >> /\ IsWhole(frame)
          /\ frame[1][1] = x
      BY <1>13, <1>15 DEF x
    <3> QED  BY <1>8, <3>1, <3>2, SentAppend
  <2>11. x \in g .. gvn /\ Counted(e) + g <= Counted(c) + x
    <3>1. x \in g .. gvn  BY <1>13, <1>15
    <3> HIDE DEF x
    <3> QED  BY <1>14, <2>7, <3>1
  <2>12. Sends(c, e, w, at, bld, gvn, g)
    <3> HIDE DEF x
    <3> QED  BY <1>14, <2>7, <2>9, <2>10, <2>11 DEF Sends
  <2> QED  BY <2>6, <2>8, <2>12 DEF e
<1>16. CASE whole /\ runt
  <2> DEFINE x == Tx(c, first).unit[1]
             broken == [ring EXCEPT ![last].err = TRUE]
             t == s \ {"TXON"}
             m == c.dropped + 1
  <2>1. e = [d EXCEPT !.tx[last].err = TRUE, !.csr0 = @ \ {"TXON"}, !.dropped = @ + 1]
    BY <1>1, <1>16
  <2>2. e = [d EXCEPT !.tx = broken, !.csr0 = t, !.dropped = m]  BY <1>12, <2>1
  <2>3. broken \in [0 .. TxLen - 1 -> TxDescriptor]  BY <1>5, <1>6 DEF TxDescriptor
  <2>4. t \subseteq Csr0Bit /\ m \in Nat  BY <1>8, <1>9
  <2>5. /\ "TXON" \notin t
        /\ \A b \in {"STOP", "STRT", "RINT"} : b \in t <=> b \in c.csr0
    BY <1>10
  <2> HIDE DEF broken, t, m, x
  <2>6. /\ e \in Card /\ e.csr0 = t /\ e.rx = c.rx /\ e.rxAt = c.rxAt
        /\ e.pending = c.pending /\ e.sent = c.sent /\ e.rxPackets = c.rxPackets
        /\ e.dropped = m
    <3>1. e \in Card  BY <1>12, <2>2, <2>3, <2>4 DEF Card
    <3> QED  BY <1>12, <2>2, <3>1 DEF Card
  <2>7. RxOk(e, rat, part, top, arr)  BY <2>6, RxOkSame
  <2>8. Stays(c, e)  BY <2>5, <2>6 DEF Stays, Waking
  <2>9. Counted(e) = Counted(c) + 1
    <3>1. Len(c.pending) \in Nat  BY <1>8
    <3> DEFINE p == Len(c.pending)
               u == c.rxPackets
               v == c.dropped
    <3>2. p \in Nat /\ u \in Nat /\ v \in Nat  BY <1>8, <3>1
    <3>3. Counted(c) = p + u + v /\ Counted(e) = p + u + (v + 1)
      BY <2>6 DEF Counted, m
    <3> HIDE DEF p, u, v
    <3> QED  BY <3>2, <3>3
  <2>10. x \in g .. gvn /\ g < x  BY <1>13, <1>16 DEF x
  <2>11. SentUpTo(w \o e.sent, x)
    <3>1. x \in Nat /\ g <= x /\ w \o c.sent \in Seq(Seq(Unit))  BY <1>8, <2>10
    <3> DEFINE u == w \o c.sent
    <3>2. u \in Seq(Seq(Unit)) /\ SentUpTo(u, g)  BY <3>1
    <3> HIDE DEF u
    <3>3. SentUpTo(u, x)  BY <3>1, <3>2, SentLater
    <3> QED  BY <2>6, <3>3 DEF u
  <2>12. Counted(c) <= Counted(e) /\ Counted(e) + g <= Counted(c) + x
    BY <1>14, <2>9, <2>10
  <2>13. Sends(c, e, w, at, bld, gvn, g)  BY <2>5, <2>6, <2>10, <2>11, <2>12 DEF Sends, On
  <2> QED  BY <2>6, <2>7, <2>8, <2>13 DEF e
<1>17. CASE ~whole /\ run < TxLen
  <2> DEFINE broken == [ring EXCEPT ![next].err = TRUE]
             t == s \ {"TXON"}
  <2>0. run # TxLen  BY <1>2, <1>17, Lengths
  <2>1. e = [d EXCEPT !.tx[next].err = TRUE, !.csr0 = @ \ {"TXON"}]
    BY <1>1, <1>17, <2>0
  <2>2. e = [d EXCEPT !.tx = broken, !.csr0 = t]  BY <1>12, <2>1
  <2>3. broken \in [0 .. TxLen - 1 -> TxDescriptor]  BY <1>5, <1>6 DEF TxDescriptor
  <2>4. t \subseteq Csr0Bit  BY <1>9
  <2>5. /\ "TXON" \notin t
        /\ \A b \in {"STOP", "STRT", "RINT"} : b \in t <=> b \in c.csr0
    BY <1>10
  <2> HIDE DEF broken, t
  <2>6. /\ e \in Card /\ e.csr0 = t /\ e.rx = c.rx /\ e.rxAt = c.rxAt
        /\ e.pending = c.pending /\ e.sent = c.sent /\ e.rxPackets = c.rxPackets
        /\ e.dropped = c.dropped
    <3>1. e \in Card  BY <1>12, <2>2, <2>3, <2>4 DEF Card
    <3> QED  BY <1>12, <2>2, <3>1 DEF Card
  <2>7. RxOk(e, rat, part, top, arr)  BY <2>6, RxOkSame
  <2>8. Stays(c, e)  BY <2>5, <2>6 DEF Stays, Waking
  <2>9. Counted(e) = Counted(c)  BY <2>6 DEF Counted
  <2>10. g \in g .. gvn /\ Counted(c) <= Counted(e) /\ Counted(e) + g <= Counted(c) + g
    BY <1>14, <2>9
  <2>11. Sends(c, e, w, at, bld, gvn, g)  BY <2>5, <2>6, <2>10 DEF Sends, On
  <2> QED  BY <2>6, <2>7, <2>8, <2>11 DEF e
<1>18. ASSUME ~whole, ~(run < TxLen)  PROVE FALSE
  <2>1. h = TxLen /\ TxLen \in Nat \ {0}  BY <1>2, <1>18, Lengths
  <2>2. TxLen - 1 \in 0 .. h - 1 /\ (TxLen - 1) + 1 = TxLen /\ h \in 0 .. TxLen  BY <2>1
  <2>3. \A i \in 0 .. h - 1 : ~Tx(c, i).enp  BY <1>4, <1>18
  <2>4. \A i \in 0 .. (TxLen - 1) - 1 : ~Tx(c, i).enp  BY <2>1, <2>3
  <2>5. Tx(c, TxLen - 1).unit[2] = TxLen  BY <2>2, <2>4, FirstFrame
  <2>6. TxUnit(Tx(c, TxLen - 1), TxLen - 1, g, gvn)  BY <2>2 DEF TxUnits
  <2> QED  BY <2>2, <2>3, <2>5, <2>6 DEF TxUnit
<1> QED  BY <1>15, <1>16, <1>17, <1>18

\* The receiver's work after the transmitter's, and the interrupt summary, change nothing of
\* what the transmitter did.
LEMMA Carried ==
  ASSUME NEW c, NEW d, NEW e, NEW w, NEW at, NEW bld, NEW gvn, NEW g,
         Stays(c, d), Sends(c, d, w, at, bld, gvn, g),
         Aside(d, e), Counted(e) = Counted(d), Waking(d) => Waking(e)
  PROVE  Stays(c, e) /\ Sends(c, e, w, at, bld, gvn, g)
<1>1. Stays(c, e)  BY DEF Stays, Aside
<1>2. PICK y \in g .. gvn :
        /\ SentUpTo(w \o d.sent, y)
        /\ Counted(c) <= Counted(d) /\ Counted(d) + g <= Counted(c) + y
        /\ On(d.csr0) => TxOk(d, at, bld, gvn, y)
  BY DEF Sends
<1>3. e.sent = d.sent /\ e.tx = d.tx /\ e.txAt = d.txAt /\ (On(e.csr0) => On(d.csr0))
  BY DEF Aside, On
<1>4. On(e.csr0) => TxOk(e, at, bld, gvn, y)  BY <1>2, <1>3, TxOkSame
<1>5. Sends(c, e, w, at, bld, gvn, g)  BY <1>2, <1>3, <1>4 DEF Sends
<1> QED  BY <1>1, <1>5

\* A card that changes in neither transmit ring nor queue sends nothing.
LEMMA SendsNothing ==
  ASSUME NEW c \in Card, NEW w, NEW at, NEW bld, NEW gvn \in Nat, NEW g \in Nat, g <= gvn,
         SentUpTo(w \o c.sent, g), On(c.csr0) => TxOk(c, at, bld, gvn, g)
  PROVE  Stays(c, c) /\ Sends(c, c, w, at, bld, gvn, g)
<1>1. g \in g .. gvn /\ Counted(c) <= Counted(c) /\ Counted(c) + g <= Counted(c) + g
  BY CountedIs
<1> QED  BY <1>1 DEF Stays, Sends

\* service_transmit as a whole.
LEMMA ServiceTransmitKeeps ==
  ASSUME NEW c \in Card, NEW at, NEW g \in Nat, NEW gvn \in Nat, NEW bld \in Nat, g <= gvn,
         "STRT" \in c.csr0, On(c.csr0) => TxOk(c, at, bld, gvn, g),
         NEW rat \in 0 .. RxLen - 1, NEW part \in Seq(Unit), NEW top \in Nat, NEW arr \in Nat,
         RxOk(c, rat, part, top, arr),
         NEW w \in Seq(Seq(Unit)), SentUpTo(w \o c.sent, g)
  PROVE  LET e == ServiceTransmit(c) IN
         /\ e \in Card /\ RxOk(e, rat, part, top, arr) /\ Stays(c, e)
         /\ Sends(c, e, w, at, bld, gvn, g)
<1> DEFINE skipped == RunLength(c.txAt, TxLen, {i \in Owned(c.tx) : ~c.tx[i].stp})
           d == [c EXCEPT !.txAt = Past(@, skipped, TxLen)]
           e == ServiceTransmit(c)
<1>1. e = IF {"TDMD", "TXON"} \subseteq c.csr0
          THEN IF skipped < TxLen /\ d.tx[d.txAt].own THEN TransmitFrame(d) ELSE d
          ELSE c
  BY DEF ServiceTransmit
<1>2. Stays(c, c) /\ Sends(c, c, w, at, bld, gvn, g)  BY SendsNothing
<1> HIDE DEF e
<1>3. CASE ~({"TDMD", "TXON"} \subseteq c.csr0)
  <2>1. e = c  BY <1>1, <1>3
  <2> QED  BY <1>2, <2>1 DEF e
<1>4. CASE {"TDMD", "TXON"} \subseteq c.csr0
  <2>1. PICK h \in 0 .. TxLen : TxPlaced(c, at, h) /\ TxUnits(c, h, g, gvn)
                                /\ TxBuilding(c, h, bld, gvn)
    BY <1>4 DEF On, TxOk
  <2>2. skipped = 0  BY <2>1, NothingSkipped
  <2> HIDE DEF skipped
  <2>3. c.txAt \in 0 .. TxLen - 1 /\ Past(c.txAt, 0, TxLen) = c.txAt
    <3> DEFINE p == c.txAt
    <3>1. p \in 0 .. TxLen - 1  BY DEF Card
    <3> HIDE DEF p
    <3>2. Past(p, 0, TxLen) = p  BY <3>1, Lengths, PastRound
    <3> QED  BY <3>1, <3>2 DEF p
  <2>4. d = c
    <3>1. d = [c EXCEPT !.txAt = c.txAt]  BY <2>2, <2>3
    <3> HIDE DEF d
    <3> QED  BY <3>1 DEF Card
  <2>5. e = IF c.tx[c.txAt].own THEN TransmitFrame(c) ELSE c
    <3>1. 0 < TxLen  BY Lengths
    <3> HIDE DEF d
    <3> QED  BY <1>1, <1>4, <2>2, <2>4, <3>1
  <2>6. c.tx[c.txAt].own <=> 0 < h
    <3>1. Tx(c, 0) = c.tx[c.txAt]  BY <2>3 DEF Tx
    <3>2. 0 \in 0 .. TxLen - 1  BY Lengths
    <3>3. Tx(c, 0).own <=> 0 < h  BY <2>1, <3>2 DEF TxPlaced
    <3> QED  BY <3>1, <3>3
  <2>7. CASE ~(0 < h)
    <3>1. e = c  BY <2>5, <2>6, <2>7
    <3> QED  BY <1>2, <3>1 DEF e
  <2>8. CASE 0 < h
    <3>1. e = TransmitFrame(c) /\ h \in 1 .. TxLen  BY <2>5, <2>6, <2>8
    <3>2. LET x == TransmitFrame(c) IN
          /\ x \in Card /\ RxOk(x, rat, part, top, arr) /\ Stays(c, x)
          /\ Sends(c, x, w, at, bld, gvn, g)
      BY <2>1, <3>1, TransmitFrameKeeps
    <3> QED  BY <3>1, <3>2 DEF e
  <2> QED  BY <2>7, <2>8
<1> QED  BY <1>3, <1>4

\* The last part of write_csr0: both rings are served, and the demand is over.
LEMMA ServedKeeps ==
  ASSUME NEW c \in Card, NEW at, NEW g \in Nat, NEW gvn \in Nat, NEW bld \in Nat, g <= gvn,
         On(c.csr0) => TxOk(c, at, bld, gvn, g),
         NEW rat \in 0 .. RxLen - 1, NEW part \in Seq(Unit), NEW top \in Nat, NEW arr \in Nat,
         RxOk(c, rat, part, top, arr),
         NEW w \in Seq(Seq(Unit)), SentUpTo(w \o c.sent, g)
  PROVE  LET e == EndDemand(Serve(c)) IN
         /\ e \in Card /\ RxOk(e, rat, part, top, arr) /\ Stays(c, e)
         /\ Sends(c, e, w, at, bld, gvn, g)
<1> DEFINE d == Serve(c)
           b == [d EXCEPT !.csr0 = @ \ {"TDMD"}]
           e == EndDemand(d)
<1>1. /\ d \in Card /\ RxOk(d, rat, part, top, arr) /\ Stays(c, d)
      /\ Sends(c, d, w, at, bld, gvn, g)
  <2>1. CASE c.initialized /\ "STRT" \in c.csr0
    <3> DEFINE x == ServiceTransmit(c)
               y == ServiceReceive(x)
    <3>1. d = y  BY <2>1 DEF Serve
    <3>2. /\ x \in Card /\ RxOk(x, rat, part, top, arr) /\ Stays(c, x)
          /\ Sends(c, x, w, at, bld, gvn, g)
      BY <2>1, ServiceTransmitKeeps
    <3> HIDE DEF x
    <3>3. /\ y \in Card /\ RxOk(y, rat, part, top, arr) /\ (Waking(x) => Waking(y))
          /\ Aside(x, y) /\ Counted(y) = Counted(x)
      BY <3>2, ServiceReceiveKeeps
    <3> HIDE DEF y, d
    <3>4. Stays(c, y) /\ Sends(c, y, w, at, bld, gvn, g)  BY <3>2, <3>3, Carried
    <3> QED  BY <3>1, <3>3, <3>4
  <2>2. CASE ~(c.initialized /\ "STRT" \in c.csr0)
    <3>1. d = c  BY <2>2 DEF Serve
    <3>2. Stays(c, c) /\ Sends(c, c, w, at, bld, gvn, g)  BY SendsNothing
    <3> HIDE DEF d
    <3> QED  BY <3>1, <3>2
  <2> QED  BY <2>1, <2>2
<1>2. e = Summary(b)  BY DEF EndDemand
<1> HIDE DEF d
<1>3. /\ b \in Card /\ b.csr0 = d.csr0 \ {"TDMD"}
      /\ b.rx = d.rx /\ b.rxAt = d.rxAt /\ b.pending = d.pending
      /\ b.tx = d.tx /\ b.txAt = d.txAt /\ b.sent = d.sent
      /\ b.rxPackets = d.rxPackets /\ b.dropped = d.dropped
  <2> DEFINE s == d.csr0 \ {"TDMD"}
  <2>1. b = [d EXCEPT !.csr0 = s]  OBVIOUS
  <2>2. s \subseteq Csr0Bit  BY <1>1 DEF Card
  <2> HIDE DEF s, b
  <2>3. b \in Card  BY <1>1, <2>1, <2>2 DEF Card
  <2>4. /\ b.csr0 = s
        /\ b.rx = d.rx /\ b.rxAt = d.rxAt /\ b.pending = d.pending
        /\ b.tx = d.tx /\ b.txAt = d.txAt /\ b.sent = d.sent
        /\ b.rxPackets = d.rxPackets /\ b.dropped = d.dropped
    BY <1>1, <2>1 DEF Card
  <2> QED  BY <2>3, <2>4 DEF s
<1> HIDE DEF b, e
<1>4. /\ e \in Card
      /\ e.rx = b.rx /\ e.rxAt = b.rxAt /\ e.pending = b.pending
      /\ e.tx = b.tx /\ e.txAt = b.txAt /\ e.sent = b.sent
      /\ e.rxPackets = b.rxPackets /\ e.dropped = b.dropped
      /\ \A x \in Csr0Bit \ {"INTR"} : x \in e.csr0 <=> x \in b.csr0
  BY <1>2, <1>3, SummaryIs
<1>5. \A x \in {"STOP", "STRT", "TXON", "RINT"} :
        /\ x \in Csr0Bit \ {"INTR"}
        /\ x \in e.csr0 <=> x \in d.csr0
  <2>1. \A x \in {"STOP", "STRT", "TXON", "RINT"} : x \in Csr0Bit \ {"INTR"} /\ x # "TDMD"
    BY DEF Csr0Bit, Control, Event
  <2> QED  BY <1>3, <1>4, <2>1
<1>6. Aside(d, e) /\ Counted(e) = Counted(d) /\ (Waking(d) => Waking(e))
  BY <1>3, <1>4, <1>5 DEF Aside, Counted, Waking
<1>7. RxOk(e, rat, part, top, arr)
  <2>1. e.rx = d.rx /\ e.rxAt = d.rxAt /\ e.pending = d.pending  BY <1>3, <1>4
  <2> QED  BY <1>1, <2>1, RxOkSame
<1>8. Stays(c, e) /\ Sends(c, e, w, at, bld, gvn, g)  BY <1>1, <1>6, Carried
<1> QED  BY <1>4, <1>7, <1>8 DEF e, d
-----------------------------------------------------------------------------
(* Writing CSR0 *)

\* The names of the bits.
LEMMA Bits ==
  /\ \A b \in {"STOP", "STRT", "TXON", "RINT", "INEA", "TDMD", "INIT", "RXON", "IDON", "INTR"} :
       b \in Csr0Bit
  /\ \A b \in {"STOP", "STRT", "INIT", "TDMD", "INEA"} : b \in Control /\ b \notin Event
  /\ \A b \in {"TXON", "RXON", "INTR"} : b \notin Control /\ b \notin Event
  /\ "RINT" \in Event /\ "RINT" \notin Control
  /\ Control \subseteq Csr0Bit /\ Event \subseteq Csr0Bit
BY DEF Csr0Bit, Control, Event

\* The card with other bits in CSR0.
LEMMA WithBits ==
  ASSUME NEW c \in Card, NEW s, s \subseteq Csr0Bit
  PROVE  LET e == [c EXCEPT !.csr0 = s] IN
         /\ e \in Card /\ e.csr0 = s /\ e.initialized = c.initialized
         /\ e.rx = c.rx /\ e.rxAt = c.rxAt /\ e.pending = c.pending
         /\ e.tx = c.tx /\ e.txAt = c.txAt /\ e.sent = c.sent
         /\ e.rxPackets = c.rxPackets /\ e.dropped = c.dropped
BY DEF Card

\* What a write leaves of each bit, before the commands act.
LEMMA MergeIs ==
  ASSUME NEW prev, prev \subseteq Csr0Bit, NEW value, value \subseteq Csr0Bit
  PROVE  LET csr == Merge(prev, value) IN
         /\ csr \subseteq Csr0Bit
         /\ \A b \in {"STOP", "STRT", "INIT", "TDMD"} : b \in csr <=> b \in prev \/ b \in value
         /\ "TXON" \in csr <=> "TXON" \in prev
         /\ "RINT" \notin value => ("RINT" \in csr <=> "RINT" \in prev)
BY Bits DEF Merge

\* Writing neither STOP nor STRT nor INIT: both rings are served.
LEMMA WriteServes ==
  ASSUME NEW c \in Card, NEW value, value \subseteq Csr0Bit,
         value \cap {"STOP", "STRT", "INIT"} = {}
  PROVE  WriteCsr0(c, value) = EndDemand(Serve([c EXCEPT !.csr0 = Merge(c.csr0, value)]))
<1> DEFINE prev == c.csr0
           csr == Merge(prev, value)
<1>1. prev \subseteq Csr0Bit  BY DEF Card
<1>2. \A b \in {"STOP", "STRT", "INIT"} : b \in csr => b \in prev
  <2> HIDE DEF prev
  <2>1. \A b \in {"STOP", "STRT", "INIT", "TDMD"} : b \in csr <=> b \in prev \/ b \in value
    BY <1>1, MergeIs
  <2> HIDE DEF csr
  <2> QED  BY <2>1
<1> HIDE DEF csr
<1> QED  BY <1>2 DEF WriteCsr0, csr

\* STOP clears the whole register and nothing else.
LEMMA WriteStops ==
  ASSUME NEW c \in Card, "STOP" \notin c.csr0
  PROVE  WriteCsr0(c, {"STOP"}) = [c EXCEPT !.csr0 = {"STOP"}]
<1> DEFINE prev == c.csr0
           csr == Merge(prev, {"STOP"})
           d == [c EXCEPT !.csr0 = csr]
           m == [d EXCEPT !.csr0 = {"STOP"}]
<1>1. "STOP" \in csr /\ "STOP" \notin prev  BY Bits DEF Merge
<1>2. WriteCsr0(c, {"STOP"}) = EndDemand(Serve(m))
  <2> HIDE DEF csr
  <2> QED  BY <1>1 DEF WriteCsr0, csr
<1>3. m = [c EXCEPT !.csr0 = {"STOP"}]  BY DEF Card
<1> HIDE DEF m
<1>4. m \in Card /\ m.csr0 = {"STOP"}
  <2>1. {"STOP"} \subseteq Csr0Bit  BY Bits
  <2> QED  BY <1>3, <2>1, WithBits
<1>5. Serve(m) = m  BY <1>4 DEF Serve
<1>6. EndDemand(m) = m
  <2> DEFINE b == [m EXCEPT !.csr0 = @ \ {"TDMD"}]
  <2>1. b = m  
    <3>1. m.csr0 \ {"TDMD"} = m.csr0  BY <1>4
    <3>2. b = [m EXCEPT !.csr0 = m.csr0]  BY <3>1
    <3> HIDE DEF b
    <3> QED  BY <1>4, <3>2 DEF Card
  <2>2. EndDemand(m) = Summary(m)
    <3> HIDE DEF b
    <3>1. EndDemand(m) = Summary(b)  BY DEF EndDemand, b
    <3> QED  BY <2>1, <3>1
  <2>3. Summary(m) = [m EXCEPT !.csr0 = m.csr0]
    <3>1. m.csr0 \ {"INTR"} = m.csr0 /\ "INEA" \notin m.csr0  BY <1>4
    <3> QED  BY <3>1 DEF Summary
  <2> QED  BY <1>4, <2>2, <2>3 DEF Card
<1> QED  BY <1>2, <1>3, <1>5, <1>6

\* INIT puts the device at the start of both rings.
LEMMA InitializeIs ==
  ASSUME NEW c \in Card
  PROVE  LET e == Initialize(c) IN
         /\ e \in Card /\ e.csr0 = c.csr0 \cup {"IDON"}
         /\ e.rx = c.rx /\ e.rxAt = 0 /\ e.pending = c.pending
         /\ e.tx = c.tx /\ e.txAt = 0 /\ e.sent = c.sent
         /\ e.rxPackets = c.rxPackets /\ e.dropped = c.dropped
<1> DEFINE s == c.csr0 \cup {"IDON"}
           e == Initialize(c)
<1>1. s \subseteq Csr0Bit /\ 0 \in 0 .. RxLen - 1 /\ 0 \in 0 .. TxLen - 1
  <2>1. c.csr0 \subseteq Csr0Bit  BY DEF Card
  <2>2. 0 \in 0 .. RxLen - 1 /\ 0 \in 0 .. TxLen - 1  BY Lengths
  <2> QED  BY <2>1, <2>2, Bits
<1>2. e = [c EXCEPT !.initialized = TRUE, !.rxAt = 0, !.txAt = 0, !.csr0 = s]
  BY DEF Initialize
<1> HIDE DEF s, e
<1>3. e \in Card  BY <1>1, <1>2 DEF Card
<1>4. /\ e.csr0 = s
      /\ e.rx = c.rx /\ e.rxAt = 0 /\ e.pending = c.pending
      /\ e.tx = c.tx /\ e.txAt = 0 /\ e.sent = c.sent
      /\ e.rxPackets = c.rxPackets /\ e.dropped = c.dropped
  BY <1>1, <1>2 DEF Card
<1> QED  BY <1>3, <1>4 DEF s, e

\* The card m that a command leaves to be served: the rings are untouched, and it is started
\* from where it was, or from the start of the rings.
Started(c, m, fresh) ==
  /\ m \in Card
  /\ m.rx = c.rx /\ m.pending = c.pending /\ m.tx = c.tx /\ m.sent = c.sent
  /\ m.rxPackets = c.rxPackets /\ m.dropped = c.dropped
  /\ ~fresh => m.rxAt = c.rxAt /\ m.txAt = c.txAt
  /\ fresh => m.rxAt = 0 /\ m.txAt = 0
  /\ "STOP" \notin m.csr0 /\ ("TXON" \in m.csr0 => "STRT" \in m.csr0)
  /\ "RINT" \in c.csr0 => "RINT" \in m.csr0

\* The three commands that start the chip.
LEMMA WriteStarts ==
  ASSUME NEW c \in Card, "STRT" \notin c.csr0, "TXON" \notin c.csr0,
         "STOP" \in c.csr0 => c.csr0 = {"STOP"},
         NEW cmd \in {{"INIT"}, {"STRT"}, {"INIT", "STRT"}},
         "STOP" \notin c.csr0 => cmd = {"STRT"}
  PROVE  \E m : /\ WriteCsr0(c, cmd \cup {"INEA"}) = EndDemand(Serve(m))
                /\ Started(c, m, "INIT" \in cmd)
<1> DEFINE prev == c.csr0
           value == cmd \cup {"INEA"}
           csr == Merge(prev, value)
           d == [c EXCEPT !.csr0 = csr]
<1>0. prev \subseteq Csr0Bit /\ value \subseteq Csr0Bit
  <2>1. prev \subseteq Csr0Bit  BY DEF Card
  <2> QED  BY <2>1, Bits
<1>1. /\ csr \subseteq Csr0Bit
      /\ "STOP" \in csr <=> "STOP" \in prev
      /\ "STRT" \in csr <=> "STRT" \in cmd
      /\ "INIT" \in csr <=> "INIT" \in prev \/ "INIT" \in cmd
      /\ "TXON" \notin csr
      /\ "RINT" \in prev => "RINT" \in csr
  <2> DEFINE v == value
  <2>1. "RINT" \notin v /\ "STOP" \notin v /\ ("STRT" \in v <=> "STRT" \in cmd)
        /\ ("INIT" \in v <=> "INIT" \in cmd) /\ "STRT" \notin prev /\ "TXON" \notin prev
    OBVIOUS
  <2> HIDE DEF v, prev
  <2>2. LET r == Merge(prev, v) IN
        /\ r \subseteq Csr0Bit
        /\ \A b \in {"STOP", "STRT", "INIT", "TDMD"} : b \in r <=> b \in prev \/ b \in v
        /\ "TXON" \in r <=> "TXON" \in prev
        /\ "RINT" \notin v => ("RINT" \in r <=> "RINT" \in prev)
    BY <1>0, MergeIs DEF v
  <2>3. csr = Merge(prev, v)  BY DEF v
  <2> HIDE DEF csr
  <2> QED  BY <2>1, <2>2, <2>3
<1>2. WriteCsr0(c, value) =
        EndDemand(Serve(
          CASE "STOP" \in csr /\ "STOP" \notin prev -> [d EXCEPT !.csr0 = {"STOP"}]
            [] /\ ~("STOP" \in csr /\ "STOP" \notin prev)
               /\ "STRT" \in csr /\ "STRT" \notin prev /\ prev \cap {"STOP", "INIT"} # {} ->
                 IF "INIT" \in csr /\ "INIT" \notin prev
                 THEN Initialize([d EXCEPT !.csr0 = (@ \ {"STOP"}) \cup {"TXON", "RXON"}])
                 ELSE [d EXCEPT !.csr0 = (@ \ {"STOP"}) \cup {"TXON", "RXON"}]
            [] /\ ~("STOP" \in csr /\ "STOP" \notin prev)
               /\ ~("STRT" \in csr /\ "STRT" \notin prev /\ prev \cap {"STOP", "INIT"} # {})
               /\ "INIT" \in csr /\ "INIT" \notin prev /\ "STOP" \in prev ->
                 [Initialize(d) EXCEPT !.csr0 = @ \ {"RXON", "TXON", "STOP"}]
            [] OTHER -> d))
  BY DEF WriteCsr0
<1> HIDE DEF csr, value
<1>3. /\ d \in Card /\ d.csr0 = csr
      /\ d.rx = c.rx /\ d.rxAt = c.rxAt /\ d.pending = c.pending
      /\ d.tx = c.tx /\ d.txAt = c.txAt /\ d.sent = c.sent
      /\ d.rxPackets = c.rxPackets /\ d.dropped = c.dropped
  BY <1>1, WithBits
<1> HIDE DEF d, prev
<1> DEFINE t == (csr \ {"STOP"}) \cup {"TXON", "RXON"}
           m == [d EXCEPT !.csr0 = t]
<1>4. t \subseteq Csr0Bit  BY <1>1, Bits
<1>5. /\ m \in Card /\ m.csr0 = t
      /\ m.rx = c.rx /\ m.rxAt = c.rxAt /\ m.pending = c.pending
      /\ m.tx = c.tx /\ m.txAt = c.txAt /\ m.sent = c.sent
      /\ m.rxPackets = c.rxPackets /\ m.dropped = c.dropped
  <2> HIDE DEF t
  <2> QED  BY <1>3, <1>4, WithBits
<1>6. m = [d EXCEPT !.csr0 = (@ \ {"STOP"}) \cup {"TXON", "RXON"}]
  BY <1>3
<1>7. CASE cmd = {"STRT"}
  <2>1. "STRT" \in csr /\ "STRT" \notin prev /\ "INIT" \notin cmd
        /\ ~("STOP" \in csr /\ "STOP" \notin prev) /\ ~("INIT" \in csr /\ "INIT" \notin prev)
    BY <1>1, <1>7 DEF prev
  <2>2. CASE prev \cap {"STOP", "INIT"} # {}
    <3>1. WriteCsr0(c, value) = EndDemand(Serve(m))
      <4> HIDE DEF m
      <4> QED  BY <1>2, <1>6, <2>1, <2>2
    <3>2. "STOP" \notin t /\ "STRT" \in t /\ ("RINT" \in prev => "RINT" \in t)
      BY <1>1, <2>1
    <3> HIDE DEF m, t
    <3>3. Started(c, m, "INIT" \in cmd)  BY <1>5, <2>1, <3>2 DEF Started, prev
    <3> QED  BY <3>1, <3>3 DEF value
  <2>3. CASE ~(prev \cap {"STOP", "INIT"} # {})
    <3>1. WriteCsr0(c, value) = EndDemand(Serve(d))  BY <1>2, <2>1, <2>3
    <3>2. "STOP" \notin csr  BY <1>1, <2>3
    <3>3. Started(c, d, "INIT" \in cmd)  BY <1>1, <1>3, <2>1, <3>2 DEF Started, prev
    <3> QED  BY <3>1, <3>3 DEF value
  <2> QED  BY <2>2, <2>3
<1>8. CASE cmd # {"STRT"}
  <2>1. prev = {"STOP"} /\ "INIT" \in cmd  BY <1>8 DEF prev
  <2>2. "INIT" \in csr /\ "INIT" \notin prev /\ "STOP" \in prev /\ "STRT" \notin prev
        /\ ~("STOP" \in csr /\ "STOP" \notin prev) /\ prev \cap {"STOP", "INIT"} # {}
        /\ "RINT" \notin c.csr0
    BY <1>1, <2>1 DEF prev
  <2>3. CASE "STRT" \in cmd
    <3> DEFINE i == Initialize(m)
    <3>1. WriteCsr0(c, value) = EndDemand(Serve(i))
      <4>1. "STRT" \in csr  BY <1>1, <2>3
      <4> HIDE DEF m
      <4> QED  BY <1>2, <1>6, <2>2, <4>1
    <3>2. "STOP" \notin t \cup {"IDON"} /\ "STRT" \in t \cup {"IDON"}
      BY <1>1, <2>3
    <3> HIDE DEF m, t
    <3>3. /\ i \in Card /\ i.csr0 = m.csr0 \cup {"IDON"}
          /\ i.rx = m.rx /\ i.rxAt = 0 /\ i.pending = m.pending
          /\ i.tx = m.tx /\ i.txAt = 0 /\ i.sent = m.sent
          /\ i.rxPackets = m.rxPackets /\ i.dropped = m.dropped
      BY <1>5, InitializeIs
    <3> HIDE DEF i
    <3>4. Started(c, i, "INIT" \in cmd)
      BY <1>5, <2>1, <2>2, <3>2, <3>3 DEF Started
    <3> QED  BY <3>1, <3>4 DEF value
  <2>4. CASE "STRT" \notin cmd
    <3> DEFINE i == Initialize(d)
               s == (csr \cup {"IDON"}) \ {"RXON", "TXON", "STOP"}
               z == [i EXCEPT !.csr0 = s]
    <3>1. /\ i \in Card /\ i.csr0 = csr \cup {"IDON"}
          /\ i.rx = c.rx /\ i.rxAt = 0 /\ i.pending = c.pending
          /\ i.tx = c.tx /\ i.txAt = 0 /\ i.sent = c.sent
          /\ i.rxPackets = c.rxPackets /\ i.dropped = c.dropped
      BY <1>3, InitializeIs
    <3>2. WriteCsr0(c, value) = EndDemand(Serve(z))
      <4>1. "STRT" \notin csr  BY <1>1, <2>4
      <4>2. z = [i EXCEPT !.csr0 = @ \ {"RXON", "TXON", "STOP"}]  BY <3>1
      <4> HIDE DEF z
      <4> QED  BY <1>2, <2>2, <4>1, <4>2
    <3>3. s \subseteq Csr0Bit /\ "STOP" \notin s /\ "TXON" \notin s  BY <1>1, Bits
    <3> HIDE DEF i, s
    <3>4. /\ z \in Card /\ z.csr0 = s
          /\ z.rx = c.rx /\ z.rxAt = 0 /\ z.pending = c.pending
          /\ z.tx = c.tx /\ z.txAt = 0 /\ z.sent = c.sent
          /\ z.rxPackets = c.rxPackets /\ z.dropped = c.dropped
      BY <3>1, <3>3, WithBits
    <3> HIDE DEF z
    <3>5. Started(c, z, "INIT" \in cmd)  BY <2>1, <2>2, <3>3, <3>4 DEF Started
    <3> QED  BY <3>2, <3>5 DEF value
  <2> QED  BY <2>3, <2>4
<1> QED  BY <1>7, <1>8
-----------------------------------------------------------------------------
(* The steps *)

\* The last frame delivered has a number.
LEMMA LastIs ==
  ASSUME TypeInv, ReceiveInv
  PROVE  LastDelivered \in Nat
<1>1. CASE delivered = << >>  BY <1>1 DEF LastDelivered
<1>2. CASE delivered # << >>
  <2> DEFINE n == Len(delivered)
             u == delivered[n]
  <2>1. delivered \in Seq(Seq(Unit))  BY DEF TypeInv
  <2>2. n \in 1 .. Len(delivered)  BY <1>2, <2>1
  <2>3. u \in Seq(Unit) /\ u # << >>  BY <2>1, <2>2 DEF ReceiveInv
  <2> HIDE DEF u
  <2>4. u[1] \in Unit  BY <2>3
  <2>5. u[1][1] \in Nat  BY <2>4 DEF Unit
  <2> QED  BY <1>2, <2>5 DEF LastDelivered, u
<1> QED  BY <1>1, <1>2

\* The card an INIT will find differs from the card in its places only.
LEMMA ReadyIs ==
  ASSUME card \in Card
  PROVE  /\ Ready \in Card /\ Ready.csr0 = card.csr0
         /\ Ready.rx = card.rx /\ Ready.pending = card.pending
         /\ Ready.tx = card.tx /\ Ready.sent = card.sent
         /\ Ready.rxPackets = card.rxPackets /\ Ready.dropped = card.dropped
         /\ rings = "prepared" => Ready.rxAt = 0 /\ Ready.txAt = 0
         /\ rings # "prepared" => Ready = card
<1>1. CASE rings # "prepared"  BY <1>1 DEF Ready
<1>2. CASE rings = "prepared"
  <2> DEFINE e == [card EXCEPT !.rxAt = 0, !.txAt = 0]
  <2>1. Ready = e  BY <1>2 DEF Ready
  <2>2. 0 \in 0 .. RxLen - 1 /\ 0 \in 0 .. TxLen - 1  BY Lengths
  <2>3. e \in Card  BY <2>2 DEF Card
  <2>4. /\ e.csr0 = card.csr0 /\ e.rx = card.rx /\ e.pending = card.pending
        /\ e.tx = card.tx /\ e.sent = card.sent
        /\ e.rxPackets = card.rxPackets /\ e.dropped = card.dropped
        /\ e.rxAt = 0 /\ e.txAt = 0
    BY DEF Card
  <2> HIDE DEF e
  <2> QED  BY <1>2, <2>1, <2>3, <2>4
<1> QED  BY <1>1, <1>2

\* A step that ends with both rings served, on the card m.
LEMMA ServedStep ==
  ASSUME IInv, NEW m \in Card,
         m.rx = card.rx, m.rxAt = Ready.rxAt, m.pending = card.pending,
         m.tx = card.tx, m.txAt = Ready.txAt, m.sent = card.sent,
         m.rxPackets = card.rxPackets, m.dropped = card.dropped,
         "STOP" \notin m.csr0, "TXON" \in m.csr0 => "STRT" \in m.csr0,
         On(m.csr0) => rings # "faulted" /\ On(card.csr0),
         card' = EndDemand(Serve(m)), rings' = "used",
         UNCHANGED <<giveAt, building, given, takeAt, partial, delivered, arrived, wire>>,
         isr' \in {"idle", "ack", "drain"}, seen' \subseteq Event,
         isr' = "idle" => Waking(m)
  PROVE  IInv'
<1>1. TypeInv /\ ControlInv /\ ReceivedWhole /\ ReceiveInv /\ TransmitInv  BY DEF IInv
<1>2. /\ card \in Card /\ giveAt \in 0 .. TxLen - 1 /\ building \in Nat /\ given \in Nat
      /\ takeAt \in 0 .. RxLen - 1 /\ partial \in Seq(Unit) /\ arrived \in Nat
      /\ wire \in Seq(Seq(Unit)) /\ LastDelivered \in Nat
  BY <1>1, LastIs DEF TypeInv
<1>3. /\ Ready.rx = card.rx /\ Ready.pending = card.pending /\ Ready.tx = card.tx
  BY <1>2, ReadyIs
<1>4. RxOk(m, takeAt, partial, LastDelivered, arrived)
  <2>1. RxOk(Ready, takeAt, partial, LastDelivered, arrived)  BY <1>1 DEF ReceiveInv
  <2> QED  BY <1>3, <2>1, RxOkSame
<1>5. PICK g \in 0 .. given :
        /\ SentUpTo(Outgoing, g)
        /\ arrived <= Counted(card) /\ Counted(card) <= arrived + g
        /\ rings # "faulted" /\ On(card.csr0) => TxOk(Ready, giveAt, building, given, g)
  BY <1>1 DEF TransmitInv
<1>6. On(m.csr0) => TxOk(m, giveAt, building, given, g)
  <2>1. rings # "faulted" /\ On(card.csr0) => TxOk(m, giveAt, building, given, g)
    BY <1>3, <1>5, TxOkSame
  <2> QED  BY <2>1
<1>7. SentUpTo(wire \o m.sent, g)  BY <1>5 DEF Outgoing
<1> DEFINE e == EndDemand(Serve(m))
<1>8. /\ e \in Card /\ RxOk(e, takeAt, partial, LastDelivered, arrived) /\ Stays(m, e)
      /\ Sends(m, e, wire, giveAt, building, given, g)
  <2>1. g \in Nat /\ g <= given  BY <1>2
  <2> QED  BY <1>2, <1>4, <1>6, <1>7, <2>1, ServedKeeps
<1> HIDE DEF e
<1>9. card' = e  BY DEF e
<1>10. Ready' = e /\ LastDelivered' = LastDelivered  BY <1>9 DEF Ready, LastDelivered
<1>11. TypeInv'  BY <1>1, <1>8, <1>9 DEF TypeInv
<1>12. ControlInv'  BY <1>8, <1>9 DEF ControlInv, Stays
<1>13. ReceivedWhole'  BY <1>1 DEF ReceivedWhole
<1>14. ReceiveInv'
  <2>1. isr' = "idle" => Waking(e)  BY <1>8 DEF Stays
  <2>2. (\A k \in 1 .. Len(delivered) : delivered[k] # << >>)'  BY <1>1 DEF ReceiveInv
  <2>3. RxOk(Ready', takeAt', partial', LastDelivered', arrived')  BY <1>8, <1>10
  <2> QED  BY <1>9, <2>1, <2>2, <2>3 DEF ReceiveInv
<1>15. TransmitInv'
  <2>1. PICK y \in g .. given :
          /\ SentUpTo(wire \o e.sent, y)
          /\ Counted(m) <= Counted(e) /\ Counted(e) + g <= Counted(m) + y
          /\ On(e.csr0) => TxOk(e, giveAt, building, given, y)
    BY <1>8 DEF Sends
  <2>2. y \in 0 .. given'  BY <1>2
  <2>3. arrived <= Counted(e) /\ Counted(e) <= arrived + y
    <3>1. Counted(m) = Counted(card)  BY DEF Counted
    <3>2. Counted(m) \in Nat /\ Counted(e) \in Nat  BY <1>8, CountedIs
    <3>3. g \in Nat /\ y \in Nat  BY <1>2
    <3> DEFINE p == Counted(m)
               q == Counted(e)
    <3>4. p \in Nat /\ q \in Nat /\ arrived <= p /\ p <= arrived + g /\ p <= q
          /\ q + g <= p + y
      BY <1>5, <2>1, <3>1, <3>2
    <3> HIDE DEF p, q
    <3>5. arrived <= q /\ q <= arrived + y  BY <1>2, <3>3, <3>4
    <3> QED  BY <3>5 DEF q
  <2>4. Outgoing' = wire \o e.sent  BY <1>9 DEF Outgoing
  <2>5. /\ SentUpTo(Outgoing', y)
        /\ arrived' <= Counted(card') /\ Counted(card') <= arrived' + y
        /\ rings' # "faulted" /\ On(card'.csr0) =>
             TxOk(Ready', giveAt', building', given', y)
    BY <1>9, <1>10, <2>1, <2>3, <2>4
  <2> QED  BY <2>2, <2>5 DEF TransmitInv
<1> QED  BY <1>11, <1>12, <1>13, <1>14, <1>15 DEF IInv

\* INIT, STRT or both.
LEMMA StartStep ==
  ASSUME IInv, GuestStart
  PROVE  IInv'
<1>1. TypeInv /\ ControlInv /\ ReceiveInv  BY DEF IInv
<1>2. card \in Card  BY <1>1 DEF TypeInv
<1>3. PICK cmd \in {{"INIT"}, {"STRT"}, {"INIT", "STRT"}} :
        /\ IF "STOP" \notin card.csr0 THEN cmd = {"STRT"}
           ELSE IF cmd = {"STRT"} THEN rings = "used" ELSE rings = "prepared"
        /\ card' = WriteCsr0(card, cmd \cup {"INEA"})
  BY DEF GuestStart
<1>4. /\ "STRT" \notin card.csr0 /\ isr = "idle" /\ rings' = "used"
      /\ UNCHANGED <<giveAt, building, given, takeAt, partial, delivered, isr, seen>>
      /\ UNCHANGED <<arrived, wire>>
  BY DEF GuestStart, host
<1>5. "TXON" \notin card.csr0 /\ ("STOP" \in card.csr0 => card.csr0 = {"STOP"})
  BY <1>1, <1>4 DEF ControlInv
<1>6. PICK m : /\ WriteCsr0(card, cmd \cup {"INEA"}) = EndDemand(Serve(m))
               /\ Started(card, m, "INIT" \in cmd)
  <2>1. "STOP" \notin card.csr0 => cmd = {"STRT"}  BY <1>3
  <2> QED  BY <1>2, <1>4, <1>5, <2>1, WriteStarts
<1>7. rings # "faulted" /\ On(card.csr0)
  BY <1>1, <1>3, <1>4 DEF ControlInv, On
<1>8. m.rxAt = Ready.rxAt /\ m.txAt = Ready.txAt
  <2>1. CASE cmd = {"STRT"}
    <3>1. rings # "prepared" /\ ~("INIT" \in cmd)  BY <1>1, <1>3, <2>1 DEF ControlInv
    <3>2. Ready = card  BY <1>2, <3>1, ReadyIs
    <3> QED  BY <1>6, <3>1, <3>2 DEF Started
  <2>2. CASE cmd # {"STRT"}
    <3>1. rings = "prepared" /\ "INIT" \in cmd  BY <1>3, <2>2
    <3>2. Ready.rxAt = 0 /\ Ready.txAt = 0  BY <1>2, <3>1, ReadyIs
    <3> QED  BY <1>6, <3>1, <3>2 DEF Started
  <2> QED  BY <2>1, <2>2
<1>9. Waking(m)
  <2>1. Waking(card)  BY <1>1, <1>4 DEF ReceiveInv
  <2> QED  BY <1>6, <2>1 DEF Started, Waking
<1>10. isr' \in {"idle", "ack", "drain"} /\ seen' \subseteq Event  BY <1>1, <1>4 DEF TypeInv
<1>11. card' = EndDemand(Serve(m))  BY <1>3, <1>6
<1> QED  BY <1>4, <1>6, <1>7, <1>8, <1>9, <1>10, <1>11, ServedStep DEF Started

\* A write to CSR0 that neither starts nor stops the chip.
LEMMA WriteStep ==
  ASSUME IInv, NEW value, value \subseteq Csr0Bit, value \cap {"STOP", "STRT", "INIT"} = {},
         "STOP" \notin card.csr0, card' = WriteCsr0(card, value),
         UNCHANGED <<giveAt, building, given, takeAt, partial, delivered, arrived, wire>>,
         UNCHANGED <<rings, seen>>, isr' \in {"idle", "ack", "drain"},
         isr' = "idle" => isr = "idle" /\ "RINT" \notin value
  PROVE  IInv'
<1>1. TypeInv /\ ControlInv /\ ReceiveInv  BY DEF IInv
<1>2. card \in Card /\ seen \subseteq Event  BY <1>1 DEF TypeInv
<1>3. rings = "used"  BY <1>1 DEF TypeInv, ControlInv
<1>4. Ready = card  BY <1>2, <1>3, ReadyIs
<1> DEFINE csr == Merge(card.csr0, value)
           m == [card EXCEPT !.csr0 = csr]
<1>5. card.csr0 \subseteq Csr0Bit  BY <1>2 DEF Card
<1>6. /\ csr \subseteq Csr0Bit
      /\ "STOP" \notin csr
      /\ "STRT" \in csr <=> "STRT" \in card.csr0
      /\ "TXON" \in csr <=> "TXON" \in card.csr0
      /\ "RINT" \notin value => ("RINT" \in csr <=> "RINT" \in card.csr0)
  <2> DEFINE prev == card.csr0
  <2>1. prev \subseteq Csr0Bit /\ "STOP" \notin prev /\ "STOP" \notin value /\ "STRT" \notin value
    BY <1>5
  <2> HIDE DEF prev
  <2> DEFINE r == Merge(prev, value)
  <2>2. /\ r \subseteq Csr0Bit
        /\ \A b \in {"STOP", "STRT", "INIT", "TDMD"} : b \in r <=> b \in prev \/ b \in value
        /\ "TXON" \in r <=> "TXON" \in prev
        /\ "RINT" \notin value => ("RINT" \in r <=> "RINT" \in prev)
    BY <2>1, MergeIs
  <2> HIDE DEF r
  <2>3. /\ r \subseteq Csr0Bit
        /\ "STOP" \notin r
        /\ "STRT" \in r <=> "STRT" \in prev
        /\ "TXON" \in r <=> "TXON" \in prev
        /\ "RINT" \notin value => ("RINT" \in r <=> "RINT" \in prev)
    BY <2>1, <2>2
  <2> QED  BY <2>3 DEF r, prev
<1>7. card' = EndDemand(Serve(m))  BY <1>2, WriteServes
<1> HIDE DEF csr
<1>8. /\ m \in Card /\ m.csr0 = csr
      /\ m.rx = card.rx /\ m.rxAt = card.rxAt /\ m.pending = card.pending
      /\ m.tx = card.tx /\ m.txAt = card.txAt /\ m.sent = card.sent
      /\ m.rxPackets = card.rxPackets /\ m.dropped = card.dropped
  BY <1>2, <1>6, WithBits
<1> HIDE DEF m
<1>9. isr' = "idle" => Waking(m)
  <2>1. isr = "idle" => Waking(card)  BY <1>1 DEF ReceiveInv
  <2> QED  BY <1>6, <1>8, <2>1 DEF Waking
<1>10. "TXON" \in m.csr0 => "STRT" \in m.csr0  BY <1>1, <1>6, <1>8 DEF ControlInv
<1>11. On(m.csr0) => rings # "faulted" /\ On(card.csr0)  BY <1>3, <1>6, <1>8 DEF On
<1>12. /\ m.rxAt = Ready.rxAt /\ m.txAt = Ready.txAt /\ "STOP" \notin m.csr0
       /\ rings' = "used" /\ isr' \in {"idle", "ack", "drain"} /\ seen' \subseteq Event
  BY <1>2, <1>3, <1>4, <1>6, <1>8
<1> QED  BY <1>7, <1>8, <1>9, <1>10, <1>11, <1>12, ServedStep

\* A demand serves both rings.
LEMMA DemandStep ==
  ASSUME IInv, GuestDemand
  PROVE  IInv'
<1>1. TypeInv /\ ControlInv  BY DEF IInv
<1>2. "STOP" \notin card.csr0  BY <1>1 DEF GuestDemand, ControlInv
<1> DEFINE value == {"TDMD", "INEA"}
<1>3. value \subseteq Csr0Bit /\ value \cap {"STOP", "STRT", "INIT"} = {} /\ "RINT" \notin value
  BY Bits
<1>4. /\ card' = WriteCsr0(card, value)
      /\ UNCHANGED <<giveAt, building, given, takeAt, partial, delivered, arrived, wire>>
      /\ UNCHANGED <<rings, seen>> /\ isr' = isr
  BY DEF GuestDemand, guest, host
<1> HIDE DEF value
<1>5. isr' \in {"idle", "ack", "drain"} /\ (isr' = "idle" => isr = "idle" /\ "RINT" \notin value)
  BY <1>1, <1>3, <1>4 DEF TypeInv
<1> QED  BY <1>2, <1>3, <1>4, <1>5, WriteStep

\* An acknowledgement clears what was read, and serves both rings.
LEMMA AckStep ==
  ASSUME IInv, IsrAck
  PROVE  IInv'
<1>1. TypeInv /\ ControlInv  BY DEF IInv
<1>2. "STOP" \notin card.csr0 /\ seen \subseteq Event  BY <1>1 DEF IsrAck, ControlInv, TypeInv
<1> DEFINE value == seen \cup {"INEA"}
<1>3. value \subseteq Csr0Bit /\ value \cap {"STOP", "STRT", "INIT"} = {}
  BY <1>2, Bits
<1>4. /\ card' = WriteCsr0(card, value)
      /\ UNCHANGED <<giveAt, building, given, takeAt, partial, delivered, arrived, wire>>
      /\ UNCHANGED <<rings, seen>> /\ isr' = "drain"
  BY DEF IsrAck, host
<1> HIDE DEF value
<1> QED  BY <1>2, <1>3, <1>4, WriteStep

\* STOP leaves the rings and the queue.
LEMMA StopStep ==
  ASSUME IInv, GuestStop
  PROVE  IInv'
<1>1. TypeInv /\ ControlInv /\ ReceivedWhole /\ ReceiveInv /\ TransmitInv  BY DEF IInv
<1>2. card \in Card  BY <1>1 DEF TypeInv
<1>3. /\ "STOP" \notin card.csr0 /\ isr' = "drain"
      /\ rings' = IF rings = "faulted" \/ ("STRT" \in card.csr0 /\ "TXON" \notin card.csr0)
                  THEN "faulted" ELSE "used"
      /\ UNCHANGED <<giveAt, building, given, takeAt, partial, delivered, seen, starts>>
      /\ UNCHANGED <<arrived, wire>>
  BY DEF GuestStop, host
<1>4. card' = [card EXCEPT !.csr0 = {"STOP"}]
  <2>1. card' = WriteCsr0(card, {"STOP"})  BY DEF GuestStop
  <2> QED  BY <1>2, <1>3, <2>1, WriteStops
<1>5. {"STOP"} \subseteq Csr0Bit  BY Bits
<1> DEFINE e == [card EXCEPT !.csr0 = {"STOP"}]
<1>6. /\ e \in Card /\ e.csr0 = {"STOP"}
      /\ e.rx = card.rx /\ e.rxAt = card.rxAt /\ e.pending = card.pending
      /\ e.tx = card.tx /\ e.txAt = card.txAt /\ e.sent = card.sent
      /\ e.rxPackets = card.rxPackets /\ e.dropped = card.dropped
  BY <1>2, <1>5, WithBits
<1> HIDE DEF e
<1>7. card' = e  BY <1>4 DEF e
<1>8. rings # "prepared" /\ rings' # "prepared"  BY <1>1, <1>3 DEF ControlInv
<1>9. Ready = card /\ Ready' = e /\ LastDelivered' = LastDelivered
  BY <1>3, <1>7, <1>8 DEF Ready, LastDelivered
<1>10. TypeInv'  BY <1>1, <1>3, <1>6, <1>7 DEF TypeInv
<1>11. ControlInv'  BY <1>3, <1>6, <1>7 DEF ControlInv
<1>12. ReceivedWhole'  BY <1>1, <1>3 DEF ReceivedWhole
<1>13. ReceiveInv'
  <2>1. RxOk(card, takeAt, partial, LastDelivered, arrived)  BY <1>1, <1>9 DEF ReceiveInv
  <2>2. RxOk(e, takeAt, partial, LastDelivered, arrived)  BY <1>6, <2>1, RxOkSame
  <2>3. RxOk(Ready', takeAt', partial', LastDelivered', arrived')  BY <1>3, <1>9, <2>2
  <2>4. (\A k \in 1 .. Len(delivered) : delivered[k] # << >>)'  BY <1>1, <1>3 DEF ReceiveInv
  <2> QED  BY <1>3, <2>3, <2>4 DEF ReceiveInv
<1>14. TransmitInv'
  <2>1. PICK g \in 0 .. given :
          /\ SentUpTo(Outgoing, g)
          /\ arrived <= Counted(card) /\ Counted(card) <= arrived + g
          /\ rings # "faulted" /\ On(card.csr0) => TxOk(Ready, giveAt, building, given, g)
    BY <1>1 DEF TransmitInv
  <2>2. Outgoing' = Outgoing /\ Counted(e) = Counted(card)
    BY <1>3, <1>6, <1>7 DEF Outgoing, Counted
  <2>3. rings' # "faulted" => TxOk(e, giveAt, building, given, g)
    <3>1. rings' # "faulted" => rings # "faulted" /\ On(card.csr0)  BY <1>3 DEF On
    <3>2. rings' # "faulted" => TxOk(card, giveAt, building, given, g)  BY <1>9, <2>1, <3>1
    <3> QED  BY <1>6, <3>2, TxOkSame
  <2>4. /\ SentUpTo(Outgoing', g)
        /\ arrived' <= Counted(card') /\ Counted(card') <= arrived' + g
        /\ rings' # "faulted" /\ On(card'.csr0) =>
             TxOk(Ready', giveAt', building', given', g)
    BY <1>3, <1>7, <1>9, <2>1, <2>2, <2>3
  <2>5. g \in 0 .. given'  BY <1>3
  <2> QED  BY <2>4, <2>5 DEF TransmitInv
<1> QED  BY <1>10, <1>11, <1>12, <1>13, <1>14 DEF IInv

\* A read of CSR0 changes nothing of the device.
LEMMA ReadStep ==
  ASSUME IInv, IsrRead
  PROVE  IInv'
<1>1. TypeInv /\ ControlInv /\ ReceivedWhole /\ ReceiveInv /\ TransmitInv  BY DEF IInv
<1>2. /\ "INTR" \in card.csr0 /\ seen' = card.csr0 \cap Event /\ isr' = "ack"
      /\ UNCHANGED <<card, giveAt, building, given, takeAt, partial, delivered, starts, rings>>
      /\ UNCHANGED <<arrived, wire>>
  BY DEF IsrRead, host
<1>3. "STOP" \notin card.csr0  BY <1>1, <1>2 DEF ControlInv
<1>4. Ready' = Ready /\ LastDelivered' = LastDelivered /\ Outgoing' = Outgoing
  BY <1>2 DEF Ready, LastDelivered, Outgoing
<1>5. TypeInv'  BY <1>1, <1>2 DEF TypeInv
<1>6. ControlInv'  BY <1>1, <1>2, <1>3 DEF ControlInv
<1>7. ReceivedWhole'  BY <1>1, <1>2 DEF ReceivedWhole
<1>8. ReceiveInv'  BY <1>1, <1>2, <1>4 DEF ReceiveInv
<1>9. TransmitInv'  BY <1>1, <1>2, <1>4 DEF TransmitInv
<1> QED  BY <1>5, <1>6, <1>7, <1>8, <1>9 DEF IInv

\* The guest sets up both rings.
LEMMA PrepareStep ==
  ASSUME IInv, GuestPrepare
  PROVE  IInv'
<1>1. TypeInv /\ ControlInv /\ ReceivedWhole /\ ReceiveInv /\ TransmitInv  BY DEF IInv
<1>2. card \in Card /\ LastDelivered \in Nat  BY <1>1, LastIs DEF TypeInv
<1>3. /\ "STOP" \in card.csr0 /\ isr = "idle" /\ rings' = "prepared"
      /\ card' = [card EXCEPT !.rx = Reset.rx, !.tx = Reset.tx]
      /\ giveAt' = 0 /\ building' = 0 /\ takeAt' = 0 /\ partial' = << >>
      /\ UNCHANGED <<given, delivered, isr, seen, starts>> /\ UNCHANGED <<arrived, wire>>
  BY DEF GuestPrepare, host
<1> DEFINE rx == Reset.rx
           tx == Reset.tx
           e == [card EXCEPT !.rx = rx, !.tx = tx]
           r == [e EXCEPT !.rxAt = 0, !.txAt = 0]
<1>4. /\ rx \in [0 .. RxLen - 1 -> RxDescriptor] /\ tx \in [0 .. TxLen - 1 -> TxDescriptor]
      /\ \A i \in 0 .. RxLen - 1 : rx[i].own
      /\ \A i \in 0 .. TxLen - 1 : ~tx[i].own
  <2>1. RxFree \in RxDescriptor /\ RxFree.own  BY DEF RxFree, RxDescriptor, NoUnit, Unit
  <2>2. TxIdle \in TxDescriptor /\ ~TxIdle.own  BY DEF TxIdle, TxDescriptor, NoUnit, Unit
  <2>3. rx = [i \in 0 .. RxLen - 1 |-> RxFree] /\ tx = [i \in 0 .. TxLen - 1 |-> TxIdle]
    BY DEF Reset
  <2> HIDE DEF rx, tx
  <2> QED  BY <2>1, <2>2, <2>3
<1> HIDE DEF rx, tx
<1>5. /\ e \in Card /\ e.csr0 = card.csr0 /\ e.rx = rx /\ e.tx = tx
      /\ e.pending = card.pending /\ e.sent = card.sent
      /\ e.rxPackets = card.rxPackets /\ e.dropped = card.dropped
  <2>1. e \in Card  BY <1>2, <1>4 DEF Card
  <2> QED  BY <1>2, <2>1 DEF Card
<1>6. 0 \in 0 .. RxLen - 1 /\ 0 \in 0 .. TxLen - 1 /\ 0 \in 0 .. RxLen /\ 0 \in 0 .. TxLen
  BY Lengths
<1> HIDE DEF e
<1>7. /\ r.rx = rx /\ r.tx = tx /\ r.rxAt = 0 /\ r.txAt = 0
      /\ r.pending = card.pending /\ r.sent = card.sent
  BY <1>5, <1>6 DEF Card
<1>8. card' = e  BY <1>3 DEF e, rx, tx
<1>9. Ready' = r /\ LastDelivered' = LastDelivered /\ Outgoing' = Outgoing
  BY <1>3, <1>5, <1>8 DEF Ready, LastDelivered, Outgoing
<1> HIDE DEF r
<1>10. TypeInv'
  <2>1. << >> \in Seq(Unit)  OBVIOUS
  <2> QED  BY <1>1, <1>3, <1>5, <1>6, <1>8, <2>1 DEF TypeInv
<1>11. ControlInv'  BY <1>1, <1>3, <1>5, <1>8 DEF ControlInv
<1>12. ReceivedWhole'  BY <1>1, <1>3 DEF ReceivedWhole
<1>13. \A j \in 0 .. RxLen - 1 : Past(0, j, RxLen) \in 0 .. RxLen - 1
  <2> SUFFICES ASSUME NEW j \in 0 .. RxLen - 1  PROVE Past(0, j, RxLen) \in 0 .. RxLen - 1
    OBVIOUS
  <2>1. j \in 0 .. RxLen  BY Lengths
  <2> QED  BY <1>6, <2>1, Lengths, PastFacts
<1>14. \A j \in 0 .. TxLen - 1 : Past(0, j, TxLen) \in 0 .. TxLen - 1
  <2> SUFFICES ASSUME NEW j \in 0 .. TxLen - 1  PROVE Past(0, j, TxLen) \in 0 .. TxLen - 1
    OBVIOUS
  <2>1. j \in 0 .. TxLen  BY Lengths
  <2> QED  BY <1>6, <2>1, Lengths, PastFacts
<1>15. Past(0, 0, RxLen) = 0 /\ Past(0, 0, TxLen) = 0  BY <1>6, Lengths, PastRound
<1>16. ReceiveInv'
  <2>1. PICK f \in 0 .. RxLen, top \in LastDelivered .. arrived :
          RxPending(Ready, top, arrived)
    BY <1>1 DEF ReceiveInv, RxOk
  <2>2. RxPending(r, top, arrived)
    <3>1. Ready.pending = card.pending  BY <1>2, ReadyIs
    <3> QED  BY <1>7, <2>1, <3>1 DEF RxPending
  <2>3. RxPlaced(r, 0, 0)
    <3>1. \A j \in 0 .. RxLen - 1 : Rx(r, 0, j).own /\ j >= 0  BY <1>4, <1>7, <1>13 DEF Rx
    <3> QED  BY <1>7, <1>15, <3>1 DEF RxPlaced
  <2>4. RxUnits(r, 0, 0, LastDelivered, top) /\ RxBegun(r, 0, << >>, 0, LastDelivered, top)
    BY DEF RxUnits, RxBegun
  <2>5. RxOk(r, 0, << >>, LastDelivered, arrived)  BY <1>6, <2>2, <2>3, <2>4 DEF RxOk
  <2>6. RxOk(Ready', takeAt', partial', LastDelivered', arrived')
    <3>1. arrived' = arrived  BY <1>3
    <3> QED  BY <1>3, <1>9, <2>5, <3>1
  <2>7. Waking(e)  BY <1>4, <1>5 DEF Waking
  <2>8. (\A k \in 1 .. Len(delivered) : delivered[k] # << >>)'  BY <1>1, <1>3 DEF ReceiveInv
  <2> QED  BY <1>8, <2>6, <2>7, <2>8 DEF ReceiveInv
<1>17. TransmitInv'
  <2>1. PICK g \in 0 .. given :
          /\ SentUpTo(Outgoing, g)
          /\ arrived <= Counted(card) /\ Counted(card) <= arrived + g
    BY <1>1 DEF TransmitInv
  <2>2. Counted(e) = Counted(card)  BY <1>5 DEF Counted
  <2>3. TxPlaced(r, 0, 0)
    <3>1. \A j \in 0 .. TxLen - 1 : ~Tx(r, j).own /\ ~(j < 0)  BY <1>4, <1>7, <1>14 DEF Tx
    <3> QED  BY <1>7, <1>15, <3>1 DEF TxPlaced
  <2>4. TxUnits(r, 0, g, given) /\ TxBuilding(r, 0, 0, given)
    <3>1. \A j \in 0 .. 0 - 1 : FALSE  OBVIOUS
    <3>2. \A j \in 1 .. 0 - 1 : FALSE  OBVIOUS
    <3>3. ~(0 > 0)  OBVIOUS
    <3> QED  BY <3>1, <3>2, <3>3 DEF TxUnits, TxBuilding
  <2>5. TxOk(r, 0, 0, given, g)  BY <1>6, <2>3, <2>4 DEF TxOk
  <2>6. /\ SentUpTo(Outgoing', g)
        /\ arrived' <= Counted(card') /\ Counted(card') <= arrived' + g
        /\ TxOk(Ready', giveAt', building', given', g)
    BY <1>3, <1>8, <1>9, <2>1, <2>2, <2>5
  <2>7. g \in 0 .. given'  BY <1>3
  <2> QED  BY <2>6, <2>7 DEF TransmitInv
<1> QED  BY <1>10, <1>11, <1>12, <1>16, <1>17 DEF IInv

\* Handing over the next unit keeps the transmit ring in order.
LEMMA Handed ==
  ASSUME NEW c \in Card, NEW e \in Card, NEW at \in 0 .. TxLen - 1, NEW bld \in Nat,
         NEW gvn \in Nat, NEW g \in 0 .. gvn, TxOk(c, at, bld, gvn, g), ~c.tx[at].own,
         NEW d \in TxDescriptor, NEW gvn2, gvn2 = IF bld = 0 THEN gvn + 1 ELSE gvn,
         d.own, d.stp <=> bld = 0, bld + 1 = TxLen => d.enp,
         d.unit[1] = gvn2, d.unit[2] = bld + 1, d.enp => d.unit[3] = bld + 1,
         e.txAt = c.txAt, e.tx = [c.tx EXCEPT ![at] = d],
         NEW bld2, bld2 = IF d.enp THEN 0 ELSE bld + 1
  PROVE  TxOk(e, Past(at, 1, TxLen), bld2, gvn2, g)
<1> DEFINE n == TxLen
           p == c.txAt
<1>0. n \in Nat \ {0} /\ p \in 0 .. n - 1 /\ gvn \in Nat /\ g \in Nat /\ g <= gvn /\ bld \in Nat
  BY Lengths DEF Card
<1>1. PICK h \in 0 .. n : TxPlaced(c, at, h) /\ TxUnits(c, h, g, gvn) /\ TxBuilding(c, h, bld, gvn)
  BY DEF TxOk
<1>2. at = Past(p, h, n)  BY <1>1 DEF TxPlaced
<1>3. h < n
  <2> SUFFICES ASSUME h = n  PROVE FALSE
    BY <1>0
  <2>1. Past(p, n, n) = p /\ Past(p, 0, n) = p
    <3>1. n \in Nat \ {0} /\ p \in 0 .. n - 1  BY <1>0
    <3> HIDE DEF n, p
    <3> QED  BY <3>1, PastRound
  <2>2. 0 \in 0 .. n - 1 /\ 0 < n  BY <1>0
  <2>3. Tx(c, 0).own  BY <1>1, <2>2 DEF TxPlaced
  <2> QED  BY <1>2, <2>1, <2>3 DEF Tx
<1>4. \A j \in 0 .. n - 1 : j # h => Past(p, j, n) # at /\ Past(p, j, n) \in 0 .. n - 1
  <2> SUFFICES ASSUME NEW j \in 0 .. n - 1, j # h
               PROVE  Past(p, j, n) # at /\ Past(p, j, n) \in 0 .. n - 1
    OBVIOUS
  <2>1. n \in Nat \ {0} /\ p \in 0 .. n - 1 /\ h \in 0 .. n - 1 /\ j \in 0 .. n  BY <1>0, <1>3
  <2> HIDE DEF n, p
  <2>2. Past(p, j, n) = Past(p, h, n) => j = h  BY <2>1, PastFacts
  <2>3. Past(p, j, n) \in 0 .. n - 1  BY <2>1, PastFacts
  <2> QED  BY <1>2, <2>2, <2>3
<1>5. \A j \in 0 .. n - 1 : Tx(e, j) = IF j = h THEN d ELSE Tx(c, j)
  <2> SUFFICES ASSUME NEW j \in 0 .. n - 1  PROVE Tx(e, j) = IF j = h THEN d ELSE Tx(c, j)
    OBVIOUS
  <2>1. c.tx \in [0 .. n - 1 -> TxDescriptor]  BY DEF Card
  <2>2. CASE j = h
    <3>1. Past(p, j, n) = at  BY <1>2, <2>2
    <3>2. e.tx[at] = d  BY <2>1
    <3>3. Tx(e, j) = e.tx[at]  BY <3>1 DEF Tx
    <3> QED  BY <2>2, <3>2, <3>3
  <2>3. CASE j # h
    <3>1. Past(p, j, n) # at /\ Past(p, j, n) \in 0 .. n - 1  BY <1>4, <2>3
    <3> QED  BY <2>1, <2>3, <3>1 DEF Tx
  <2> QED  BY <2>2, <2>3
<1>6. \A j \in 0 .. n - 1 : Tx(c, j).unit[1] \in Nat /\ Tx(c, j).unit[2] \in Nat
  BY TxTypes
<1>7. TxPlaced(e, Past(at, 1, n), h + 1)
  <2>1. Past(at, 1, n) = Past(p, h + 1, n)
    <3>1. n \in Nat \ {0} /\ p \in 0 .. n - 1 /\ 1 \in 0 .. n /\ h + 1 <= n  BY <1>0, <1>3
    <3> HIDE DEF n, p
    <3> QED  BY <1>2, <3>1, PastPast
  <2>2. ASSUME NEW j \in 0 .. n - 1  PROVE Tx(e, j).own <=> j < h + 1
    <3>1. CASE j = h
      <4>1. Tx(e, j).own /\ j < h + 1  BY <1>5, <3>1
      <4> QED  BY <4>1
    <3>2. CASE j # h
      <4>1. Tx(c, j).own <=> j < h  BY <1>1 DEF TxPlaced
      <4>2. j < h <=> j < h + 1  BY <3>2
      <4> QED  BY <1>5, <3>2, <4>1, <4>2
    <3> QED  BY <3>1, <3>2
  <2> QED  BY <2>1, <2>2 DEF TxPlaced
<1>8. \A j \in 0 .. h - 1 : /\ j \in 0 .. n - 1 /\ Tx(e, j) = Tx(c, j)
                            /\ TxUnit(Tx(c, j), j, g, gvn)
  <2> SUFFICES ASSUME NEW j \in 0 .. h - 1
               PROVE  /\ j \in 0 .. n - 1 /\ Tx(e, j) = Tx(c, j)
                      /\ TxUnit(Tx(c, j), j, g, gvn)
    OBVIOUS
  <2>1. j \in 0 .. n - 1 /\ j # h  BY <1>0, <1>3
  <2>2. TxUnit(Tx(c, j), j, g, gvn)  BY <1>1 DEF TxUnits
  <2> QED  BY <1>5, <2>1, <2>2
<1>9. Tx(e, h) = d  BY <1>0, <1>3, <1>5
<1>10. bld # 0 => /\ h - 1 \in 0 .. h - 1 /\ ~Tx(c, h - 1).enp
                  /\ Tx(c, h - 1).unit[1] = gvn /\ Tx(c, h - 1).unit[2] = bld
                  /\ bld <= h /\ g < gvn
  <2> SUFFICES ASSUME bld # 0
               PROVE  /\ h - 1 \in 0 .. h - 1 /\ ~Tx(c, h - 1).enp
                      /\ Tx(c, h - 1).unit[1] = gvn /\ Tx(c, h - 1).unit[2] = bld
                      /\ bld <= h /\ g < gvn
    OBVIOUS
  <2>1. h > 0 /\ h - 1 \in 0 .. h - 1  BY <1>1 DEF TxBuilding
  <2>2. ~Tx(c, h - 1).enp /\ Tx(c, h - 1).unit[1] = gvn /\ Tx(c, h - 1).unit[2] = bld
    BY <1>1, <2>1 DEF TxBuilding
  <2>3. TxUnit(Tx(c, h - 1), h - 1, g, gvn)  BY <1>8, <2>1
  <2>4. bld <= (h - 1) + 1 /\ g < gvn  BY <2>2, <2>3 DEF TxUnit
  <2> QED  BY <2>1, <2>2, <2>4
<1>11. gvn2 \in Nat /\ gvn <= gvn2 /\ g < gvn2 /\ bld <= h  BY <1>0, <1>10
<1>12. TxUnit(d, h, g, gvn2)
  <2>1. bld = 0 <=> bld + 1 = 1  BY <1>0
  <2>2. 1 <= bld + 1 /\ bld + 1 <= h + 1 /\ gvn2 <= gvn2  BY <1>0, <1>11
  <2> QED  BY <1>11, <2>1, <2>2 DEF TxUnit
<1>13. ASSUME NEW j \in 0 .. (h + 1) - 1  PROVE TxUnit(Tx(e, j), j, g, gvn2)
  <2>1. CASE j = h  BY <1>9, <1>12, <2>1
  <2>2. CASE j # h
    <3>1. j \in 0 .. h - 1  BY <2>2
    <3>2. TxUnit(Tx(c, j), j, g, gvn) /\ Tx(c, j).unit[1] \in Nat  BY <1>6, <1>8, <3>1
    <3>3. Tx(c, j).unit[1] <= gvn2  BY <1>0, <1>11, <3>2 DEF TxUnit
    <3> QED  BY <1>8, <3>1, <3>2, <3>3 DEF TxUnit
  <2> QED  BY <2>1, <2>2
<1>14. ASSUME NEW j \in 1 .. (h + 1) - 1  PROVE Tx(e, j).stp <=> Tx(e, j - 1).enp
  <2>1. CASE j = h
    <3>1. h > 0 /\ h - 1 \in 0 .. h - 1  BY <2>1
    <3>2. Tx(c, h - 1).enp <=> bld = 0  BY <1>1, <3>1 DEF TxBuilding
    <3> QED  BY <1>8, <1>9, <2>1, <3>1, <3>2
  <2>2. CASE j # h
    <3>1. j \in 1 .. h - 1 /\ j \in 0 .. h - 1 /\ j - 1 \in 0 .. h - 1  BY <2>2
    <3>2. Tx(c, j).stp <=> Tx(c, j - 1).enp  BY <1>1, <3>1 DEF TxUnits
    <3> QED  BY <1>8, <3>1, <3>2
  <2> QED  BY <2>1, <2>2
<1>15. ASSUME NEW i \in 0 .. h  PROVE TxBefore(Tx(e, i), i, d, h)
  <2>1. CASE i = h
    <3>1. h - d.unit[2] < i /\ d.unit[2] - (h - i) = d.unit[2] /\ ~(i < h)  BY <1>0, <2>1
    <3> QED  BY <1>9, <2>1, <3>1 DEF TxBefore
  <2>2. CASE i # h
    <3>0. i \in 0 .. h - 1 /\ Tx(e, i) = Tx(c, i) /\ Tx(c, i).unit[1] \in Nat
      BY <1>6, <1>8, <2>2
    <3>1. CASE bld = 0
      <4>1. ~(h - d.unit[2] < i)  BY <3>0, <3>1
      <4>2. Tx(c, i).unit[1] <= gvn  BY <1>8, <3>0 DEF TxUnit
      <4>3. Tx(c, i).unit[1] < d.unit[1]  BY <1>0, <3>0, <3>1, <4>2
      <4> QED  BY <3>0, <4>1, <4>3 DEF TxBefore
    <3>2. CASE bld # 0
      <4>1. TxBefore(Tx(c, i), i, Tx(c, h - 1), h - 1)
        <5>1. h - 1 \in 0 .. h - 1 /\ i \in 0 .. h - 1  BY <1>10, <3>0, <3>2
        <5> QED  BY <1>1, <5>1 DEF TxUnits
      <4>2. /\ h - (bld + 1) < i <=> (h - 1) - bld < i
            /\ (bld + 1) - (h - i) = bld - ((h - 1) - i)
            /\ i < h - 1 \/ i = h - 1
        BY <1>0, <3>0
      <4>3. /\ d.unit[1] = gvn /\ Tx(c, h - 1).unit[1] = gvn /\ Tx(c, h - 1).unit[2] = bld
            /\ ~Tx(c, h - 1).enp
        BY <1>10, <3>2
      <4>4. CASE (h - 1) - bld < i
        <5>1. /\ Tx(c, i).unit[1] = gvn /\ Tx(c, i).unit[2] = bld - ((h - 1) - i)
              /\ i < h - 1 => ~Tx(c, i).enp
          BY <4>1, <4>3, <4>4 DEF TxBefore
        <5>2. ~Tx(c, i).enp  BY <4>2, <4>3, <5>1
        <5> QED  BY <3>0, <4>2, <4>3, <4>4, <5>1, <5>2 DEF TxBefore
      <4>5. CASE ~((h - 1) - bld < i)
        <5>1. Tx(c, i).unit[1] < gvn  BY <4>1, <4>3, <4>5 DEF TxBefore
        <5> QED  BY <3>0, <4>2, <4>3, <4>5, <5>1 DEF TxBefore
      <4> QED  BY <4>4, <4>5
    <3> QED  BY <3>1, <3>2
  <2> QED  BY <2>1, <2>2
<1>16. ASSUME NEW j \in 0 .. (h + 1) - 1, NEW i \in 0 .. j
       PROVE  TxBefore(Tx(e, i), i, Tx(e, j), j)
  <2>1. CASE j = h  BY <1>9, <1>15, <2>1
  <2>2. CASE j # h
    <3>1. j \in 0 .. h - 1 /\ i \in 0 .. h - 1  BY <2>2
    <3>2. TxBefore(Tx(c, i), i, Tx(c, j), j)  BY <1>1, <3>1 DEF TxUnits
    <3> QED  BY <1>8, <3>1, <3>2
  <2> QED  BY <2>1, <2>2
<1>17. TxUnits(e, h + 1, g, gvn2)  BY <1>13, <1>14, <1>16 DEF TxUnits
<1>18. TxBuilding(e, h + 1, bld2, gvn2)
  <2>1. h + 1 # 0 /\ h + 1 > 0 /\ (h + 1) - 1 = h /\ bld + 1 # 0  BY <1>0
  <2>2. (d.enp <=> bld2 = 0) /\ (bld2 # 0 => bld2 = bld + 1)  BY <2>1
  <2> QED  BY <1>9, <2>1, <2>2 DEF TxBuilding
<1>19. h + 1 \in 0 .. TxLen  BY <1>0, <1>3
<1> QED  BY <1>7, <1>17, <1>18, <1>19 DEF TxOk

\* The guest hands a transmit descriptor over.
LEMMA GiveStep ==
  ASSUME IInv, GuestGive
  PROVE  IInv'
<1>1. TypeInv /\ ControlInv /\ ReceivedWhole /\ ReceiveInv /\ TransmitInv  BY DEF IInv
<1>2. /\ card \in Card /\ giveAt \in 0 .. TxLen - 1 /\ building \in Nat /\ given \in Nat
  BY <1>1 DEF TypeInv
<1>3. /\ rings = "used" /\ "STOP" \notin card.csr0 /\ ~card.tx[giveAt].own
      /\ given' = IF building = 0 THEN given + 1 ELSE given
      /\ giveAt' = Past(giveAt, 1, TxLen)
      /\ UNCHANGED <<takeAt, partial, delivered, isr, seen, starts, rings>>
      /\ UNCHANGED <<arrived, wire>>
  BY DEF GuestGive, host
<1>4. PICK enp \in BOOLEAN, full \in BOOLEAN :
        /\ building + 1 = TxLen => enp
        /\ card' = [card EXCEPT !.tx[giveAt] =
             [own |-> TRUE, stp |-> (building = 0), enp |-> enp, err |-> FALSE,
              full |-> full,
              unit |-> <<IF building = 0 THEN given + 1 ELSE given, building + 1,
                         IF enp THEN building + 1 ELSE 0>>]]
        /\ building' = IF enp THEN 0 ELSE building + 1
  BY DEF GuestGive
<1> DEFINE s == building = 0
           u == <<given', building + 1, IF enp THEN building + 1 ELSE 0>>
           d == [own |-> TRUE, stp |-> s, enp |-> enp, err |-> FALSE, full |-> full, unit |-> u]
           tx == [card.tx EXCEPT ![giveAt] = d]
           e == [card EXCEPT !.tx = tx]
<1>5. card' = e  BY <1>3, <1>4
<1>6. given' \in Nat /\ given <= given' /\ s \in BOOLEAN  BY <1>2, <1>3
<1>7. u \in Unit /\ u[1] = given' /\ u[2] = building + 1 /\ (enp => u[3] = building + 1)
  <2>1. building + 1 \in Nat  BY <1>2
  <2> QED  BY <1>6, <2>1 DEF Unit
<1> HIDE DEF s, u
<1>8. d \in TxDescriptor  BY <1>6, <1>7 DEF TxDescriptor
<1>9. /\ d.own /\ (d.stp <=> s) /\ (d.enp <=> enp) /\ d.unit = u
  BY <1>6
<1> HIDE DEF d
<1>10. tx \in [0 .. TxLen - 1 -> TxDescriptor]  BY <1>2, <1>8 DEF Card
<1> HIDE DEF tx
<1>11. /\ e \in Card /\ e.csr0 = card.csr0 /\ e.rx = card.rx /\ e.rxAt = card.rxAt
       /\ e.tx = tx /\ e.txAt = card.txAt
       /\ e.pending = card.pending /\ e.sent = card.sent
       /\ e.rxPackets = card.rxPackets /\ e.dropped = card.dropped
  <2>1. e \in Card  BY <1>2, <1>10 DEF Card
  <2> QED  BY <1>2, <2>1 DEF Card
<1> HIDE DEF e
<1>12. /\ Ready = card /\ Ready' = e /\ LastDelivered' = LastDelivered /\ Outgoing' = Outgoing
  BY <1>3, <1>5, <1>11 DEF Ready, LastDelivered, Outgoing
<1>13. TypeInv'
  <2>1. giveAt' \in 0 .. TxLen - 1
    <3>1. TxLen \in Nat \ {0} /\ 1 \in 0 .. TxLen  BY Lengths
    <3> QED  BY <1>2, <1>3, <3>1, PastFacts
  <2>2. building' \in Nat  BY <1>2, <1>4
  <2> QED  BY <1>1, <1>3, <1>5, <1>6, <1>11, <2>1, <2>2 DEF TypeInv
<1>14. ControlInv'  BY <1>1, <1>3, <1>5, <1>11 DEF ControlInv
<1>15. ReceivedWhole'  BY <1>1, <1>3 DEF ReceivedWhole
<1>16. ReceiveInv'
  <2>1. RxOk(card, takeAt, partial, LastDelivered, arrived)  BY <1>1, <1>12 DEF ReceiveInv
  <2>2. RxOk(e, takeAt, partial, LastDelivered, arrived)  BY <1>11, <2>1, RxOkSame
  <2>3. RxOk(Ready', takeAt', partial', LastDelivered', arrived')  BY <1>3, <1>12, <2>2
  <2>4. (\A k \in 1 .. Len(delivered) : delivered[k] # << >>)'  BY <1>1, <1>3 DEF ReceiveInv
  <2>5. (isr = "idle" => Waking(card))'
    <3>1. isr = "idle" => Waking(card)  BY <1>1 DEF ReceiveInv
    <3> QED  BY <1>3, <1>5, <1>11, <3>1 DEF Waking
  <2> QED  BY <2>3, <2>4, <2>5 DEF ReceiveInv
<1>17. TransmitInv'
  <2>1. PICK g \in 0 .. given :
          /\ SentUpTo(Outgoing, g)
          /\ arrived <= Counted(card) /\ Counted(card) <= arrived + g
          /\ rings # "faulted" /\ On(card.csr0) => TxOk(Ready, giveAt, building, given, g)
    BY <1>1 DEF TransmitInv
  <2>2. Counted(e) = Counted(card)  BY <1>11 DEF Counted
  <2>3. On(card.csr0) => TxOk(e, giveAt', building', given', g)
    <3> SUFFICES ASSUME On(card.csr0)  PROVE TxOk(e, giveAt', building', given', g)
      OBVIOUS
    <3>1. TxOk(card, giveAt, building, given, g)  BY <1>3, <1>12, <2>1
    <3>2. /\ building + 1 = TxLen => d.enp
          /\ d.stp <=> building = 0
          /\ d.unit[1] = given' /\ d.unit[2] = building + 1
          /\ d.enp => d.unit[3] = building + 1
          /\ building' = IF d.enp THEN 0 ELSE building + 1
      BY <1>4, <1>7, <1>9 DEF s
    <3>3. e.tx = [card.tx EXCEPT ![giveAt] = d]  BY <1>11 DEF tx
    <3> DEFINE g2 == given'
               b2 == building'
               a2 == giveAt'
    <3>4. /\ d.unit[1] = g2 /\ g2 = IF building = 0 THEN given + 1 ELSE given
          /\ b2 = IF d.enp THEN 0 ELSE building + 1
          /\ a2 = Past(giveAt, 1, TxLen)
      BY <1>3, <3>2
    <3> HIDE DEF g2, b2, a2
    <3>5. TxOk(e, Past(giveAt, 1, TxLen), b2, g2, g)
      BY <1>2, <1>3, <1>8, <1>9, <1>11, <3>1, <3>2, <3>3, <3>4, Handed
    <3> QED  BY <3>4, <3>5 DEF g2, b2, a2
  <2>4. g \in 0 .. given'  BY <1>2, <1>6
  <2>5. /\ SentUpTo(Outgoing', g)
        /\ arrived' <= Counted(card') /\ Counted(card') <= arrived' + g
        /\ rings' # "faulted" /\ On(card'.csr0) =>
             TxOk(Ready', giveAt', building', given', g)
    BY <1>3, <1>5, <1>11, <1>12, <2>1, <2>2, <2>3
  <2> QED  BY <2>4, <2>5 DEF TransmitInv
<1> QED  BY <1>13, <1>14, <1>15, <1>16, <1>17 DEF IInv

\* The ring from the next place on, once the descriptor at the guest's place is handed back.
LEMMA Taken ==
  ASSUME NEW c \in Card, NEW e \in Card, NEW at \in 0 .. RxLen - 1, NEW f \in 1 .. RxLen,
         RxPlaced(c, at, f), e.rx = [c.rx EXCEPT ![at] = RxFree], e.rxAt = c.rxAt
  PROVE  /\ RxPlaced(e, Past(at, 1, RxLen), f - 1)
         /\ \A j \in 0 .. (f - 1) - 1 : Rx(e, Past(at, 1, RxLen), j) = Rx(c, at, j + 1)
<1> DEFINE n == RxLen
           q == Past(at, 1, n)
<1>0. n \in Nat \ {0} /\ at \in 0 .. n - 1 /\ 1 \in 0 .. n /\ f \in 1 .. n  BY Lengths
<1>1. c.rx \in [0 .. n - 1 -> RxDescriptor] /\ RxFree.own  BY DEF Card, RxFree
<1> HIDE DEF n
<1>2. ASSUME NEW j \in 0 .. n, 1 + j <= n  PROVE Past(q, j, n) = Past(at, 1 + j, n)
  BY <1>0, <1>2, PastPast
<1>3. Past(at, 0, n) = at /\ Past(at, n, n) = at  BY <1>0, PastRound
<1>4. ASSUME NEW j \in 0 .. n - 1
      PROVE  Rx(e, q, j) = IF j = n - 1 THEN RxFree ELSE Rx(c, at, j + 1)
  <2>1. j \in 0 .. n /\ 1 + j <= n /\ 1 + j = j + 1  BY <1>0
  <2>2. Past(q, j, n) = Past(at, j + 1, n)  BY <1>2, <2>1
  <2>3. CASE j = n - 1
    <3>1. Past(q, j, n) = at  BY <1>0, <1>3, <2>2, <2>3
    <3>2. e.rx[at] = RxFree  BY <1>0, <1>1
    <3> QED  BY <2>3, <3>1, <3>2 DEF Rx, n
  <2>4. CASE j # n - 1
    <3>1. j + 1 \in 0 .. n - 1 /\ 0 \in 0 .. n - 1 /\ j + 1 # 0  BY <1>0, <2>4
    <3>2. Past(at, j + 1, n) # at
      <4>1. Past(at, j + 1, n) = Past(at, 0, n) => j + 1 = 0  BY <1>0, <3>1, PastFacts
      <4> QED  BY <1>3, <3>1, <4>1
    <3>3. Past(at, j + 1, n) \in 0 .. n - 1
      <4>1. j + 1 \in 0 .. n  BY <1>0, <3>1
      <4> QED  BY <1>0, <4>1, PastFacts
    <3> DEFINE p == Past(at, j + 1, n)
    <3>4. p \in 0 .. n - 1 /\ p # at  BY <3>2, <3>3
    <3> HIDE DEF p
    <3>5. e.rx[p] = c.rx[p]  BY <1>1, <3>4
    <3> QED  BY <2>2, <2>4, <3>5 DEF Rx, n, p
  <2> QED  BY <2>3, <2>4
<1>5. RxPlaced(e, q, f - 1)
  <2>1. e.rxAt = Past(q, f - 1, n)
    <3>1. f - 1 \in 0 .. n /\ 1 + (f - 1) <= n /\ 1 + (f - 1) = f  BY <1>0
    <3>2. Past(q, f - 1, n) = Past(at, f, n)  BY <1>2, <3>1
    <3> QED  BY <3>2 DEF RxPlaced, n
  <2>2. ASSUME NEW j \in 0 .. n - 1  PROVE Rx(e, q, j).own <=> j >= f - 1
    <3>1. CASE j = n - 1
      <4>1. j >= f - 1  BY <1>0, <3>1
      <4> QED  BY <1>1, <1>4, <3>1, <4>1
    <3>2. CASE j # n - 1
      <4>1. j + 1 \in 0 .. n - 1 /\ (j + 1 >= f <=> j >= f - 1)  BY <1>0, <3>2
      <4>2. Rx(c, at, j + 1).own <=> j + 1 >= f  BY <4>1 DEF RxPlaced, n
      <4> QED  BY <1>4, <3>2, <4>1, <4>2
    <3> QED  BY <3>1, <3>2
  <2> QED  BY <2>1, <2>2 DEF RxPlaced, n
<1>6. ASSUME NEW j \in 0 .. (f - 1) - 1  PROVE Rx(e, q, j) = Rx(c, at, j + 1)
  <2>1. j \in 0 .. n - 1 /\ j # n - 1  BY <1>0
  <2> QED  BY <1>4, <2>1
<1> QED  BY <1>5, <1>6 DEF q, n

\* All that follows a frame's end in the ring is of later frames.
LEMMA Onward ==
  ASSUME NEW c \in Card, NEW at \in 0 .. RxLen - 1, NEW f \in 1 .. RxLen, NEW last, NEW top,
         RxUnits(c, at, f, last, top), Rx(c, at, 0).enp
  PROVE  \A j \in 1 .. f - 1 : Rx(c, at, 0).unit[1] < Rx(c, at, j).unit[1]
<1> DEFINE x == Rx(c, at, 0).unit[1]
           T == {j \in Nat : j + 1 <= f - 1 => x < Rx(c, at, j + 1).unit[1]}
<1>0. /\ \A j \in 0 .. f - 1 : j \in 0 .. RxLen - 1
      /\ f \in Nat
  BY Lengths
<1>1. \A j \in 0 .. f - 1 : /\ Rx(c, at, j).unit[1] \in Nat /\ Rx(c, at, j).unit[2] \in Nat
                            /\ Rx(c, at, j).unit[3] \in Nat
  BY <1>0, RxTypes
<1>2. 0 \in T
  <2> SUFFICES ASSUME 1 <= f - 1  PROVE x < Rx(c, at, 1).unit[1]
    OBVIOUS
  <2>1. 1 \in 1 .. f - 1 /\ 1 - 1 = 0 /\ 0 \in 0 .. f - 1 /\ 1 \in 0 .. f - 1  BY <1>0
  <2>2. Follows(Rx(c, at, 1 - 1).unit, Rx(c, at, 1))  BY <2>1 DEF RxUnits
  <2>3. Follows(Rx(c, at, 0).unit, Rx(c, at, 1))  BY <2>1, <2>2
  <2>4. RxUnit(Rx(c, at, 0), last, top) /\ RxUnit(Rx(c, at, 1), last, top)
    BY <2>1 DEF RxUnits
  <2>5. CASE Rx(c, at, 1).stp  BY <2>3, <2>5 DEF Follows
  <2>6. CASE ~Rx(c, at, 1).stp
    <3> DEFINE u == Rx(c, at, 0).unit
               v == Rx(c, at, 1).unit
    <3>1. v = <<u[1], u[2] + 1, u[3]>>  BY <2>3, <2>6 DEF Follows
    <3>2. u[2] = u[3] /\ v[2] <= v[3]  BY <2>4 DEF RxUnit
    <3>3. u[2] \in Nat  BY <1>1, <2>1
    <3> HIDE DEF u, v
    <3>4. v[2] = u[2] + 1 /\ v[3] = u[3]  BY <3>1
    <3>5. FALSE  BY <3>2, <3>3, <3>4
    <3> QED  BY <3>5
  <2> QED  BY <2>5, <2>6
<1>3. ASSUME NEW j \in Nat, j \in T  PROVE j + 1 \in T
  <2> SUFFICES ASSUME (j + 1) + 1 <= f - 1  PROVE x < Rx(c, at, (j + 1) + 1).unit[1]
    OBVIOUS
  <2> DEFINE k == j + 1
  <2>1. k + 1 \in 1 .. f - 1 /\ (k + 1) - 1 = k /\ k \in 0 .. f - 1 /\ k + 1 \in 0 .. f - 1
        /\ j + 1 <= f - 1 /\ 0 \in 0 .. f - 1
    BY <1>0
  <2>2. x < Rx(c, at, k).unit[1]  BY <1>3, <2>1
  <2> HIDE DEF k
  <2>3. Follows(Rx(c, at, (k + 1) - 1).unit, Rx(c, at, k + 1))  BY <2>1 DEF RxUnits
  <2>4. Follows(Rx(c, at, k).unit, Rx(c, at, k + 1))  BY <2>1, <2>3
  <2>5. /\ x \in Nat /\ Rx(c, at, k).unit[1] \in Nat /\ Rx(c, at, k + 1).unit[1] \in Nat
    BY <1>1, <2>1
  <2> HIDE DEF x
  <2>6. Rx(c, at, k).unit[1] <= Rx(c, at, k + 1).unit[1]
    <3>1. CASE Rx(c, at, k + 1).stp  BY <2>4, <2>5, <3>1 DEF Follows
    <3>2. CASE ~Rx(c, at, k + 1).stp
      <4>1. Rx(c, at, k + 1).unit[1] = Rx(c, at, k).unit[1]  BY <2>4, <3>2 DEF Follows
      <4> QED  BY <2>5, <4>1
    <3> QED  BY <3>1, <3>2
  <2>7. x < Rx(c, at, k + 1).unit[1]  BY <2>2, <2>5, <2>6
  <2> QED  BY <2>7 DEF k
<1> HIDE DEF T
<1>4. Nat \subseteq T  BY <1>2, <1>3, Induction
<1>5. ASSUME NEW j \in 1 .. f - 1  PROVE x < Rx(c, at, j).unit[1]
  <2>1. j - 1 \in Nat /\ (j - 1) + 1 = j /\ j <= f - 1  BY <1>0
  <2>2. j - 1 \in T  BY <1>4, <2>1
  <2> QED  BY <2>1, <2>2 DEF T
<1> QED  BY <1>5

\* What is left in the ring is in order, and continues what the guest holds.
LEMMA RestKeeps ==
  ASSUME NEW c \in Card, NEW e \in Card, NEW at \in 0 .. RxLen - 1, NEW f \in 1 .. RxLen,
         NEW last \in Nat, NEW top \in Nat, RxUnits(c, at, f, last, top), NEW p,
         \A j \in 0 .. (f - 1) - 1 : Rx(e, p, j) = Rx(c, at, j + 1),
         NEW last2, last2 = last \/ (Rx(c, at, 0).enp /\ last2 = Rx(c, at, 0).unit[1]),
         NEW part2,
         part2 # << >> =>
           /\ \A i \in 1 .. Len(part2) : part2[i] = <<part2[1][1], i, part2[1][3]>>
           /\ Len(part2) < part2[1][3] /\ last2 < part2[1][1] /\ part2[1][1] <= top
           /\ part2[Len(part2)] = Rx(c, at, 0).unit
  PROVE  RxUnits(e, p, f - 1, last2, top) /\ RxBegun(e, p, part2, f - 1, last2, top)
<1>0. f \in Nat /\ \A j \in 0 .. (f - 1) - 1 : j + 1 \in 1 .. f - 1 /\ j + 1 \in 0 .. f - 1
  OBVIOUS
<1>1. ASSUME NEW j \in 0 .. (f - 1) - 1  PROVE RxUnit(Rx(e, p, j), last2, top)
  <2>1. RxUnit(Rx(c, at, j + 1), last, top)  BY <1>0 DEF RxUnits
  <2>2. last2 < Rx(c, at, j + 1).unit[1]
    <3>1. CASE last2 = last  BY <2>1, <3>1 DEF RxUnit
    <3>2. CASE Rx(c, at, 0).enp /\ last2 = Rx(c, at, 0).unit[1]
      BY <1>0, <3>2, Onward
    <3> QED  BY <3>1, <3>2
  <2> QED  BY <2>1, <2>2 DEF RxUnit
<1>2. ASSUME NEW j \in 1 .. (f - 1) - 1  PROVE Follows(Rx(e, p, j - 1).unit, Rx(e, p, j))
  <2>1. /\ j \in 0 .. (f - 1) - 1 /\ j - 1 \in 0 .. (f - 1) - 1 /\ (j - 1) + 1 = j
        /\ j + 1 \in 1 .. f - 1 /\ (j + 1) - 1 = j
    BY <1>0
  <2>2. Follows(Rx(c, at, (j + 1) - 1).unit, Rx(c, at, j + 1))  BY <2>1 DEF RxUnits
  <2>3. Rx(e, p, j - 1) = Rx(c, at, j) /\ Rx(e, p, j) = Rx(c, at, j + 1)
    <3>1. Rx(e, p, j - 1) = Rx(c, at, (j - 1) + 1)  BY <2>1
    <3> QED  BY <2>1, <3>1
  <2> QED  BY <2>1, <2>2, <2>3
<1>3. RxUnits(e, p, f - 1, last2, top)  BY <1>1, <1>2 DEF RxUnits
<1>4. ASSUME f - 1 > 0  PROVE Follows(Rx(c, at, 0).unit, Rx(e, p, 0))
  <2>1. 1 \in 1 .. f - 1 /\ 1 - 1 = 0 /\ 0 \in 0 .. (f - 1) - 1 /\ 0 + 1 = 1  BY <1>0, <1>4
  <2>2. Follows(Rx(c, at, 1 - 1).unit, Rx(c, at, 1))  BY <2>1 DEF RxUnits
  <2>3. Rx(e, p, 0) = Rx(c, at, 0 + 1)  BY <2>1
  <2> QED  BY <2>1, <2>2, <2>3
<1>5. RxBegun(e, p, part2, f - 1, last2, top)  BY <1>4 DEF RxBegun
<1> QED  BY <1>3, <1>5

\* The units of a frame as the guest puts them together, with that of the descriptor d.
LEMMA UnitsAre ==
  ASSUME NEW part \in Seq(Unit), NEW d \in RxDescriptor, NEW last, NEW top, RxUnit(d, last, top),
         part # << >> =>
           /\ \A i \in 1 .. Len(part) : part[i] = <<part[1][1], i, part[1][3]>>
           /\ Follows(part[Len(part)], d),
         NEW units,
         d.stp => units = <<d.unit>>,
         ~d.stp /\ part # << >> => units = Append(part, d.unit),
         ~d.stp /\ part = << >> => units = << >>
  PROVE  /\ units \in Seq(Unit)
         /\ units # << >> =>
              /\ Len(units) = d.unit[2] /\ units[1][1] = d.unit[1] /\ units[1][3] = d.unit[3]
              /\ units[Len(units)] = d.unit
              /\ \A i \in 1 .. Len(units) : units[i] = <<d.unit[1], i, d.unit[3]>>
<1> DEFINE u == d.unit
<1>0. u \in Unit  BY DEF RxDescriptor
<1>1. u[1] \in Nat /\ u[2] \in Nat /\ u[3] \in Nat /\ u = <<u[1], u[2], u[3]>>
  BY <1>0 DEF Unit
<1>2. d.stp <=> u[2] = 1  BY DEF RxUnit
<1>3. CASE d.stp
  <2> HIDE DEF u
  <2>1. units = <<u>>  BY <1>3 DEF u
  <2>2. units \in Seq(Unit) /\ Len(units) = 1 /\ units[1] = u /\ units # << >>
    BY <1>0, <2>1
  <2>3. \A i \in 1 .. Len(units) : units[i] = <<u[1], i, u[3]>>  BY <1>1, <1>2, <1>3, <2>2
  <2> QED  BY <1>2, <1>3, <2>2, <2>3 DEF u
<1>4. CASE ~d.stp /\ part # << >>
  <2> DEFINE n == Len(part)
             v == part[1]
  <2>1. n \in Nat /\ n > 0 /\ n \in 1 .. n /\ 1 \in 1 .. n  BY <1>4
  <2>2. \A i \in 1 .. n : part[i] = <<v[1], i, v[3]>>  BY <1>4
  <2>3. u = <<part[n][1], part[n][2] + 1, part[n][3]>>  BY <1>4 DEF Follows
  <2>4. part[n] = <<v[1], n, v[3]>>  BY <2>1, <2>2
  <2> HIDE DEF v, u, n
  <2>5. u[1] = v[1] /\ u[2] = n + 1 /\ u[3] = v[3]  BY <2>3, <2>4
  <2>6. units = Append(part, u)  BY <1>4 DEF u
  <2>7. units \in Seq(Unit) /\ Len(units) = n + 1 /\ units[n + 1] = u
        /\ \A i \in 1 .. n : units[i] = part[i]
    BY <1>0, <2>6 DEF n
  <2>8. ASSUME NEW i \in 1 .. n + 1  PROVE units[i] = <<u[1], i, u[3]>>
    <3>1. CASE i = n + 1  BY <1>1, <2>5, <2>7, <3>1
    <3>2. CASE i \in 1 .. n  BY <2>2, <2>5, <2>7, <3>2
    <3> QED  BY <2>1, <3>1, <3>2
  <2>9. units[1] = <<u[1], 1, u[3]>>
    <3>1. 1 \in 1 .. n + 1  BY <2>1
    <3> QED  BY <2>8, <3>1
  <2> QED  BY <2>5, <2>7, <2>8, <2>9 DEF u
<1>5. CASE ~d.stp /\ part = << >>
  <2>1. units = << >>  BY <1>5
  <2> QED  BY <2>1
<1> QED  BY <1>3, <1>4, <1>5

\* The handler takes a received descriptor, or meets one of the device.
LEMMA TakeStep ==
  ASSUME IInv, IsrTake
  PROVE  IInv'
<1> DEFINE d == card.rx[takeAt]
           units == CASE d.stp                      -> <<d.unit>>
                      [] ~d.stp /\ partial # << >> -> Append(partial, d.unit)
                      [] ~d.stp /\ partial = << >> -> << >>
<1>1. TypeInv /\ ControlInv /\ ReceivedWhole /\ ReceiveInv /\ TransmitInv  BY DEF IInv
<1>2. /\ card \in Card /\ takeAt \in 0 .. RxLen - 1 /\ partial \in Seq(Unit)
      /\ delivered \in Seq(Seq(Unit)) /\ arrived \in Nat /\ LastDelivered \in Nat
  BY <1>1, LastIs DEF TypeInv
<1>3. /\ isr = "drain"
      /\ \/ /\ d.own
            /\ isr' = "idle"
            /\ UNCHANGED <<card, takeAt, partial, delivered>>
         \/ /\ ~d.own
            /\ card' = [card EXCEPT !.rx[takeAt] = RxFree]
            /\ takeAt' = Past(takeAt, 1, RxLen)
            /\ partial' = IF d.err \/ d.enp THEN << >> ELSE units
            /\ delivered' = IF d.enp /\ ~d.err /\ units # << >> THEN Append(delivered, units)
                                                                ELSE delivered
            /\ UNCHANGED isr
      /\ UNCHANGED <<giveAt, building, given, seen, starts, rings>>
      /\ UNCHANGED <<arrived, wire>>
  BY DEF IsrTake, host
<1>4. rings # "prepared" /\ rings' # "prepared"  BY <1>1, <1>3 DEF ControlInv
<1>5. Ready = card /\ Ready' = card'  BY <1>4 DEF Ready
<1>6. PICK f \in 0 .. RxLen, top \in LastDelivered .. arrived :
        /\ RxPlaced(card, takeAt, f) /\ RxUnits(card, takeAt, f, LastDelivered, top)
        /\ RxBegun(card, takeAt, partial, f, LastDelivered, top)
        /\ RxPending(card, top, arrived)
  BY <1>1, <1>5 DEF ReceiveInv, RxOk
<1>7. 0 \in 0 .. RxLen - 1 /\ RxLen \in Nat \ {0}  BY Lengths
<1>8. Past(takeAt, 0, RxLen) = takeAt  BY <1>2, <1>7, PastRound
<1>9. Rx(card, takeAt, 0) = d  BY <1>8 DEF Rx
<1>10. d.own <=> 0 >= f  BY <1>6, <1>7, <1>9 DEF RxPlaced
<1>11. d.stp => units = <<d.unit>>  OBVIOUS
<1>12. ~d.stp /\ partial # << >> => units = Append(partial, d.unit)  OBVIOUS
<1>13. ~d.stp /\ partial = << >> => units = << >>  OBVIOUS
<1> HIDE DEF d, units
<1>14. CASE d.own
  <2>1. isr' = "idle" /\ UNCHANGED <<card, takeAt, partial, delivered>>  BY <1>3, <1>14
  <2>2. Waking(card)
    <3>1. f = 0  BY <1>7, <1>10, <1>14
    <3>2. ASSUME NEW i \in 0 .. RxLen - 1  PROVE card.rx[i].own
      <4> DEFINE j == Past(i, RxLen - takeAt, RxLen)
      <4>1. j \in 0 .. RxLen - 1 /\ Past(takeAt, j, RxLen) = i  BY <1>2, <1>7, PastFacts
      <4> HIDE DEF j
      <4>2. Rx(card, takeAt, j).own <=> j >= f  BY <1>6, <4>1 DEF RxPlaced
      <4>3. j >= f  BY <1>7, <3>1, <4>1
      <4> QED  BY <4>1, <4>2, <4>3 DEF Rx
    <3> QED  BY <3>2 DEF Waking
  <2>3. LastDelivered' = LastDelivered /\ Outgoing' = Outgoing /\ Ready' = Ready
    BY <1>3, <1>5, <2>1 DEF LastDelivered, Outgoing
  <2>4. TypeInv'  BY <1>1, <1>3, <2>1 DEF TypeInv
  <2>5. ControlInv'  BY <1>1, <1>3, <1>4, <2>1 DEF ControlInv
  <2>6. ReceivedWhole'  BY <1>1, <2>1 DEF ReceivedWhole
  <2>7. ReceiveInv'
    <3>1. Waking(card)'  BY <2>1, <2>2 DEF Waking
    <3> QED  BY <1>1, <1>3, <2>1, <2>3, <3>1 DEF ReceiveInv
  <2>8. TransmitInv'  BY <1>1, <1>3, <2>1, <2>3 DEF TransmitInv
  <2> QED  BY <2>4, <2>5, <2>6, <2>7, <2>8 DEF IInv
<1>15. CASE ~d.own
  <2>1. /\ card' = [card EXCEPT !.rx[takeAt] = RxFree]
        /\ takeAt' = Past(takeAt, 1, RxLen)
        /\ partial' = IF d.err \/ d.enp THEN << >> ELSE units
        /\ delivered' = IF d.enp /\ ~d.err /\ units # << >> THEN Append(delivered, units)
                                                            ELSE delivered
        /\ isr' = "drain"
    BY <1>3, <1>15
  <2>2. f \in 1 .. RxLen /\ f > 0  BY <1>7, <1>10, <1>15
  <2>3. d \in RxDescriptor /\ d.unit \in Unit
    <3>1. d \in RxDescriptor  BY <1>2, <1>7, <1>9, RxTypes
    <3> QED  BY <3>1 DEF RxDescriptor
  <2>4. d.unit[1] \in Nat /\ d.unit[2] \in Nat /\ d.unit[3] \in Nat  BY <2>3 DEF Unit
  <2>5. RxUnit(d, LastDelivered, top)
    <3>1. 0 \in 0 .. f - 1  BY <2>2
    <3> QED  BY <1>6, <1>9, <3>1 DEF RxUnits
  <2>6. partial # << >> =>
          /\ \A i \in 1 .. Len(partial) : partial[i] = <<partial[1][1], i, partial[1][3]>>
          /\ Follows(partial[Len(partial)], d)
    BY <1>6, <1>9, <2>2 DEF RxBegun
  <2>7. /\ units \in Seq(Unit)
        /\ units # << >> =>
             /\ Len(units) = d.unit[2] /\ units[1][1] = d.unit[1] /\ units[1][3] = d.unit[3]
             /\ units[Len(units)] = d.unit
             /\ \A i \in 1 .. Len(units) : units[i] = <<d.unit[1], i, d.unit[3]>>
    BY <1>2, <1>11, <1>12, <1>13, <2>3, <2>5, <2>6, UnitsAre
  <2> DEFINE new == d.enp /\ ~d.err /\ units # << >>
             last == IF new THEN d.unit[1] ELSE LastDelivered
             part == IF d.err \/ d.enp THEN << >> ELSE units
  <2>8. LastDelivered' = last
    <3>1. CASE new
      <4> DEFINE n == Len(delivered)
      <4>1. delivered' = Append(delivered, units)  BY <2>1, <3>1
      <4>2. delivered' # << >> /\ Len(delivered') = n + 1 /\ delivered'[n + 1] = units
        <5> DEFINE s == delivered
        <5>1. s \in Seq(Seq(Unit)) /\ units \in Seq(Unit)  BY <1>2, <2>7
        <5> HIDE DEF s
        <5>2. /\ Append(s, units) # << >> /\ Len(Append(s, units)) = Len(s) + 1
              /\ Append(s, units)[Len(s) + 1] = units
          BY <5>1, AppendProperties
        <5> QED  BY <4>1, <5>2 DEF s
      <4>3. units[1][1] = d.unit[1]  BY <2>7, <3>1
      <4>4. LastDelivered' = units[1][1]
        <5>1. LastDelivered' = delivered'[Len(delivered')][1][1]
          BY <4>2 DEF LastDelivered
        <5> QED  BY <4>2, <5>1
      <4> QED  BY <3>1, <4>3, <4>4
    <3>2. CASE ~new
      <4>1. delivered' = delivered  BY <2>1, <3>2
      <4> QED  BY <3>2, <4>1 DEF LastDelivered
    <3> QED  BY <3>1, <3>2
  <2> DEFINE rx == [card.rx EXCEPT ![takeAt] = RxFree]
             e == [card EXCEPT !.rx = rx]
             p == Past(takeAt, 1, RxLen)
  <2>9. card' = e  BY <2>1
  <2>10. rx \in [0 .. RxLen - 1 -> RxDescriptor]
    <3>1. RxFree \in RxDescriptor  BY DEF RxFree, RxDescriptor, NoUnit, Unit
    <3> QED  BY <1>2, <3>1 DEF Card
  <2> HIDE DEF rx
  <2>11. /\ e \in Card /\ e.csr0 = card.csr0 /\ e.rx = rx /\ e.rxAt = card.rxAt
         /\ e.tx = card.tx /\ e.txAt = card.txAt
         /\ e.pending = card.pending /\ e.sent = card.sent
         /\ e.rxPackets = card.rxPackets /\ e.dropped = card.dropped
    <3>1. e \in Card  BY <1>2, <2>10 DEF Card
    <3> QED  BY <1>2, <3>1 DEF Card
  <2> HIDE DEF e
  <2>12. p \in 0 .. RxLen - 1
    <3>1. 1 \in 0 .. RxLen  BY <1>7
    <3> QED  BY <1>2, <1>7, <3>1, PastFacts
  <2>13. /\ RxPlaced(e, p, f - 1)
         /\ \A j \in 0 .. (f - 1) - 1 : Rx(e, p, j) = Rx(card, takeAt, j + 1)
    <3>1. e.rx = [card.rx EXCEPT ![takeAt] = RxFree]  BY <2>11 DEF rx
    <3> QED  BY <1>2, <1>6, <2>2, <2>11, <3>1, Taken
  <2> HIDE DEF p
  <2>14. top \in Nat /\ last \in LastDelivered .. top /\ top \in last .. arrived /\ last \in Nat
    <3>1. LastDelivered < d.unit[1] /\ d.unit[1] <= top  BY <2>5 DEF RxUnit
    <3>2. top \in Nat /\ LastDelivered <= top /\ top <= arrived  BY <1>2
    <3>3. CASE new  BY <1>2, <2>4, <3>1, <3>2, <3>3
    <3>4. CASE ~new  BY <1>2, <3>2, <3>4
    <3> QED  BY <3>3, <3>4
  <2>15. last = LastDelivered \/ (Rx(card, takeAt, 0).enp /\ last = Rx(card, takeAt, 0).unit[1])
    BY <1>9
  <2>16. part # << >> =>
           /\ \A i \in 1 .. Len(part) : part[i] = <<part[1][1], i, part[1][3]>>
           /\ Len(part) < part[1][3] /\ last < part[1][1] /\ part[1][1] <= top
           /\ part[Len(part)] = Rx(card, takeAt, 0).unit
    <3> SUFFICES ASSUME part # << >>
                 PROVE  /\ \A i \in 1 .. Len(part) : part[i] = <<part[1][1], i, part[1][3]>>
                        /\ Len(part) < part[1][3] /\ last < part[1][1] /\ part[1][1] <= top
                        /\ part[Len(part)] = Rx(card, takeAt, 0).unit
      OBVIOUS
    <3>1. part = units /\ units # << >> /\ ~d.enp /\ last = LastDelivered  OBVIOUS
    <3>2. /\ Len(units) = d.unit[2] /\ units[1][1] = d.unit[1] /\ units[1][3] = d.unit[3]
          /\ units[Len(units)] = d.unit
          /\ \A i \in 1 .. Len(units) : units[i] = <<d.unit[1], i, d.unit[3]>>
      BY <2>7, <3>1
    <3>3. d.unit[2] < d.unit[3] /\ LastDelivered < d.unit[1] /\ d.unit[1] <= top
      BY <2>4, <2>5, <3>1 DEF RxUnit
    <3> HIDE DEF part, last, new
    <3> QED  BY <1>9, <3>1, <3>2, <3>3
  <2>17. part \in Seq(Unit)
    <3>1. << >> \in Seq(Unit)  OBVIOUS
    <3> QED  BY <2>7, <3>1
  <2>18. RxUnits(e, p, f - 1, last, top) /\ RxBegun(e, p, part, f - 1, last, top)
    <3> HIDE DEF part, last, new
    <3> QED  BY <1>2, <1>6, <2>2, <2>11, <2>13, <2>14, <2>15, <2>16, RestKeeps
  <2>19. RxOk(e, p, part, last, arrived)
    <3>1. RxPending(e, top, arrived)  BY <1>6, <2>11 DEF RxPending
    <3>2. f - 1 \in 0 .. RxLen  BY <1>7, <2>2
    <3> HIDE DEF part, last, new
    <3> QED  BY <2>13, <2>14, <2>18, <3>1, <3>2 DEF RxOk
  <2>20. new => /\ IsWhole(units) /\ units # << >> /\ LastDelivered < units[1][1]
    <3> SUFFICES ASSUME new
                 PROVE  IsWhole(units) /\ units # << >> /\ LastDelivered < units[1][1]
      OBVIOUS
    <3>1. /\ Len(units) = d.unit[2] /\ units[1][1] = d.unit[1]
          /\ \A i \in 1 .. Len(units) : units[i] = <<d.unit[1], i, d.unit[3]>>
      BY <2>7
    <3>2. d.unit[2] = d.unit[3] /\ LastDelivered < d.unit[1]  BY <2>5 DEF RxUnit
    <3> QED  BY <3>1, <3>2 DEF IsWhole
  <2>21. delivered' \in Seq(Seq(Unit))  BY <1>2, <2>1, <2>7
  <2>22. ReceivedWhole' /\ (\A k \in 1 .. Len(delivered') : delivered'[k] # << >>)
    <3>1. CASE ~new
      <4>1. delivered' = delivered  BY <2>1, <3>1
      <4> QED  BY <1>1, <4>1 DEF ReceivedWhole, ReceiveInv
    <3>2. CASE new
      <4> DEFINE n == Len(delivered)
                 out == delivered'
      <4>1. /\ n \in Nat /\ Len(out) = n + 1 /\ out[n + 1] = units
            /\ \A k \in 1 .. n : out[k] = delivered[k]
        BY <1>2, <2>1, <2>7, <3>2
      <4>2. /\ \A k \in 1 .. n : IsWhole(delivered[k]) /\ delivered[k] # << >>
            /\ \A k \in 1 .. n - 1 : delivered[k][1][1] < delivered[k + 1][1][1]
        BY <1>1 DEF ReceivedWhole, ReceiveInv
      <4>3. n > 0 => delivered[n][1][1] = LastDelivered
        <5>1. n > 0 => delivered # << >>  BY <1>2
        <5> QED  BY <5>1 DEF LastDelivered
      <4> HIDE DEF out, n, new
      <4>4. ASSUME NEW k \in 1 .. n + 1  PROVE IsWhole(out[k]) /\ out[k] # << >>
        <5>1. CASE k = n + 1  BY <2>20, <3>2, <4>1, <5>1
        <5>2. CASE k \in 1 .. n  BY <4>1, <4>2, <5>2
        <5> QED  BY <4>1, <5>1, <5>2
      <4>5. ASSUME NEW k \in 1 .. n  PROVE out[k][1][1] < out[k + 1][1][1]
        <5>1. CASE k = n
          <6>1. n > 0 /\ n \in 1 .. n  BY <4>1, <5>1
          <6> QED  BY <2>20, <3>2, <4>1, <4>3, <5>1, <6>1
        <5>2. CASE k \in 1 .. n - 1
          <6>1. k + 1 \in 1 .. n  BY <4>1, <5>2
          <6> QED  BY <4>1, <4>2, <5>2, <6>1
        <5> QED  BY <4>1, <5>1, <5>2
      <4>6. /\ \A k \in 1 .. Len(out) : IsWhole(out[k]) /\ out[k] # << >>
            /\ \A k \in 1 .. Len(out) - 1 : out[k][1][1] < out[k + 1][1][1]
        <5>1. Len(out) - 1 = n  BY <4>1
        <5> QED  BY <4>1, <4>4, <4>5, <5>1
      <4> QED  BY <4>6 DEF ReceivedWhole, out
    <3> QED  BY <3>1, <3>2
  <2>23. TypeInv'
    <3>1. partial' = part  BY <2>1
    <3> HIDE DEF part, last, new
    <3> QED  BY <1>1, <1>3, <2>1, <2>9, <2>11, <2>12, <2>17, <2>21, <3>1 DEF TypeInv, p
  <2>24. ControlInv'  BY <1>1, <1>3, <1>4, <2>1, <2>9, <2>11 DEF ControlInv
  <2>25. ReceiveInv'
    <3>1. partial' = part /\ takeAt' = p /\ arrived' = arrived  BY <1>3, <2>1 DEF p
    <3> HIDE DEF part, last, new
    <3>2. RxOk(Ready', takeAt', partial', LastDelivered', arrived')
      BY <1>5, <2>8, <2>9, <2>19, <3>1
    <3>3. (\A k \in 1 .. Len(delivered) : delivered[k] # << >>)'  BY <2>22
    <3> QED  BY <2>1, <3>2, <3>3 DEF ReceiveInv
  <2>26. TransmitInv'
    <3>1. PICK g \in 0 .. given :
            /\ SentUpTo(Outgoing, g)
            /\ arrived <= Counted(card) /\ Counted(card) <= arrived + g
            /\ rings # "faulted" /\ On(card.csr0) => TxOk(Ready, giveAt, building, given, g)
      BY <1>1 DEF TransmitInv
    <3>2. Counted(e) = Counted(card)  BY <2>11 DEF Counted
    <3>3. Outgoing' = Outgoing  BY <1>3, <2>9, <2>11 DEF Outgoing
    <3>4. rings # "faulted" /\ On(card.csr0) => TxOk(e, giveAt, building, given, g)
      BY <1>5, <2>11, <3>1, TxOkSame
    <3>5. /\ SentUpTo(Outgoing', g)
          /\ arrived' <= Counted(card') /\ Counted(card') <= arrived' + g
          /\ rings' # "faulted" /\ On(card'.csr0) =>
               TxOk(Ready', giveAt', building', given', g)
      BY <1>3, <1>5, <2>9, <2>11, <3>1, <3>2, <3>3, <3>4
    <3>6. g \in 0 .. given'  BY <1>3
    <3> QED  BY <3>5, <3>6 DEF TransmitInv
  <2> QED  BY <2>22, <2>23, <2>24, <2>25, <2>26 DEF IInv
<1> QED  BY <1>14, <1>15

\* A frame lost on the way out leaves the rest in order.
LEMMA SentWithout ==
  ASSUME NEW w \in Seq(Seq(Unit)), NEW s \in Seq(Seq(Unit)), NEW g, SentUpTo(w \o s, g),
         NEW k \in 0 .. Len(s) - 1
  PROVE  SentUpTo((w \o SubSeq(s, 1, k)) \o SubSeq(s, k + 2, Len(s)), g)
<1> DEFINE out == w \o s
           head == SubSeq(s, 1, k)
           tail == SubSeq(s, k + 2, Len(s))
           new == (w \o head) \o tail
           m == Len(w) + k
           n == Len(out)
<1>0. /\ Len(w) \in Nat /\ Len(s) \in Nat /\ k \in Nat /\ k + 1 <= Len(s)
      /\ n = Len(w) + Len(s) /\ n \in Nat /\ m \in Nat /\ m + 1 <= n
  OBVIOUS
<1>1. /\ head \in Seq(Seq(Unit)) /\ Len(head) = k
      /\ \A i \in 1 .. k : head[i] = s[i]
  BY <1>0
<1>2. /\ tail \in Seq(Seq(Unit)) /\ Len(tail) = Len(s) - (k + 1)
      /\ \A i \in 1 .. Len(s) - (k + 1) : tail[i] = s[i + k + 1]
  <2> DEFINE a == k + 2
             b == Len(s)
  <2>1. /\ a \in Int /\ b \in Int /\ b - a + 1 = Len(s) - (k + 1)
        /\ (IF a <= b THEN b - a + 1 ELSE 0) = b - a + 1
        /\ \A i \in a .. b : s[i] \in Seq(Unit)
    BY <1>0
  <2>2. /\ tail \in Seq(Seq(Unit)) /\ Len(tail) = b - a + 1
        /\ \A i \in 1 .. b - a + 1 : tail[i] = s[a + i - 1]
    <3> HIDE DEF a, b
    <3>1. /\ SubSeq(s, a, b) \in Seq(Seq(Unit))
          /\ Len(SubSeq(s, a, b)) = IF a <= b THEN b - a + 1 ELSE 0
          /\ \A i \in 1 .. b - a + 1 : SubSeq(s, a, b)[i] = s[a + i - 1]
      BY <2>1, SubSeqProperties
    <3>2. tail = SubSeq(s, a, b)  BY DEF a, b
    <3> HIDE DEF tail
    <3> QED  BY <2>1, <3>1, <3>2
  <2>3. \A i \in 1 .. b - a + 1 : a + i - 1 = i + k + 1  BY <1>0
  <2> HIDE DEF tail
  <2> QED  BY <2>1, <2>2, <2>3
<1> HIDE DEF head, tail
<1>3. /\ new \in Seq(Seq(Unit)) /\ Len(new) = n - 1
      /\ \A i \in 1 .. n - 1 : new[i] = IF i <= m THEN out[i] ELSE out[i + 1]
  <2> DEFINE a == w \o head
  <2>1. a \in Seq(Seq(Unit)) /\ Len(a) = m
        /\ \A i \in 1 .. m : a[i] = IF i <= Len(w) THEN w[i] ELSE s[i - Len(w)]
    <3>0. /\ w \o head \in Seq(Seq(Unit)) /\ Len(w \o head) = Len(w) + Len(head)
          /\ \A i \in 1 .. Len(w) + Len(head) :
               (w \o head)[i] = IF i <= Len(w) THEN w[i] ELSE head[i - Len(w)]
      BY <1>1, ConcatProperties
    <3>1. a \in Seq(Seq(Unit)) /\ Len(a) = m  BY <1>0, <1>1, <3>0
    <3>2. \A i \in 1 .. m : a[i] = IF i <= Len(w) THEN w[i] ELSE head[i - Len(w)]
      BY <1>1, <3>0
    <3>3. \A i \in 1 .. m : ~(i <= Len(w)) => i - Len(w) \in 1 .. k  BY <1>0
    <3> HIDE DEF a, m
    <3> QED  BY <1>1, <3>1, <3>2, <3>3
  <2>2. \A i \in 1 .. n : out[i] = IF i <= Len(w) THEN w[i] ELSE s[i - Len(w)]
    BY <1>0
  <2> HIDE DEF a
  <2>3. new = a \o tail  BY DEF a
  <2> HIDE DEF new
  <2>0. /\ a \o tail \in Seq(Seq(Unit)) /\ Len(a \o tail) = Len(a) + Len(tail)
        /\ \A i \in 1 .. Len(a) + Len(tail) :
             (a \o tail)[i] = IF i <= Len(a) THEN a[i] ELSE tail[i - Len(a)]
    BY <1>2, <2>1, ConcatProperties
  <2>4. new \in Seq(Seq(Unit)) /\ Len(new) = m + (Len(s) - (k + 1))
    BY <1>2, <2>0, <2>1, <2>3
  <2>5. m + (Len(s) - (k + 1)) = n - 1  BY <1>0
  <2>6. \A i \in 1 .. n - 1 : new[i] = IF i <= m THEN a[i] ELSE tail[i - m]
    BY <1>2, <2>0, <2>1, <2>3, <2>5
  <2> HIDE DEF m, n, out
  <2>7. ASSUME NEW i \in 1 .. n - 1  PROVE new[i] = IF i <= m THEN out[i] ELSE out[i + 1]
    <3>1. CASE i <= m
      <4>1. i \in 1 .. m /\ i \in 1 .. n  BY <1>0, <3>1
      <4> QED  BY <2>1, <2>2, <2>6, <3>1, <4>1
    <3>2. CASE ~(i <= m)
      <4>1. i - m \in 1 .. Len(s) - (k + 1) /\ i + 1 \in 1 .. n /\ ~(i + 1 <= Len(w))
            /\ (i - m) + k + 1 = (i + 1) - Len(w)
        BY <1>0, <3>2 DEF m
      <4>2. new[i] = tail[i - m]  BY <2>6, <3>2
      <4>3. tail[i - m] = s[(i - m) + k + 1]  BY <1>2, <4>1
      <4>4. out[i + 1] = s[(i + 1) - Len(w)]  BY <2>2, <4>1
      <4> QED  BY <3>2, <4>1, <4>2, <4>3, <4>4
    <3> QED  BY <3>1, <3>2
  <2> QED  BY <2>4, <2>5, <2>7
<1>4. /\ \A i \in 1 .. n : out[i] # << >> /\ IsWhole(out[i]) /\ out[i][1][1] <= g
      /\ \A i, j \in 1 .. n : i < j => out[i][1][1] < out[j][1][1]
  BY DEF SentUpTo
<1> HIDE DEF out, new, m, n
<1>5. ASSUME NEW i \in 1 .. n - 1
      PROVE  new[i] # << >> /\ IsWhole(new[i]) /\ new[i][1][1] <= g
  <2>1. i \in 1 .. n /\ i + 1 \in 1 .. n  BY <1>0
  <2> QED  BY <1>3, <1>4, <2>1
<1>6. ASSUME NEW i \in 1 .. n - 1, NEW j \in 1 .. n - 1, i < j
      PROVE  new[i][1][1] < new[j][1][1]
  <2> DEFINE x == IF i <= m THEN i ELSE i + 1
             y == IF j <= m THEN j ELSE j + 1
  <2>1. x \in 1 .. n /\ y \in 1 .. n /\ x < y  BY <1>0, <1>6
  <2>2. new[i] = out[x] /\ new[j] = out[y]  BY <1>3
  <2> HIDE DEF x, y
  <2> QED  BY <1>4, <2>1, <2>2
<1>7. SentUpTo(new, g)  BY <1>3, <1>5, <1>6 DEF SentUpTo
<1> QED  BY <1>7 DEF new, head, tail

\* A frame later than all before it goes to the end of the queue.
LEMMA Queued ==
  ASSUME NEW c \in Card, NEW e, NEW at, NEW part, NEW last \in Nat, NEW arr \in Nat,
         RxOk(c, at, part, last, arr), NEW a \in Arrival, a.id = arr + 1,
         e.rx = c.rx, e.rxAt = c.rxAt, e.pending = Append(c.pending, a)
  PROVE  RxOk(e, at, part, last, arr + 1)
<1>1. PICK f \in 0 .. RxLen, top \in last .. arr :
        /\ RxPlaced(c, at, f) /\ RxUnits(c, at, f, last, top)
        /\ RxBegun(c, at, part, f, last, top) /\ RxPending(c, top, arr)
  BY DEF RxOk
<1>2. RxPlaced(e, at, f) /\ RxUnits(e, at, f, last, top) /\ RxBegun(e, at, part, f, last, top)
  BY <1>1 DEF RxPlaced, RxUnits, RxBegun, Rx
<1> DEFINE q == c.pending
           n == Len(q)
           r == Append(q, a)
<1>3. q \in Seq(Arrival)  BY DEF Card
<1> HIDE DEF q
<1>4. /\ n \in Nat /\ Len(r) = n + 1 /\ r[n + 1] = a
      /\ \A k \in 1 .. n : r[k] = q[k] /\ q[k] \in Arrival
  BY <1>3
<1>5. \A k \in 1 .. n : q[k].id \in Nat  BY <1>4 DEF Arrival
<1>6. /\ \A k \in 1 .. n : top < q[k].id /\ q[k].id <= arr
      /\ \A k, l \in 1 .. n : k < l => q[k].id < q[l].id
  BY <1>1 DEF RxPending, q
<1> HIDE DEF r, n
<1>7. top \in Nat /\ top <= arr  OBVIOUS
<1>8. ASSUME NEW k \in 1 .. n + 1  PROVE top < r[k].id /\ r[k].id <= arr + 1
  <2>1. CASE k = n + 1  BY <1>4, <1>7, <2>1
  <2>2. CASE k \in 1 .. n
    <3>1. q[k].id <= arr + 1  BY <1>5, <1>6, <2>2
    <3> QED  BY <1>4, <1>6, <2>2, <3>1
  <2> QED  BY <1>4, <2>1, <2>2
<1>9. ASSUME NEW k \in 1 .. n + 1, NEW l \in 1 .. n + 1, k < l  PROVE r[k].id < r[l].id
  <2>1. k \in 1 .. n  BY <1>4, <1>9
  <2>2. CASE l = n + 1
    <3>1. q[k].id < arr + 1  BY <1>5, <1>6, <2>1
    <3> QED  BY <1>4, <2>1, <2>2, <3>1
  <2>3. CASE l \in 1 .. n  BY <1>4, <1>6, <1>9, <2>1, <2>3
  <2> QED  BY <1>4, <2>2, <2>3
<1>10. e.pending = r  BY DEF r, q
<1>11. RxPending(e, top, arr + 1)  BY <1>4, <1>8, <1>9, <1>10 DEF RxPending
<1>12. top \in last .. arr + 1  BY <1>7
<1> QED  BY <1>2, <1>11, <1>12 DEF RxOk

\* The host forwards what the card sent, or loses the rest of it.
LEMMA OutStep ==
  ASSUME IInv, PumpOut
  PROVE  IInv'
<1>1. TypeInv /\ ControlInv /\ ReceivedWhole /\ ReceiveInv /\ TransmitInv  BY DEF IInv
<1>2. card \in Card /\ wire \in Seq(Seq(Unit))  BY <1>1 DEF TypeInv
<1> DEFINE s == card.sent
<1>3. s \in Seq(Seq(Unit))  BY <1>2 DEF Card
<1>4. /\ UNCHANGED <<giveAt, building, given, takeAt, partial, delivered, isr, seen, starts>>
      /\ rings' = rings /\ arrived' = arrived
  BY DEF PumpOut, guest
<1>5. PICK k \in 0 .. Len(s) :
        \/ /\ k = Len(s) /\ wire' = wire \o s
           /\ card' = [card EXCEPT !.sent = << >>]
        \/ /\ k < Len(s) /\ wire' = wire \o SubSeq(s, 1, k)
           /\ card' = [card EXCEPT !.sent = SubSeq(@, k + 2, Len(@))]
  BY DEF PumpOut
<1>6. PICK t \in Seq(Seq(Unit)) :
        /\ card' = [card EXCEPT !.sent = t] /\ wire' \in Seq(Seq(Unit))
        /\ \A g : SentUpTo(wire \o s, g) => SentUpTo(wire' \o t, g)
  <2>1. CASE k = Len(s) /\ wire' = wire \o s /\ card' = [card EXCEPT !.sent = << >>]
    <3> HIDE DEF s
    <3>1. wire \o s \in Seq(Seq(Unit)) /\ << >> \in Seq(Seq(Unit))
      BY <1>2, <1>3, ConcatProperties
    <3> DEFINE a == wire \o s
    <3>2. a \in Seq(Seq(Unit))  BY <3>1
    <3> HIDE DEF a
    <3>3. a \o << >> = a  BY <3>2, ConcatEmptySeq
    <3>4. wire' = a  BY <2>1 DEF a
    <3>5. \A g : SentUpTo(a, g) => SentUpTo(wire' \o << >>, g)  BY <3>3, <3>4
    <3> QED  BY <2>1, <3>1, <3>5 DEF a
  <2>2. CASE /\ k < Len(s) /\ wire' = wire \o SubSeq(s, 1, k)
             /\ card' = [card EXCEPT !.sent = SubSeq(@, k + 2, Len(@))]
    <3> DEFINE t == SubSeq(s, k + 2, Len(s))
    <3>1. card' = [card EXCEPT !.sent = t]  BY <2>2
    <3> HIDE DEF s
    <3>0. Len(s) \in Nat  BY <1>3
    <3>2. t \in Seq(Seq(Unit)) /\ SubSeq(s, 1, k) \in Seq(Seq(Unit))
      BY <1>3, <3>0
    <3>3. k \in 0 .. Len(s) - 1  BY <2>2, <3>0
    <3>4. \A g : SentUpTo(wire \o s, g) => SentUpTo(wire' \o t, g)
      BY <1>2, <1>3, <2>2, <3>3, SentWithout
    <3>5. wire' \in Seq(Seq(Unit))  BY <1>2, <2>2, <3>2, ConcatProperties
    <3> QED  BY <3>1, <3>2, <3>4, <3>5
  <2> QED  BY <1>5, <2>1, <2>2
<1> DEFINE e == [card EXCEPT !.sent = t]
           r == [Ready EXCEPT !.sent = t]
<1>7. /\ e \in Card /\ e.csr0 = card.csr0 /\ e.rx = card.rx /\ e.rxAt = card.rxAt
      /\ e.tx = card.tx /\ e.txAt = card.txAt
      /\ e.pending = card.pending /\ e.sent = t
      /\ e.rxPackets = card.rxPackets /\ e.dropped = card.dropped
  <2>1. e \in Card  BY <1>2, <1>6 DEF Card
  <2> QED  BY <1>2, <2>1 DEF Card
<1>8. card' = e  BY <1>6
<1> HIDE DEF e
<1>9. /\ Ready'.rx = Ready.rx /\ Ready'.rxAt = Ready.rxAt /\ Ready'.pending = Ready.pending
      /\ Ready'.tx = Ready.tx /\ Ready'.txAt = Ready.txAt
  <2>1. CASE rings = "prepared"
    <3>1. Ready = [card EXCEPT !.rxAt = 0, !.txAt = 0]  BY <2>1 DEF Ready
    <3>2. Ready' = [e EXCEPT !.rxAt = 0, !.txAt = 0]  BY <1>4, <1>8, <2>1 DEF Ready
    <3> QED  BY <1>2, <1>7, <3>1, <3>2 DEF Card
  <2>2. CASE rings # "prepared"
    <3>1. Ready = card /\ Ready' = e  BY <1>4, <1>8, <2>2 DEF Ready
    <3> QED  BY <1>7, <3>1
  <2> QED  BY <2>1, <2>2
<1>10. LastDelivered' = LastDelivered  BY <1>4 DEF LastDelivered
<1>11. TypeInv'  BY <1>1, <1>4, <1>6, <1>7, <1>8 DEF TypeInv
<1>12. ControlInv'  BY <1>1, <1>4, <1>7, <1>8 DEF ControlInv
<1>13. ReceivedWhole'  BY <1>1, <1>4 DEF ReceivedWhole
<1>14. ReceiveInv'
  <2>1. RxOk(Ready, takeAt, partial, LastDelivered, arrived)  BY <1>1 DEF ReceiveInv
  <2>2. RxOk(Ready', takeAt, partial, LastDelivered, arrived)  BY <1>9, <2>1, RxOkSame
  <2>3. RxOk(Ready', takeAt', partial', LastDelivered', arrived')  BY <1>4, <1>10, <2>2
  <2>4. (\A k_1 \in 1 .. Len(delivered) : delivered[k_1] # << >>)'
    BY <1>1, <1>4 DEF ReceiveInv
  <2>5. (isr = "idle" => Waking(card))'
    <3>1. isr = "idle" => Waking(card)  BY <1>1 DEF ReceiveInv
    <3> QED  BY <1>4, <1>7, <1>8, <3>1 DEF Waking
  <2> QED  BY <2>3, <2>4, <2>5 DEF ReceiveInv
<1>15. TransmitInv'
  <2>1. PICK g \in 0 .. given :
          /\ SentUpTo(Outgoing, g)
          /\ arrived <= Counted(card) /\ Counted(card) <= arrived + g
          /\ rings # "faulted" /\ On(card.csr0) => TxOk(Ready, giveAt, building, given, g)
    BY <1>1 DEF TransmitInv
  <2>2. Counted(e) = Counted(card)  BY <1>7 DEF Counted
  <2>3. Outgoing' = wire' \o t /\ Outgoing = wire \o s  BY <1>7, <1>8 DEF Outgoing
  <2>4. rings # "faulted" /\ On(card.csr0) => TxOk(Ready', giveAt, building, given, g)
    BY <1>9, <2>1, TxOkSame
  <2>5. SentUpTo(Outgoing', g)  BY <1>6, <2>1, <2>3
  <2>6. /\ arrived' <= Counted(card') /\ Counted(card') <= arrived' + g
        /\ rings' # "faulted" /\ On(card'.csr0) =>
             TxOk(Ready', giveAt', building', given', g)
    BY <1>4, <1>7, <1>8, <2>1, <2>2, <2>4
  <2>7. g \in 0 .. given'  BY <1>4
  <2> QED  BY <2>5, <2>6, <2>7 DEF TransmitInv
<1> QED  BY <1>11, <1>12, <1>13, <1>14, <1>15 DEF IInv

\* A frame arrives behind those that wait, and both are served if the receiver is on.
LEMMA Arriving ==
  ASSUME TypeInv, PumpIn
  PROVE  \E a \in Arrival, b \in Card :
           /\ a.id = arrived + 1 /\ card' = ServiceReceive(b)
           /\ b.csr0 = card.csr0 /\ b.rx = card.rx /\ b.rxAt = card.rxAt
           /\ b.tx = card.tx /\ b.txAt = card.txAt /\ b.sent = card.sent
           /\ b.rxPackets = card.rxPackets /\ b.dropped = card.dropped
           /\ b.pending = Append(card.pending, a) /\ Len(b.pending) = Len(card.pending) + 1
<1>1. card \in Card /\ arrived \in Nat  BY DEF TypeInv
<1>2. PICK a \in Arrival : card' = QueueReceiveFrame(card, a) /\ a.id = arrived + 1
  <2>1. PICK z \in Frames :
          card' = QueueReceiveFrame(card, [id |-> arrived + 1, size |-> z.size,
                                           mine |-> z.mine])
    BY DEF PumpIn
  <2> DEFINE a == [id |-> arrived + 1, size |-> z.size, mine |-> z.mine]
  <2>2. z.size \in Nat \ {0} /\ z.mine \in BOOLEAN  BY LanceAssumption DEF Frames
  <2>3. arrived + 1 \in Nat \ {0}  BY <1>1
  <2>4. a \in Arrival  BY <2>2, <2>3 DEF Arrival
  <2>5. card' = QueueReceiveFrame(card, a) /\ a.id = arrived + 1  BY <2>1
  <2> HIDE DEF a
  <2> QED  BY <2>4, <2>5
<1> DEFINE q == Append(card.pending, a)
           b == [card EXCEPT !.pending = q]
<1>3. card' = ServiceReceive(b)  BY <1>2 DEF QueueReceiveFrame
<1>4. q \in Seq(Arrival) /\ Len(q) = Len(card.pending) + 1
  <2> DEFINE p == card.pending
  <2>1. p \in Seq(Arrival)  BY <1>1 DEF Card
  <2> HIDE DEF p
  <2>2. Append(p, a) \in Seq(Arrival) /\ Len(Append(p, a)) = Len(p) + 1
    BY <2>1, AppendProperties
  <2> QED  BY <2>2 DEF p
<1> HIDE DEF q
<1>5. b \in Card  BY <1>1, <1>4 DEF Card
<1>6. /\ b.csr0 = card.csr0 /\ b.rx = card.rx /\ b.rxAt = card.rxAt
      /\ b.tx = card.tx /\ b.txAt = card.txAt /\ b.pending = q /\ b.sent = card.sent
      /\ b.rxPackets = card.rxPackets /\ b.dropped = card.dropped
  BY <1>1, <1>5 DEF Card
<1> HIDE DEF b
<1>7. b.pending = Append(card.pending, a) /\ Len(b.pending) = Len(card.pending) + 1
  BY <1>4, <1>6 DEF q
<1> QED  BY <1>2, <1>3, <1>5, <1>6, <1>7

\* A stopped chip receives nothing.
LEMMA StoppedReceivesNothing ==
  ASSUME ControlInv, "STOP" \in card.csr0, NEW b, b.csr0 = card.csr0
  PROVE  ServiceReceive(b) = b
<1>1. ~Receiving(b)  BY DEF ControlInv, Receiving
<1> QED  BY <1>1 DEF ServiceReceive

\* Receiving leaves what the guest has to take, and the whole ring of a stopped chip.
LEMMA Arrives ==
  ASSUME IInv, PumpIn
  PROVE  Unread(card, card') /\ ("STOP" \in card.csr0 => card'.rx = card.rx)
<1>1. TypeInv /\ ControlInv /\ ReceiveInv  BY DEF IInv
<1>2. /\ card \in Card /\ takeAt \in 0 .. RxLen - 1 /\ partial \in Seq(Unit)
      /\ arrived \in Nat /\ LastDelivered \in Nat
  BY <1>1, LastIs DEF TypeInv
<1>3. PICK a \in Arrival, b \in Card :
        /\ a.id = arrived + 1 /\ card' = ServiceReceive(b)
        /\ b.csr0 = card.csr0 /\ b.rx = card.rx /\ b.rxAt = card.rxAt
        /\ b.pending = Append(card.pending, a)
  BY <1>1, Arriving
<1>4. CASE "STOP" \in card.csr0
  <2>1. card'.rx = card.rx  BY <1>1, <1>3, <1>4, StoppedReceivesNothing
  <2> QED  BY <2>1 DEF Unread
<1>5. CASE "STOP" \notin card.csr0
  <2>1. Ready = card  BY <1>1, <1>5 DEF ControlInv, Ready
  <2>2. RxOk(card, takeAt, partial, LastDelivered, arrived)  BY <1>1, <2>1 DEF ReceiveInv
  <2>3. RxOk(b, takeAt, partial, LastDelivered, arrived + 1)  BY <1>2, <1>3, <2>2, Queued
  <2>4. arrived + 1 \in Nat  BY <1>2
  <2>5. Unread(b, ServiceReceive(b))  BY <1>2, <1>3, <2>3, <2>4, ServiceReceiveKeeps
  <2> QED  BY <1>3, <1>5, <2>5 DEF Unread
<1> QED  BY <1>4, <1>5

\* A frame arrives.
LEMMA InStep ==
  ASSUME IInv, PumpIn
  PROVE  IInv'
<1>1. TypeInv /\ ControlInv /\ ReceivedWhole /\ ReceiveInv /\ TransmitInv  BY DEF IInv
<1>2. /\ card \in Card /\ takeAt \in 0 .. RxLen - 1 /\ partial \in Seq(Unit)
      /\ arrived \in Nat /\ given \in Nat /\ LastDelivered \in Nat
  BY <1>1, LastIs DEF TypeInv
<1>3. /\ UNCHANGED <<giveAt, building, given, takeAt, partial, delivered, isr, seen, starts>>
      /\ rings' = rings /\ wire' = wire /\ arrived' = arrived + 1
  BY DEF PumpIn, guest
<1>4. PICK a \in Arrival, b \in Card :
        /\ a.id = arrived + 1 /\ card' = ServiceReceive(b)
        /\ b.csr0 = card.csr0 /\ b.rx = card.rx /\ b.rxAt = card.rxAt
        /\ b.tx = card.tx /\ b.txAt = card.txAt /\ b.sent = card.sent
        /\ b.rxPackets = card.rxPackets /\ b.dropped = card.dropped
        /\ b.pending = Append(card.pending, a) /\ Len(b.pending) = Len(card.pending) + 1
  BY <1>1, Arriving
<1> DEFINE q == Append(card.pending, a)
           e == ServiceReceive(b)
           n == Len(card.pending)
<1>5. card' = e  BY <1>4
<1>6. n \in Nat  BY <1>2 DEF Card
<1>7. Len(q) = n + 1  BY <1>4
<1> HIDE DEF q
<1>8. /\ b \in Card /\ b.csr0 = card.csr0 /\ b.rx = card.rx /\ b.rxAt = card.rxAt
      /\ b.tx = card.tx /\ b.txAt = card.txAt
      /\ b.pending = q /\ b.sent = card.sent
      /\ b.rxPackets = card.rxPackets /\ b.dropped = card.dropped
  BY <1>4 DEF q
<1>9. Counted(b) = Counted(card) + 1 /\ Counted(card) \in Nat
  <2> DEFINE x == card.rxPackets
             y == card.dropped
  <2>1. x \in Nat /\ y \in Nat  BY <1>2 DEF Card
  <2>2. Counted(b) = (n + 1) + x + y /\ Counted(card) = n + x + y  BY <1>7, <1>8 DEF Counted
  <2> HIDE DEF x, y, n
  <2> QED  BY <1>6, <2>1, <2>2
<1>10. RxOk(Ready, takeAt, partial, LastDelivered, arrived)  BY <1>1 DEF ReceiveInv
<1>11. /\ e \in Card /\ Aside(b, e) /\ Counted(e) = Counted(b) /\ (Waking(b) => Waking(e))
       /\ RxOk(Ready', takeAt, partial, LastDelivered, arrived + 1)
       /\ Ready'.tx = Ready.tx /\ Ready'.txAt = Ready.txAt
  <2>1. CASE rings # "prepared"
    <3>1. Ready = card /\ Ready' = e  BY <1>3, <1>5, <2>1 DEF Ready
    <3>2. RxOk(b, takeAt, partial, LastDelivered, arrived + 1)
      <4>1. RxOk(card, takeAt, partial, LastDelivered, arrived)  BY <1>10, <3>1
      <4>2. b.pending = Append(card.pending, a)  BY <1>8 DEF q
      <4> QED  BY <1>2, <1>4, <1>8, <4>1, <4>2, Queued
    <3>3. arrived + 1 \in Nat  BY <1>2
    <3>4. /\ e \in Card /\ RxOk(e, takeAt, partial, LastDelivered, arrived + 1)
          /\ (Waking(b) => Waking(e)) /\ Aside(b, e) /\ Counted(e) = Counted(b)
      BY <1>2, <1>8, <3>2, <3>3, ServiceReceiveKeeps
    <3>5. e.tx = card.tx /\ e.txAt = card.txAt  BY <1>8, <3>4 DEF Aside
    <3> HIDE DEF e
    <3> QED  BY <3>1, <3>4, <3>5
  <2>2. CASE rings = "prepared"
    <3>1. card.csr0 = {"STOP"}  BY <1>1, <2>2 DEF ControlInv
    <3>2. e = b  BY <1>1, <1>8, <3>1, StoppedReceivesNothing
    <3> HIDE DEF e
    <3>3. Ready = [card EXCEPT !.rxAt = 0, !.txAt = 0]  BY <2>2 DEF Ready
    <3>4. Ready' = [b EXCEPT !.rxAt = 0, !.txAt = 0]
      BY <1>3, <1>5, <2>2, <3>2 DEF Ready
    <3>5. /\ Ready'.rx = Ready.rx /\ Ready'.rxAt = Ready.rxAt
          /\ Ready'.tx = Ready.tx /\ Ready'.txAt = Ready.txAt
          /\ Ready'.pending = Append(Ready.pending, a)
      <4>1. /\ Ready'.rx = b.rx /\ Ready'.rxAt = 0 /\ Ready'.tx = b.tx /\ Ready'.txAt = 0
            /\ Ready'.pending = b.pending
        BY <1>8, <3>4 DEF Card
      <4>2. /\ Ready.rx = card.rx /\ Ready.rxAt = 0 /\ Ready.tx = card.tx /\ Ready.txAt = 0
            /\ Ready.pending = card.pending
        BY <1>2, <3>3 DEF Card
      <4> QED  BY <1>8, <4>1, <4>2 DEF q
    <3>6. RxOk(Ready', takeAt, partial, LastDelivered, arrived + 1)
      <4>1. Ready \in Card  BY <1>2, ReadyIs
      <4> QED  BY <1>2, <1>4, <1>10, <3>5, <4>1, Queued
    <3> QED  BY <1>8, <3>2, <3>5, <3>6 DEF Aside
  <2> QED  BY <2>1, <2>2
<1> HIDE DEF e
<1>12. LastDelivered' = LastDelivered  BY <1>3 DEF LastDelivered
<1>13. TypeInv'
  <2>1. arrived + 1 \in Nat  BY <1>2
  <2> QED  BY <1>1, <1>3, <1>5, <1>11, <2>1 DEF TypeInv
<1>14. ControlInv'
  <2>1. "STOP" \in card.csr0 => e.csr0 = {"STOP"}
    <3> SUFFICES ASSUME "STOP" \in card.csr0  PROVE e.csr0 = {"STOP"}
      OBVIOUS
    <3>1. card.csr0 = {"STOP"}  BY <1>1 DEF ControlInv
    <3>2. e = b  BY <1>1, <1>8, StoppedReceivesNothing DEF e
    <3> QED  BY <1>8, <3>1, <3>2
  <2>2. /\ "STOP" \in e.csr0 <=> "STOP" \in card.csr0
        /\ "STRT" \in e.csr0 <=> "STRT" \in card.csr0
        /\ "TXON" \in e.csr0 <=> "TXON" \in card.csr0
    BY <1>8, <1>11 DEF Aside
  <2> QED  BY <1>1, <1>3, <1>5, <2>1, <2>2 DEF ControlInv
<1>15. ReceivedWhole'  BY <1>1, <1>3 DEF ReceivedWhole
<1>16. ReceiveInv'
  <2>1. RxOk(Ready', takeAt', partial', LastDelivered', arrived')  BY <1>3, <1>11, <1>12
  <2>2. (\A k_1 \in 1 .. Len(delivered) : delivered[k_1] # << >>)'
    BY <1>1, <1>3 DEF ReceiveInv
  <2>3. (isr = "idle" => Waking(card))'
    <3>1. isr = "idle" => Waking(card)  BY <1>1 DEF ReceiveInv
    <3>2. Waking(card) => Waking(b)  BY <1>8 DEF Waking
    <3>3. isr' = "idle" => Waking(e)  BY <1>3, <1>11, <3>1, <3>2
    <3> QED  BY <1>5, <3>3
  <2> QED  BY <2>1, <2>2, <2>3 DEF ReceiveInv
<1>17. TransmitInv'
  <2>1. PICK g \in 0 .. given :
          /\ SentUpTo(Outgoing, g)
          /\ arrived <= Counted(card) /\ Counted(card) <= arrived + g
          /\ rings # "faulted" /\ On(card.csr0) => TxOk(Ready, giveAt, building, given, g)
    BY <1>1 DEF TransmitInv
  <2>2. arrived' <= Counted(e) /\ Counted(e) <= arrived' + g
    <3> DEFINE x == Counted(card)
    <3>1. Counted(e) = x + 1 /\ x \in Nat /\ arrived <= x /\ x <= arrived + g
      BY <1>9, <1>11, <2>1
    <3>2. arrived' = arrived + 1 /\ g \in Nat  BY <1>2, <1>3
    <3> HIDE DEF x
    <3> QED  BY <1>2, <3>1, <3>2
  <2>3. Outgoing' = Outgoing  BY <1>3, <1>5, <1>8, <1>11 DEF Outgoing, Aside
  <2>4. On(e.csr0) => On(card.csr0)  BY <1>8, <1>11 DEF On, Aside
  <2>5. rings # "faulted" /\ On(card.csr0) => TxOk(Ready', giveAt, building, given, g)
    BY <1>11, <2>1, TxOkSame
  <2>6. /\ SentUpTo(Outgoing', g)
        /\ arrived' <= Counted(card') /\ Counted(card') <= arrived' + g
        /\ rings' # "faulted" /\ On(card'.csr0) =>
             TxOk(Ready', giveAt', building', given', g)
    BY <1>3, <1>5, <2>1, <2>2, <2>3, <2>4, <2>5
  <2>7. g \in 0 .. given'  BY <1>3
  <2> QED  BY <2>6, <2>7 DEF TransmitInv
<1> QED  BY <1>13, <1>14, <1>15, <1>16, <1>17 DEF IInv
-----------------------------------------------------------------------------
(* The theorems *)

\* The invariant holds at first: both rings are prepared and nothing waits.
LEMMA InitHolds ==
  ASSUME Init
  PROVE  IInv
<1>1. /\ card = Reset /\ giveAt = 0 /\ building = 0 /\ given = 0
      /\ takeAt = 0 /\ partial = << >> /\ delivered = << >>
      /\ isr = "idle" /\ seen = {} /\ rings = "prepared" /\ arrived = 0 /\ wire = << >>
  BY DEF Init
<1>2. 0 \in 0 .. RxLen - 1 /\ 0 \in 0 .. TxLen - 1 /\ 0 \in 0 .. RxLen /\ 0 \in 0 .. TxLen
  BY Lengths
<1>3. << >> \in Seq(Arrival) /\ << >> \in Seq(Unit) /\ << >> \in Seq(Seq(Unit))  OBVIOUS
<1>4. RxFree \in RxDescriptor /\ RxFree.own /\ TxIdle \in TxDescriptor /\ ~TxIdle.own
  BY DEF RxFree, TxIdle, RxDescriptor, TxDescriptor, NoUnit, Unit
<1> DEFINE rx == [i \in 0 .. RxLen - 1 |-> RxFree]
           tx == [i \in 0 .. TxLen - 1 |-> TxIdle]
<1>5. /\ rx \in [0 .. RxLen - 1 -> RxDescriptor] /\ tx \in [0 .. TxLen - 1 -> TxDescriptor]
      /\ \A i \in 0 .. RxLen - 1 : rx[i].own
      /\ \A i \in 0 .. TxLen - 1 : ~tx[i].own
  BY <1>4
<1> HIDE DEF rx, tx
<1>6. card = [csr0 |-> {"STOP"}, initialized |-> FALSE,
              rx |-> rx, rxAt |-> 0, pending |-> << >>,
              tx |-> tx, txAt |-> 0, sent |-> << >>,
              rxPackets |-> 0, txPackets |-> 0, dropped |-> 0]
  BY <1>1 DEF Reset, rx, tx
<1>7. /\ card.csr0 = {"STOP"} /\ card.rx = rx /\ card.tx = tx
      /\ card.rxAt = 0 /\ card.txAt = 0 /\ card.pending = << >> /\ card.sent = << >>
      /\ card.rxPackets = 0 /\ card.dropped = 0
  BY <1>6
<1>8. card \in Card
  <2>1. {"STOP"} \subseteq Csr0Bit  BY Bits
  <2> QED  BY <1>2, <1>3, <1>5, <1>6, <2>1 DEF Card
<1>9. Ready = card
  <2>1. Ready = [card EXCEPT !.rxAt = card.rxAt, !.txAt = card.txAt]  BY <1>1, <1>7 DEF Ready
  <2> QED  BY <1>8, <2>1 DEF Card
<1>10. LastDelivered = 0  BY <1>1 DEF LastDelivered
<1>11. TypeInv  BY <1>1, <1>2, <1>3, <1>8 DEF TypeInv
<1>12. ControlInv  BY <1>1, <1>7 DEF ControlInv
<1>13. ReceivedWhole  BY <1>1 DEF ReceivedWhole
<1>14. \A j \in 0 .. RxLen - 1 : Past(0, j, RxLen) \in 0 .. RxLen - 1
  <2> SUFFICES ASSUME NEW j \in 0 .. RxLen - 1  PROVE Past(0, j, RxLen) \in 0 .. RxLen - 1
    OBVIOUS
  <2>1. j \in 0 .. RxLen  BY Lengths
  <2> QED  BY <1>2, <2>1, Lengths, PastFacts
<1>15. \A j \in 0 .. TxLen - 1 : Past(0, j, TxLen) \in 0 .. TxLen - 1
  <2> SUFFICES ASSUME NEW j \in 0 .. TxLen - 1  PROVE Past(0, j, TxLen) \in 0 .. TxLen - 1
    OBVIOUS
  <2>1. j \in 0 .. TxLen  BY Lengths
  <2> QED  BY <1>2, <2>1, Lengths, PastFacts
<1>16. Past(0, 0, RxLen) = 0 /\ Past(0, 0, TxLen) = 0  BY <1>2, Lengths, PastRound
<1>17. ReceiveInv
  <2>1. RxPlaced(card, 0, 0)
    <3>1. \A j \in 0 .. RxLen - 1 : Rx(card, 0, j).own /\ j >= 0
      BY <1>5, <1>7, <1>14 DEF Rx
    <3> QED  BY <1>7, <1>16, <3>1 DEF RxPlaced
  <2>2. RxUnits(card, 0, 0, 0, 0) /\ RxBegun(card, 0, << >>, 0, 0, 0)
    BY DEF RxUnits, RxBegun
  <2>3. RxPending(card, 0, 0)  BY <1>7 DEF RxPending
  <2>4. 0 \in 0 .. 0  OBVIOUS
  <2>5. RxOk(card, 0, << >>, 0, 0)  BY <1>2, <2>1, <2>2, <2>3, <2>4 DEF RxOk
  <2>6. Waking(card)  BY <1>5, <1>7 DEF Waking
  <2> QED  BY <1>1, <1>9, <1>10, <2>5, <2>6 DEF ReceiveInv
<1>18. TransmitInv
  <2>1. TxPlaced(card, 0, 0)
    <3>1. \A j \in 0 .. TxLen - 1 : ~Tx(card, j).own /\ ~(j < 0)
      BY <1>5, <1>7, <1>15 DEF Tx
    <3> QED  BY <1>7, <1>16, <3>1 DEF TxPlaced
  <2>2. TxUnits(card, 0, 0, 0) /\ TxBuilding(card, 0, 0, 0)
    <3>1. \A j \in 0 .. 0 - 1 : FALSE  OBVIOUS
    <3>2. \A j \in 1 .. 0 - 1 : FALSE  OBVIOUS
    <3>3. ~(0 > 0)  OBVIOUS
    <3> QED  BY <3>1, <3>2, <3>3 DEF TxUnits, TxBuilding
  <2>3. TxOk(card, 0, 0, 0, 0)  BY <1>2, <2>1, <2>2 DEF TxOk
  <2>4. Outgoing = << >>  BY <1>1, <1>7 DEF Outgoing
  <2>5. SentUpTo(Outgoing, 0)  BY <2>4 DEF SentUpTo
  <2>6. Counted(card) = 0  BY <1>7 DEF Counted
  <2>7. 0 \in 0 .. given /\ arrived <= Counted(card) /\ Counted(card) <= arrived + 0
    BY <1>1, <2>6
  <2>8. TxOk(Ready, giveAt, building, given, 0)  BY <1>1, <1>9, <2>3
  <2> QED  BY <2>5, <2>7, <2>8 DEF TransmitInv
<1> QED  BY <1>11, <1>12, <1>13, <1>17, <1>18 DEF IInv

\* A step that changes nothing.
LEMMA Stutter ==
  ASSUME IInv, UNCHANGED vars
  PROVE  IInv'
<1>1. TypeInv /\ ControlInv /\ ReceivedWhole /\ ReceiveInv /\ TransmitInv  BY DEF IInv
<1>2. UNCHANGED <<card, giveAt, building, given, takeAt, partial, delivered, isr, seen,
                  starts, rings, arrived, wire>>
  BY DEF vars
<1>3. Ready' = Ready /\ LastDelivered' = LastDelivered /\ Outgoing' = Outgoing
  BY <1>2 DEF Ready, LastDelivered, Outgoing
<1>4. TypeInv'  BY <1>1, <1>2 DEF TypeInv
<1>5. ControlInv'  BY <1>1, <1>2 DEF ControlInv
<1>6. ReceivedWhole'  BY <1>1, <1>2 DEF ReceivedWhole
<1>7. ReceiveInv'  BY <1>1, <1>2, <1>3 DEF ReceiveInv
<1>8. TransmitInv'  BY <1>1, <1>2, <1>3 DEF TransmitInv
<1> QED  BY <1>4, <1>5, <1>6, <1>7, <1>8 DEF IInv

\* The invariant is inductive.
LEMMA Inductive == IInv /\ [Next]_vars => IInv'
<1> SUFFICES ASSUME IInv, [Next]_vars  PROVE IInv'
  OBVIOUS
<1>1. CASE GuestStop  BY <1>1, StopStep
<1>2. CASE GuestPrepare  BY <1>2, PrepareStep
<1>3. CASE GuestStart  BY <1>3, StartStep
<1>4. CASE GuestGive  BY <1>4, GiveStep
<1>5. CASE GuestDemand  BY <1>5, DemandStep
<1>6. CASE IsrRead  BY <1>6, ReadStep
<1>7. CASE IsrAck  BY <1>7, AckStep
<1>8. CASE IsrTake  BY <1>8, TakeStep
<1>9. CASE PumpOut  BY <1>9, OutStep
<1>10. CASE PumpIn  BY <1>10, InStep
<1>11. CASE UNCHANGED vars  BY <1>11, Stutter
<1> QED  BY <1>1, <1>2, <1>3, <1>4, <1>5, <1>6, <1>7, <1>8, <1>9, <1>10, <1>11 DEF Next, Guest

\* The invariant holds throughout.
LEMMA Invariance == Spec => []IInv
BY InitHolds, Inductive, PTL DEF Spec

\* The guest reassembles exactly the frames that arrived, each whole, once and in order: over
\* frames that fill several descriptors, misses, chains broken by a full ring, frames for other
\* stations, stops and restarts (write_receive_frame, service_receive, write_csr0).
THEOREM FramesArriveWhole == Spec => []ReceivedWhole
<1>1. IInv => ReceivedWhole  BY DEF IInv
<1> QED  BY <1>1, Invariance, PTL

\* What leaves the card is exactly frames the guest chained, each whole, once and in order,
\* over runts, underflows, restarts and a host that drops some of them (read_transmit_frame,
\* service_transmit, NetworkManager::pump).
THEOREM FramesLeaveWhole == Spec => []TransmittedWhole
<1>1. ASSUME IInv  PROVE TransmittedWhole
  <2>1. PICK g \in 0 .. given : SentUpTo(Outgoing, g)  BY <1>1 DEF IInv, TransmitInv
  <2> DEFINE n == Len(Outgoing)
  <2>2. n \in Nat
    <3>1. wire \in Seq(Seq(Unit)) /\ card.sent \in Seq(Seq(Unit))
      BY <1>1 DEF IInv, TypeInv, Card
    <3>2. Outgoing \in Seq(Seq(Unit))  BY <3>1, ConcatProperties DEF Outgoing
    <3> QED  BY <3>2
  <2>3. \A k \in 1 .. n - 1 : k \in 1 .. n /\ k + 1 \in 1 .. n /\ k < k + 1  BY <2>2
  <2> QED  BY <2>1, <2>3 DEF SentUpTo, TransmittedWhole
<1> QED  BY <1>1, Invariance, PTL

\* Every frame that reached the card is pending, delivered or counted as dropped, and nothing
\* is counted that is neither an arrival nor a frame that could not leave (rx_packets,
\* dropped_packets of the card).
THEOREM EveryFrameCounted == Spec => []FramesAccounted
<1>1. ASSUME IInv  PROVE FramesAccounted
  <2>1. PICK g \in 0 .. given : arrived <= Counted(card) /\ Counted(card) <= arrived + g
    BY <1>1 DEF IInv, TransmitInv
  <2>2. card \in Card /\ arrived \in Nat /\ given \in Nat  BY <1>1 DEF IInv, TypeInv
  <2>3. Counted(card) \in Nat  BY <2>2, CountedIs
  <2> DEFINE x == Counted(card)
  <2>4. x \in Nat /\ arrived <= x /\ x <= arrived + g  BY <2>1, <2>3
  <2> HIDE DEF x
  <2>5. arrived <= x /\ x <= arrived + given  BY <2>2, <2>4
  <2> QED  BY <2>5 DEF FramesAccounted, Counted, x
<1> QED  BY <1>1, Invariance, PTL

\* While the guest's handler is idle and the ring holds a frame's end for it, RINT is up: no
\* acknowledgement clears what was delivered after the handler's read (write_csr0,
\* refresh_interrupt_summary).
THEOREM WakeupsAreKept == Spec => []NoLostWakeup
<1>1. ASSUME IInv  PROVE NoLostWakeup
  <2> DEFINE good == DOMAIN card.rx \ Owned(card.rx)
             run == RunLength(takeAt, RxLen, good)
  <2>1. card \in Card /\ takeAt \in 0 .. RxLen - 1  BY <1>1 DEF IInv, TypeInv
  <2>2. PICK f \in 0 .. RxLen : RxPlaced(Ready, takeAt, f)
    BY <1>1 DEF IInv, ReceiveInv, RxOk
  <2>3. \A j \in 0 .. RxLen - 1 : /\ Past(takeAt, j, RxLen) \in 0 .. RxLen - 1
                                  /\ card.rx[Past(takeAt, j, RxLen)].own <=> j >= f
    <3> SUFFICES ASSUME NEW j \in 0 .. RxLen - 1
                 PROVE  /\ Past(takeAt, j, RxLen) \in 0 .. RxLen - 1
                        /\ card.rx[Past(takeAt, j, RxLen)].own <=> j >= f
      OBVIOUS
    <3>1. j \in 0 .. RxLen  BY Lengths
    <3>2. Past(takeAt, j, RxLen) \in 0 .. RxLen - 1  BY <2>1, <3>1, Lengths, PastFacts
    <3>3. Ready.rx = card.rx  BY <2>1, ReadyIs
    <3>4. Rx(Ready, takeAt, j).own <=> j >= f  BY <2>2 DEF RxPlaced
    <3> QED  BY <3>2, <3>3, <3>4 DEF Rx
  <2>4. DOMAIN card.rx = 0 .. RxLen - 1  BY <2>1 DEF Card
  <2>5. \A j \in 0 .. RxLen - 1 : Past(takeAt, j, RxLen) \in good <=> ~(j >= f)
    BY <2>3, <2>4 DEF Owned
  <2>6. /\ \A j \in 0 .. f - 1 : Past(takeAt, j, RxLen) \in good
        /\ f < RxLen => Past(takeAt, f, RxLen) \notin good
    <3> HIDE DEF good
    <3>1. \A j \in 0 .. f - 1 : j \in 0 .. RxLen - 1 /\ ~(j >= f)  BY Lengths
    <3>2. f < RxLen => f \in 0 .. RxLen - 1 /\ f >= f  BY Lengths
    <3> QED  BY <2>5, <3>1, <3>2
  <2>7. run = f
    <3> HIDE DEF good
    <3> QED  BY <2>6, Lengths, RunIs
  <2> HIDE DEF run, good
  <2>8. ASSUME isr = "idle", NEW j \in 0 .. run - 1, card.rx[Past(takeAt, j, RxLen)].enp
        PROVE  "RINT" \in card.csr0
    <3>1. j \in 0 .. RxLen - 1 /\ ~(j >= f)  BY <2>7, Lengths
    <3>2. Waking(card)  BY <1>1, <2>8 DEF IInv, ReceiveInv
    <3> QED  BY <2>3, <2>8, <3>1, <3>2 DEF Waking
  <2> QED  BY <2>8 DEF NoLostWakeup, run, good
<1> QED  BY <1>1, Invariance, PTL

\* Receiving writes into the device's buffers only, and into none of a stopped chip
\* (queue_receive_frame, service_receive, write_receive_frame).
THEOREM BuffersAreSafe == Spec => GuestBuffersSafe
<1> DEFINE A == arrived' # arrived =>
                  /\ \A i \in 0 .. RxLen - 1 :
                       ~card.rx[i].own => ~card'.rx[i].own /\ card'.rx[i].unit = card.rx[i].unit
                  /\ "STOP" \in card.csr0 => card'.rx = card.rx
<1>1. ASSUME IInv, Next  PROVE A
  <2> SUFFICES ASSUME arrived' # arrived
               PROVE  Unread(card, card') /\ ("STOP" \in card.csr0 => card'.rx = card.rx)
    BY DEF Unread
  <2>1. PumpIn
    <3>1. UNCHANGED host => FALSE  BY DEF host
    <3>2. GuestStop \/ GuestPrepare \/ GuestStart \/ GuestGive => UNCHANGED host
      BY DEF GuestStop, GuestPrepare, GuestStart, GuestGive
    <3>3. GuestDemand \/ IsrRead \/ IsrAck \/ IsrTake => UNCHANGED host
      BY DEF GuestDemand, IsrRead, IsrAck, IsrTake
    <3>4. PumpOut => FALSE  BY DEF PumpOut
    <3> QED  BY <1>1, <3>1, <3>2, <3>3, <3>4 DEF Next, Guest
  <2> QED  BY <1>1, <2>1, Arrives
<1>2. ASSUME UNCHANGED vars  PROVE A
  BY <1>2 DEF vars
<1>3. IInv /\ [Next]_vars => [A]_vars  BY <1>1, <1>2
<1>4. Spec => [][A]_vars  BY <1>3, Invariance, PTL DEF Spec
<1> QED  BY <1>4 DEF GuestBuffersSafe
=============================================================================

-------------------------------- MODULE Lance --------------------------------
(***************************************************************************)
(* crates/rumiga-core/src/a2065.rs: the LANCE of the A2065 card, between a   *)
(* guest driver that shares its descriptor rings in board RAM and the host  *)
(* link of desktop/src/network.rs that is pumped once per frame.            *)
(*                                                                         *)
(* A buffer holds one unit of a frame.  A received frame is [id, size,       *)
(* mine]: its number, the buffers it needs, and whether the address filter  *)
(* accepts it.  A transmit buffer that is not `full` leaves its frame, if    *)
(* none of its buffers is, under the 60 bytes of the Ethernet minimum.      *)
(*                                                                         *)
(* The guest is external: it is taken to keep the ring discipline (it       *)
(* touches only descriptors it owns, in ring order, and writes fresh flags  *)
(* when it hands one over) and to prepare its rings before INIT.  The mode  *)
(* word is zero, loopback (a test aid) is off and the card stays enabled.   *)
(***************************************************************************)
EXTENDS Integers, Sequences

CONSTANTS
  RxLen, TxLen,       \* ring lengths
  MaxSize,            \* buffers the longest received frame needs
  MaxFrames,          \* bound on the frames received and transmitted
  MaxStarts           \* bound on the times the guest stops and starts the chip

ASSUME LanceAssumption ==
  /\ RxLen \in Nat \ {0} /\ TxLen \in Nat \ {0} /\ MaxSize \in Nat \ {0}
  /\ MaxFrames \in Nat /\ MaxStarts \in Nat

Event   == {"MISS", "RINT", "TINT", "IDON"}
Control == {"INEA", "STRT", "STOP", "INIT", "TDMD"}
Csr0Bit == Event \cup Control \cup {"INTR", "RXON", "TXON"}

VARIABLES
  card,       \* the device: see Reset
  \* the guest driver
  giveAt, building, given,    \* next transmit descriptor, units of the frame begun, frames
  takeAt, partial, delivered, \* next receive descriptor, units of the frame begun, frames
  isr, seen, starts,
  rings,      \* "used", "faulted" by a transmitter that stopped, or "prepared" anew
  \* the host link
  arrived,    \* frames that reached queue_receive_frame or were lost before it
  lostByHost, \* frames a failing capture lost between the card and the host
  wire        \* frames the host forwarded

guest == <<giveAt, building, given, takeAt, partial, delivered, isr, seen, starts,
           rings>>
host  == <<arrived, lostByHost, wire>>
vars  == <<card, giveAt, building, given, takeAt, partial, delivered, isr, seen,
           starts, rings, arrived, lostByHost, wire>>

NoUnit == <<0, 0, 0>>
RxFree == [own |-> TRUE, stp |-> FALSE, enp |-> FALSE, err |-> FALSE, unit |-> NoUnit]
TxIdle == [own |-> FALSE, stp |-> FALSE, enp |-> FALSE, err |-> FALSE,
           full |-> FALSE, unit |-> NoUnit]

\* reset_chip, with the queues empty and the rings as the guest prepares them.
Reset ==
  [csr0 |-> {"STOP"}, initialized |-> FALSE,
   rx |-> [i \in 0 .. RxLen - 1 |-> RxFree], rxAt |-> 0, pending |-> << >>,
   tx |-> [i \in 0 .. TxLen - 1 |-> TxIdle], txAt |-> 0, sent |-> << >>,
   rxPackets |-> 0, txPackets |-> 0, dropped |-> 0]
-----------------------------------------------------------------------------
(* The device *)

\* refresh_interrupt_summary
Summary(c) ==
  LET csr == c.csr0 \ {"INTR"} IN
  [c EXCEPT !.csr0 = IF "INEA" \in csr /\ csr \cap Event # {} THEN csr \cup {"INTR"}
                                                               ELSE csr]

\* The descriptor j after the one at `at`, in a ring of n.
Past(at, j, n) == (at + j) % n

\* How many descriptors in a row, from `at` on, are among the good ones.
RunLength(at, n, good) ==
  CHOOSE k \in 0 .. n :
    /\ \A j \in 0 .. k - 1 : Past(at, j, n) \in good
    /\ k < n => Past(at, k, n) \notin good

WrongOwnUnchecked(ring) == DOMAIN ring

Owned(ring) == {i \in DOMAIN ring : ring[i].own}

\* Replace the k descriptors from `at` on by new[0], ..., new[k - 1].
Rewrite(ring, at, n, k, new) ==
  [i \in 0 .. n - 1 |-> LET j == Past(i, n - at, n) IN IF j < k THEN new[j] ELSE ring[i]]

\* write_receive_frame: fill owned descriptors until the frame ends.  With none
\* it is missed; when the next one is the guest's the receiver stops and the
\* error is flagged in that descriptor; a whole ring too short is a miss.
WriteReceiveFrame(c, f) ==
  LET run  == RunLength(c.rxAt, RxLen, Owned(c.rx))
      used == IF run < f.size THEN run ELSE f.size
      filled == [j \in 0 .. used - 1 |->
                   [own |-> FALSE, stp |-> (j = 0), enp |-> (j + 1 = f.size),
                    err |-> FALSE, unit |-> <<f.id, j + 1, f.size>>]]
      next == Past(c.rxAt, used, RxLen)
      d    == [c EXCEPT !.rx = Rewrite(@, c.rxAt, RxLen, used, filled), !.rxAt = next]
  IN  CASE run >= f.size ->
             [d EXCEPT !.csr0 = @ \cup {"RINT"}, !.rxPackets = @ + 1]
        [] run < f.size /\ run \in {0, RxLen} ->
             [d EXCEPT !.csr0 = @ \cup {"MISS"}, !.dropped = @ + 1]
        [] OTHER ->
             [d EXCEPT !.rx[next].err = TRUE, !.csr0 = @ \ {"RXON"}, !.dropped = @ + 1]

\* A turn of the loop in service_receive: the first pending frame is skipped if it is not
\* for this station, and otherwise received or missed.
TakePending(c) ==
  LET f == Head(c.pending)
      d == [c EXCEPT !.pending = Tail(@)]
  IN  IF f.mine THEN Summary(WriteReceiveFrame(d, f)) ELSE [d EXCEPT !.dropped = @ + 1]

Receiving(c) == c.initialized /\ "RXON" \in c.csr0

\* service_receive: until a frame is missed or none is left.
ServiceReceive(c) ==
  LET n == Len(c.pending)
      after[k \in 0 .. n] == IF k = 0 THEN c ELSE TakePending(after[k - 1])
      Missed(k) == c.pending[k].mine /\ after[k].rxPackets = after[k - 1].rxPackets
      turns == CHOOSE k \in 0 .. n : /\ \A j \in 1 .. k - 1 : ~Missed(j)
                                     /\ k < n => k > 0 /\ Missed(k)
  IN  IF Receiving(c) THEN after[turns] ELSE c

\* queue_receive_frame
QueueReceiveFrame(c, f) == ServiceReceive([c EXCEPT !.pending = Append(@, f)])

\* read_transmit_frame and the rest of service_transmit: one frame per demand.
\* Descriptors that do not start a frame are skipped and stay owned.
TransmitFrame(c) ==
  LET run   == RunLength(c.txAt, TxLen, Owned(c.tx))
      Desc(j) == c.tx[Past(c.txAt, j, TxLen)]
      Ends  == {j \in 0 .. run - 1 : Desc(j).enp}
      whole == Ends # {}
      used  == IF whole THEN 1 + (CHOOSE j \in Ends : \A i \in Ends : j <= i) ELSE run
      gone  == [j \in 0 .. used - 1 |-> [Desc(j) EXCEPT !.own = FALSE]]
      next  == Past(c.txAt, used, TxLen)
      last  == Past(c.txAt, used - 1, TxLen)
      frame == [j \in 1 .. used |-> Desc(j - 1).unit]
      runt  == \A j \in 0 .. used - 1 : ~Desc(j).full
      d     == [c EXCEPT !.tx = Rewrite(@, c.txAt, TxLen, used, gone), !.txAt = next,
                         !.csr0 = @ \cup {"TINT"}]
  IN  CASE whole /\ ~runt ->
             ServiceReceive([d EXCEPT !.sent = Append(@, frame), !.txPackets = @ + 1])
        [] whole /\ runt ->
             [d EXCEPT !.tx[last].err = TRUE, !.csr0 = @ \ {"TXON"}, !.dropped = @ + 1]
        [] ~whole /\ run < TxLen ->
             [d EXCEPT !.tx[next].err = TRUE, !.csr0 = @ \ {"TXON"}]
        [] ~whole /\ run = TxLen ->
             [d EXCEPT !.dropped = @ + 1]

ServiceTransmit(c) ==
  LET skipped == RunLength(c.txAt, TxLen, {i \in Owned(c.tx) : ~c.tx[i].stp})
      d == [c EXCEPT !.txAt = Past(@, skipped, TxLen)]
  IN  IF {"TDMD", "TXON"} \subseteq c.csr0
      THEN IF skipped < TxLen /\ d.tx[d.txAt].own THEN TransmitFrame(d) ELSE d
      ELSE c

WrongInitKeepsPlace(c) ==
  [c EXCEPT !.initialized = TRUE, !.csr0 = @ \cup {"IDON"}]

WrongInitEmptiesQueue(c) ==
  [c EXCEPT !.initialized = TRUE, !.rxAt = 0, !.txAt = 0, !.pending = << >>,
            !.csr0 = @ \cup {"IDON"}]

\* initialize_chip
Initialize(c) ==
  [c EXCEPT !.initialized = TRUE, !.rxAt = 0, !.txAt = 0, !.csr0 = @ \cup {"IDON"}]

WrongMergeClearsAll(csr0, value) ==
  ((csr0 \ {"INEA"}) \cup (value \cap Control)) \ Event

\* write_csr0, first part: INEA is written, control bits are set, and an event is
\* cleared by writing a one to it.
Merge(csr0, value) ==
  ((csr0 \ {"INEA"}) \cup (value \cap Control)) \ (value \cap Event)

WrongServeTransmitOnly(c) ==
  IF c.initialized /\ "STRT" \in c.csr0 THEN ServiceTransmit(c) ELSE c

\* write_csr0, last part: serve both rings.
Serve(c) ==
  IF c.initialized /\ "STRT" \in c.csr0 THEN ServiceReceive(ServiceTransmit(c)) ELSE c

EndDemand(c) == Summary([c EXCEPT !.csr0 = @ \ {"TDMD"}])

\* write_csr0: STOP, STRT and INIT act on their rising edge.
WriteCsr0(c, value) ==
  LET prev == c.csr0
      csr  == Merge(prev, value)
      Rises(bit) == bit \in csr /\ bit \notin prev
      d == [c EXCEPT !.csr0 = csr]
      commanded ==
        CASE Rises("STOP") -> [d EXCEPT !.csr0 = {"STOP"}]
          [] ~Rises("STOP") /\ Rises("STRT") /\ prev \cap {"STOP", "INIT"} # {} ->
               LET e == [d EXCEPT !.csr0 = (@ \ {"STOP"}) \cup {"TXON", "RXON"}] IN
               IF Rises("INIT") THEN Initialize(e) ELSE e
          [] ~Rises("STOP") /\ ~(Rises("STRT") /\ prev \cap {"STOP", "INIT"} # {})
               /\ Rises("INIT") /\ "STOP" \in prev ->
               LET e == Initialize(d) IN
               [e EXCEPT !.csr0 = @ \ {"RXON", "TXON", "STOP"}]
          [] OTHER -> d
  IN  EndDemand(Serve(commanded))
-----------------------------------------------------------------------------
(* The guest driver *)

Init ==
  /\ card = Reset
  /\ giveAt = 0 /\ building = 0 /\ given = 0
  /\ takeAt = 0 /\ partial = << >> /\ delivered = << >>
  /\ isr = "idle" /\ seen = {} /\ starts = 0 /\ rings = "prepared"
  /\ arrived = 0 /\ lostByHost = {} /\ wire = << >>

\* Stop the chip, and look at the receive ring before trusting interrupts again.
GuestStop ==
  /\ "STOP" \notin card.csr0
  /\ card' = WriteCsr0(card, {"STOP"})
  /\ isr' = "drain"
  /\ rings' = IF rings = "faulted" \/ ("STRT" \in card.csr0 /\ "TXON" \notin card.csr0)
              THEN "faulted" ELSE "used"
  /\ UNCHANGED <<giveAt, building, given, takeAt, partial, delivered, seen, starts>>
  /\ UNCHANGED host

\* Set up both rings for an INIT; the chip is stopped.
GuestPrepare ==
  /\ "STOP" \in card.csr0 /\ rings # "prepared" /\ isr = "idle"
  /\ card' = [card EXCEPT !.rx = Reset.rx, !.tx = Reset.tx]
  /\ giveAt' = 0 /\ building' = 0 /\ takeAt' = 0 /\ partial' = << >>
  /\ rings' = "prepared"
  /\ UNCHANGED <<given, delivered, isr, seen, starts>> /\ UNCHANGED host

\* INIT, then STRT, or both at once, on prepared rings; or STRT alone to go on
\* with the old ones, which a stopped transmitter forbids.
GuestStart ==
  /\ starts < MaxStarts /\ starts' = starts + 1
  /\ "STRT" \notin card.csr0 /\ isr = "idle"
  /\ \E cmd \in {{"INIT"}, {"STRT"}, {"INIT", "STRT"}} :
       /\ IF "STOP" \notin card.csr0 THEN cmd = {"STRT"}
          ELSE IF cmd = {"STRT"} THEN rings = "used" ELSE rings = "prepared"
       /\ card' = WriteCsr0(card, cmd \cup {"INEA"})
  /\ rings' = "used"
  /\ UNCHANGED <<giveAt, building, given, takeAt, partial, delivered, isr, seen>>
  /\ UNCHANGED host

\* Hand the next transmit descriptor over: the next unit of the frame begun.
GuestGive ==
  /\ building = 0 => arrived + given < MaxFrames
  /\ rings = "used" /\ "STOP" \notin card.csr0 /\ ~card.tx[giveAt].own
  /\ \E enp, full \in BOOLEAN :
       /\ building + 1 = TxLen => enp
       /\ card' = [card EXCEPT !.tx[giveAt] =
            [own |-> TRUE, stp |-> (building = 0), enp |-> enp, err |-> FALSE,
             full |-> full,
             unit |-> <<IF building = 0 THEN given + 1 ELSE given, building + 1,
                        IF enp THEN building + 1 ELSE 0>>]]
       /\ building' = IF enp THEN 0 ELSE building + 1
  /\ given' = IF building = 0 THEN given + 1 ELSE given
  /\ giveAt' = Past(giveAt, 1, TxLen)
  /\ UNCHANGED <<takeAt, partial, delivered, isr, seen, starts, rings>>
  /\ UNCHANGED host

\* Demand transmission.
GuestDemand ==
  /\ "STRT" \in card.csr0
  /\ card' = WriteCsr0(card, {"TDMD", "INEA"})
  /\ UNCHANGED guest /\ UNCHANGED host

\* The interrupt handler reads CSR0, acknowledges what it has read, and then
\* takes filled descriptors until it meets one that the device owns.
IsrRead ==
  /\ isr = "idle" /\ "INTR" \in card.csr0
  /\ seen' = card.csr0 \cap Event /\ isr' = "ack"
  /\ UNCHANGED <<card, giveAt, building, given, takeAt, partial, delivered, starts,
                 rings>>
  /\ UNCHANGED host

IsrAck ==
  /\ isr = "ack" /\ isr' = "drain"
  /\ card' = WriteCsr0(card, seen \cup {"INEA"})
  /\ UNCHANGED <<giveAt, building, given, takeAt, partial, delivered, seen, starts,
                 rings>>
  /\ UNCHANGED host

\* STP begins a frame anew, ENP completes it; an error discards it, and what follows up
\* to the next STP is passed over.
IsrTake ==
  LET d == card.rx[takeAt]
      units == CASE d.stp                      -> <<d.unit>>
                 [] ~d.stp /\ partial # << >> -> Append(partial, d.unit)
                 [] ~d.stp /\ partial = << >> -> << >>
  IN
  /\ isr = "drain"
  /\ \/ /\ d.own
        /\ isr' = "idle"
        /\ UNCHANGED <<card, takeAt, partial, delivered>>
     \/ /\ ~d.own
        /\ card' = [card EXCEPT !.rx[takeAt] = RxFree]
        /\ takeAt' = Past(takeAt, 1, RxLen)
        /\ partial' = IF d.err \/ d.enp THEN << >> ELSE units
        /\ delivered' = IF d.enp /\ ~d.err /\ units # << >> THEN Append(delivered, units)
                                                            ELSE delivered
        /\ UNCHANGED isr
  /\ UNCHANGED <<giveAt, building, given, seen, starts, rings>> /\ UNCHANGED host

Guest ==
  \/ GuestStop \/ GuestPrepare \/ GuestStart \/ GuestGive \/ GuestDemand
  \/ IsrRead \/ IsrAck \/ IsrTake
-----------------------------------------------------------------------------
(* The host *)

Frames == [size : 1 .. MaxSize, mine : BOOLEAN]

\* NetworkManager::pump between two emulated frames: forward every transmitted
\* frame, then queue the frames the host has received.  A capture file that
\* cannot be written ends the pump; the frame in hand is lost, and so are the
\* frames already drained from the host.
PumpOut ==
  /\ \E k \in 0 .. Len(card.sent) :
       \/ /\ k = Len(card.sent)
          /\ wire' = wire \o card.sent
          /\ card' = [card EXCEPT !.sent = << >>]
          /\ UNCHANGED lostByHost
       \/ /\ k < Len(card.sent)
          /\ wire' = wire \o SubSeq(card.sent, 1, k)
          /\ lostByHost' = lostByHost \cup {card.sent[k + 1]}
          /\ card' = [card EXCEPT !.sent = SubSeq(@, k + 2, Len(@))]
  /\ card.sent # << >>
  /\ UNCHANGED arrived /\ UNCHANGED guest

PumpIn ==
  /\ card.sent = << >>
  /\ arrived + given < MaxFrames /\ arrived' = arrived + 1
  /\ \E f \in Frames :
       card' = QueueReceiveFrame(card, [id |-> arrived + 1, size |-> f.size,
                                        mine |-> f.mine])
  /\ UNCHANGED <<lostByHost, wire>> /\ UNCHANGED guest

Next == Guest \/ PumpOut \/ PumpIn

\* The guest's interrupt handler runs when it is interrupted, and finishes.
Fairness == WF_vars(IsrRead) /\ WF_vars(IsrAck) /\ WF_vars(IsrTake)

Spec == Init /\ [][Next]_vars /\ Fairness
-----------------------------------------------------------------------------
IsWhole(units) ==
  \A i \in 1 .. Len(units) :
    /\ units[i][1] = units[1][1] /\ units[i][2] = i
    /\ i = Len(units) => units[i][3] = i

\* What the guest reassembles from its ring, STP to ENP, is exactly the frames
\* that arrived: each whole, once, in the order of arrival - over misses, chains
\* broken by a full ring, address filtering, stops and restarts.
ReceivedWhole ==
  /\ \A k \in 1 .. Len(delivered) : IsWhole(delivered[k])
  /\ \A k \in 1 .. Len(delivered) - 1 : delivered[k][1][1] < delivered[k + 1][1][1]

\* What leaves the card is exactly frames the guest chained, each whole, once and
\* in order, whether or not an underflow or a restart came in between.
Outgoing == wire \o card.sent
TransmittedWhole ==
  /\ \A k \in 1 .. Len(Outgoing) : IsWhole(Outgoing[k])
  /\ \A k \in 1 .. Len(Outgoing) - 1 : Outgoing[k][1][1] < Outgoing[k + 1][1][1]

\* Every frame that reached the card is still pending, or was delivered, or is
\* in the dropped counter; with no transmission the account is exact.
FramesAccounted ==
  LET counted == Len(card.pending) + card.rxPackets + card.dropped IN
  arrived <= counted /\ counted <= arrived + given

\* No lost wakeup: while the handler is not running and the ring holds a whole
\* frame for the guest, RINT is still up.  Between the handler's read of CSR0
\* and its write the device may have delivered more.
NoLostWakeup ==
  LET run == RunLength(takeAt, RxLen, DOMAIN card.rx \ Owned(card.rx))
  IN  isr = "idle" /\ (\E j \in 0 .. run - 1 : card.rx[Past(takeAt, j, RxLen)].enp)
        => "RINT" \in card.csr0

\* The host never writes into a buffer that belongs to the guest, and touches no
\* ring of a chip that is stopped.
GuestBuffersSafe ==
  [][ arrived' # arrived =>
        /\ \A i \in 0 .. RxLen - 1 :
             ~card.rx[i].own => ~card'.rx[i].own /\ card'.rx[i].unit = card.rx[i].unit
        /\ "STOP" \in card.csr0 => card'.rx = card.rx ]_vars

\* The queue of frames for a receiver that is on does not fill forever: once the
\* interrupt handler has run, frames are delivered or dropped, never parked -
\* unless the chip is stopped, or switched its receiver off.
PendingResolved ==
  card.pending # << >> ~> (card.pending = << >> \/ "RXON" \notin card.csr0)
=============================================================================

------------------------------ MODULE Keyboard ------------------------------
(***************************************************************************)
(* crates/rumiga-core/src/emulator.rs: the way of a key from the shell to    *)
(* the guest.  key_event puts it into a bounded queue between two frames; at *)
(* the end of a scanline the machine moves the oldest key into CIA-A's       *)
(* serial register and raises the serial interrupt; CIA-A's line drives      *)
(* INT_PORTS of INTREQ; the guest's handler reads the CIA and clears INTREQ. *)
(*                                                                         *)
(* Guest instructions run at the beginning of a scanline, so any number of  *)
(* guest steps come before each EndScanline.  A key and its direction are   *)
(* one value: press and release codes are distinct and their translation to *)
(* the serial code is a bijection.                                         *)
(*                                                                         *)
(* The guest is external: a keyboard driver that keeps the serial interrupt *)
(* enabled, and another user of timer A.  Its handler may be late, but once  *)
(* it has taken the interrupt's cause from ICR it reads the serial register  *)
(* before Patience vertical blanks have passed since the key came, or, if    *)
(* they have passed already, within the scanline.  A guest that is not late  *)
(* finishes its handler within the scanline that interrupts it.            *)
(*                                                                         *)
(* CiasSpec puts both chips of the machine side by side: CIA-A with the     *)
(* keyboard, and CIA-B as CiaUse has it.                                   *)
(***************************************************************************)
EXTENDS BoundedQueue, CiaUse

CONSTANTS
  Capacity,   \* MAX_KEY_EVENTS
  Lines,      \* scanlines of a frame
  Ticks,      \* CIA ticks of a scanline
  Gap,        \* keyboard_delay after a key
  Patience,
  Loads,      \* values the guest writes to the latch of timer A
  MaxKeys,    \* bound on the keys of one behaviour
  MaxLoads    \* bound on the times the guest starts timer A

ASSUME KeyboardAssumption ==
  /\ Capacity \in Nat /\ Lines \in Nat \ {0} /\ Ticks \in Nat \ {0}
  /\ Gap \in Nat /\ Patience \in Nat /\ MaxKeys \in Nat /\ MaxLoads \in Nat
  /\ Loads \subseteq Word

\* The guest is faster than keyboard_delay: a key that waits for the line alone
\* would be overwritten once the handler has released it.
ASSUME PatienceAssumption == Patience < Gap

VARIABLES
  keys,       \* key_events
  delay,      \* keyboard_delay
  vpos,
  ciaA,
  ports,      \* INT_PORTS in INTREQ
  \* the guest
  late,       \* whether its handler may outlast a scanline
  handler,    \* "idle", "entered", "serial" (about to read it) or "leaving"
  cleared,    \* this run of the handler has cleared INT_PORTS
  received,   \* keys its driver has got, in order
  loads,
  \* history
  pressed,    \* keys the shell delivered; each has the next number
  admitted,   \* those the queue accepted, in order
  age,        \* vertical blanks since the last key went to the register
  moves       \* of both chips the one that moves

guest == <<late, handler, cleared, received, loads>>
input == <<pressed, admitted>>
vars  == <<keys, delay, vpos, ciaA, ports, late, handler, cleared, received, loads,
           pressed, admitted, age>>

\* The driver has enabled its interrupt.
Init ==
  /\ keys = New(Capacity, "RejectNewest") /\ delay = 0 /\ vpos = 0
  /\ ciaA = [NewChip EXCEPT !.mask = {"SP"}]
  /\ ports = FALSE
  /\ late \in BOOLEAN
  /\ handler = "idle" /\ cleared = FALSE /\ received = << >> /\ loads = 0
  /\ pressed = 0 /\ admitted = << >> /\ age = 0
-----------------------------------------------------------------------------
(* The shell, between two frames *)

KeyEvent ==
  /\ vpos = 0 /\ pressed < MaxKeys /\ pressed' = pressed + 1
  /\ keys' = Push(keys, pressed + 1)
  /\ admitted' = IF Admission(keys) = "Rejected" THEN admitted
                                                 ELSE Append(admitted, pressed + 1)
  /\ UNCHANGED <<delay, vpos, ciaA, ports, age>> /\ UNCHANGED guest
-----------------------------------------------------------------------------
(* The end of run_scanline *)

WrongRaisedByEdge(before, c) == c.ir /\ ~before.ir

\* INT_PORTS follows the level of the line, not its edges: the line may have
\* been raised by a key, after the ticks of the scanline before.
Raised(before, c) == c.ir

WrongQuiet(c) == TRUE

Quiet(c) == ~c.ir

WrongDelayStays(d, blank) == IF blank /\ d > 1 THEN d - 1 ELSE d

\* keyboard_delay is counted down by vertical blanks.
AfterDelay(d, blank) == IF blank /\ d > 0 THEN d - 1 ELSE d

\* The key block comes between the ticks and the vertical blank: the oldest key
\* goes to the serial register if the delay is over and the line is down.
EndScanline ==
  LET line   == (vpos + 1) % Lines
      blank  == line = 0
      ticked == Ticked(ciaA, Ticks)
      feeds  == delay = 0 /\ Quiet(ticked) /\ keys.items # << >>
  IN
  /\ handler = "serial" => age < Patience
  /\ ~late => handler = "idle" /\ ~ports
  /\ vpos' = line
  /\ ports' = (ports \/ Raised(ciaA, ticked))
  /\ IF feeds
     THEN /\ ciaA' = LoadSerial(ticked, Head(keys.items))
          /\ keys' = Pop(keys)
          /\ age' = 0
     ELSE /\ ciaA' = ticked
          /\ age' = IF blank /\ age < Patience THEN age + 1 ELSE age
          /\ UNCHANGED keys
  /\ delay' = AfterDelay(IF feeds THEN Gap ELSE delay, blank)
  /\ UNCHANGED guest /\ UNCHANGED input
-----------------------------------------------------------------------------
(* The guest *)

Enter ==
  /\ handler = "idle" /\ ports /\ handler' = "entered" /\ cleared' = FALSE
  /\ UNCHANGED <<keys, delay, vpos, ciaA, ports, received, loads, late, age>>
  /\ UNCHANGED input

ReadCause ==
  /\ handler = "entered"
  /\ handler' = IF "SP" \in ciaA.data THEN "serial" ELSE "leaving"
  /\ ciaA' = AfterReadIcr(ciaA)
  /\ UNCHANGED <<keys, delay, vpos, ports, cleared, received, loads, late, age>>
  /\ UNCHANGED input

ReadKey ==
  /\ handler = "serial" /\ handler' = "leaving"
  /\ received' = Append(received, ciaA.sdr)
  /\ UNCHANGED <<cleared, keys, delay, vpos, ciaA, ports, loads, late, age>>
  /\ UNCHANGED input

\* INT_PORTS is cleared once, at any point of the handler: before the cause is
\* read it comes back with the next scanline.
ClearPorts ==
  /\ handler # "idle" /\ ~cleared /\ cleared' = TRUE /\ ports' = FALSE
  /\ UNCHANGED <<keys, delay, vpos, ciaA, handler, received, loads, late, age>>
  /\ UNCHANGED input

Leave ==
  /\ handler = "leaving" /\ cleared /\ handler' = "idle"
  /\ UNCHANGED <<cleared, keys, delay, vpos, ciaA, ports, received, loads, late, age>>
  /\ UNCHANGED input

\* Another driver loads and starts timer A, or stops it, with its interrupt on.
UseTimer ==
  /\ loads < MaxLoads /\ loads' = loads + 1
  /\ \E n \in Loads, oneShot \in BOOLEAN :
       ciaA' = WriteIcr([ciaA EXCEPT !.timer["TA"] =
                  [count |-> n, latch |-> n, running |-> TRUE, oneShot |-> oneShot]],
                  TRUE, {"TA"})
  /\ UNCHANGED <<keys, delay, vpos, ports, late, handler, cleared, received, age>>
  /\ UNCHANGED input

Handler == Enter \/ ReadCause \/ ReadKey \/ ClearPorts \/ Leave

Next == KeyEvent \/ EndScanline \/ Handler \/ UseTimer

\* The machine runs, and the handler runs when it is interrupted and finishes.
Fairness == WF_vars(EndScanline) /\ WF_vars(Handler)

Spec == Init /\ [][Next]_vars /\ Fairness
-----------------------------------------------------------------------------
(* Both chips *)

\* The chips share no state and no step: in one behaviour CIA-A moves with all
\* that surrounds it, in another CIA-B, and the other chip rests.
CiasInit ==
  /\ Init /\ ChipInit
  /\ moves \in {"CIA-A", "CIA-B"}
  /\ moves = "CIA-A" => uses = CHOOSE g \in Guests : TRUE
  /\ moves = "CIA-B" => ~late

CiaA == moves = "CIA-A" /\ Next /\ UNCHANGED <<moves, chipVars>>

CiaB == moves = "CIA-B" /\ ChipNext /\ UNCHANGED <<moves, vars>>

CiasSpec ==
  /\ CiasInit /\ [][CiaA \/ CiaB]_<<moves, vars, chipVars>>
  /\ WF_vars(moves = "CIA-A" /\ EndScanline) /\ WF_vars(moves = "CIA-A" /\ Handler)
-----------------------------------------------------------------------------
\* Every variable has its type; the delay never passes zero.
TypeOK ==
  /\ keys \in Queue(Nat) /\ Len(keys.items) <= Capacity
  /\ delay \in 0 .. Gap /\ vpos \in 0 .. Lines - 1 /\ age \in 0 .. Patience
  /\ ciaA.data \subseteq Source /\ ciaA.ir \in BOOLEAN
  /\ late \in BOOLEAN /\ ports \in BOOLEAN /\ cleared \in BOOLEAN
  /\ handler \in {"idle", "entered", "serial", "leaving"}
  /\ received \in Seq(Nat) /\ admitted \in Seq(Nat)
  /\ loads \in Nat /\ pressed \in Nat

\* The key in the serial register that the guest has not read.
InRegister ==
  IF "SP" \in ciaA.data \/ handler = "serial" THEN <<ciaA.sdr>> ELSE << >>

\* No key that the queue accepted is lost, doubled or overtaken on its way: what
\* was accepted is what the guest has got, what waits in the serial register,
\* and what is queued, in this order.  The register has no second place, so a
\* late handler is protected by the line, and one that has released the line by
\* the delay.
KeysKept == admitted = received \o InRegister \o keys.items

\* Every interrupt of CIA-A is handled: a line that is up is released, although
\* the handler may clear INT_PORTS at any point, before or after a new cause.
InterruptsHandled == ciaA.ir ~> ~ciaA.ir

\* Every accepted key reaches a guest whose handler is prompt, while another
\* driver keeps timer A running - slower than one underflow per scanline.
KeysArrive ==
  \A n \in 1 .. MaxKeys : ~late /\ Len(admitted) >= n ~> Len(received) >= n
=============================================================================

--------------------------------- MODULE Cia ---------------------------------
(***************************************************************************)
(* crates/rumiga-core/src/cia.rs: one CIA 8520 as a data type.  A chip is a  *)
(* record and every register access, tick and external signal is an         *)
(* operator from the old chip to the new one.                               *)
(*                                                                         *)
(* A byte has Byte values (256), so a timer counts modulo Byte^2 and the    *)
(* time of day modulo Byte^3.  The interrupt registers are sets of sources. *)
(* Ports, data direction and the write statistics only store and are left  *)
(* out, as are the alarm, which the code never compares with the time, and  *)
(* the bit that sends writes to it.                                        *)
(***************************************************************************)
EXTENDS Naturals

CONSTANTS
  Byte,       \* values of a byte
  NoCode      \* the serial register after a reset

ASSUME ByteAssumption == Byte \in Nat \ {0, 1}

Source == {"TA", "TB", "SP", "FLG"}
Which  == {"TA", "TB"}
Word   == 0 .. Byte * Byte - 1

NewTimer ==
  [count |-> Byte * Byte - 1, latch |-> Byte * Byte - 1,
   running |-> FALSE, oneShot |-> FALSE]

\* CiaState::new.  Times are <<high, mid, low>>.
NewChip ==
  [timer |-> [w \in Which |-> NewTimer],
   data |-> {}, mask |-> {}, ir |-> FALSE, sdr |-> NoCode,
   tod |-> <<0, 0, 0>>, latched |-> FALSE, latch |-> <<0, 0, 0>>]
-----------------------------------------------------------------------------
(* Timers *)

\* A write to the low byte changes the latch only.
WriteLow(t, b) == [t EXCEPT !.latch = (@ \div Byte) * Byte + b]

WrongHighReloads(t, b) ==
  LET latch == (t.latch % Byte) + b * Byte IN
  [t EXCEPT !.latch = latch, !.count = latch, !.running = @ \/ t.oneShot]

\* A write to the high byte also loads a counter that is stopped or one-shot,
\* and starts a one-shot timer.
WriteHigh(t, b) ==
  LET latch == (t.latch % Byte) + b * Byte IN
  [t EXCEPT !.latch   = latch,
            !.count   = IF t.running /\ ~t.oneShot THEN @ ELSE latch,
            !.running = @ \/ t.oneShot]

\* A write to the control register; the force-load bit is not stored.
WriteControl(t, start, oneShot, load) ==
  [t EXCEPT !.running = start, !.oneShot = oneShot,
            !.count = IF load THEN t.latch ELSE @]

Underflows(t) == t.running /\ t.count = 0

\* One tick: below zero the counter is reloaded, and a one-shot timer stops.
StepTimer(t) ==
  IF Underflows(t) THEN [t EXCEPT !.count = t.latch, !.running = ~t.oneShot]
  ELSE IF t.running THEN [t EXCEPT !.count = @ - 1] ELSE t
-----------------------------------------------------------------------------
(* Interrupts *)

\* "RethinkICR": a pending source that is enabled asserts the line, and only
\* reading the register releases it.
Rethink(c) == [c EXCEPT !.ir = @ \/ c.data \cap c.mask # {}]

WrongMaskedUnreported(c) ==
  Rethink([c EXCEPT !.timer = [w \in Which |-> StepTimer(c.timer[w])],
                    !.data  = @ \cup {w \in Which \cap c.mask : Underflows(c.timer[w])}])

\* tick: both timers, and every pending source is looked at again.
Tick(c) ==
  Rethink([c EXCEPT !.timer = [w \in Which |-> StepTimer(c.timer[w])],
                    !.data  = @ \cup {w \in Which : Underflows(c.timer[w])}])

\* The E-clock loop of run_scanline: n ticks one after another.  Nothing reads the
\* chip in between.
Ticked(c, n) ==
  LET after[k \in 0 .. n] == IF k = 0 THEN c ELSE Tick(after[k - 1]) IN after[n]

SetFlag(c) == Rethink([c EXCEPT !.data = @ \cup {"FLG"}])

LoadSerial(c, code) ==
  [c EXCEPT !.sdr = code, !.data = @ \cup {"SP"}, !.ir = @ \/ "SP" \in c.mask]

\* A read of ICR returns data and releases everything at once.
AfterReadIcr(c) == [c EXCEPT !.data = {}, !.ir = FALSE]

WrongMaskIgnoresPending(c, enable, sources) ==
  [c EXCEPT !.mask = IF enable THEN @ \cup sources ELSE @ \ sources]

\* A write to ICR sets or clears mask bits; a pending source may now assert.
WriteIcr(c, enable, sources) ==
  Rethink([c EXCEPT !.mask = IF enable THEN @ \cup sources ELSE @ \ sources])

\* A write to port B of CIA-B enables FLAG, behind the back of the chip: a
\* pending pulse does not assert the line here.
EnableFlag(c) == [c EXCEPT !.mask = @ \cup {"FLG"}]

\* The guest may write the serial register as well; that is no event.
WriteSerial(c, code) == [c EXCEPT !.sdr = code]
-----------------------------------------------------------------------------
(* Time of day *)

Wrap(digit) == (digit + 1) % Byte

\* tick_tod, with its carries.
TickTod(c) ==
  LET low  == Wrap(c.tod[3])
      mid  == IF low = 0 THEN Wrap(c.tod[2]) ELSE c.tod[2]
      high == IF low = 0 /\ mid = 0 THEN Wrap(c.tod[1]) ELSE c.tod[1]
  IN  [c EXCEPT !.tod = <<high, mid, low>>]

\* What a read of digit i returns.  A read of the high digit latches the time,
\* and a read of the low digit returns to the running time.
TodDigit(c, i) == IF c.latched /\ i # 1 THEN c.latch[i] ELSE c.tod[i]

WrongMidUnlatches(c, i) ==
  CASE i = 1 -> [c EXCEPT !.latched = TRUE, !.latch = c.tod]
    [] OTHER -> [c EXCEPT !.latched = FALSE]

AfterReadTod(c, i) ==
  CASE i = 1 -> [c EXCEPT !.latched = TRUE, !.latch = c.tod]
    [] i = 3 -> [c EXCEPT !.latched = FALSE]
    [] OTHER -> c

\* A write replaces one digit of the running time, which does not stop.
WriteTod(c, i, b) == [c EXCEPT !.tod[i] = b]
=============================================================================

------------------------------- MODULE CiaUse -------------------------------
(***************************************************************************)
(* A CIA between its guest, which accesses the registers in any order, and  *)
(* the machine, which ticks it 45 times a scanline, clocks its time of day, *)
(* pulses FLAG and loads its serial register.  One routine of the guest     *)
(* reads the time of day, high digit first, and may give up on the way.     *)
(***************************************************************************)
EXTENDS Cia

CONSTANTS
  ChipB,      \* whether the chip is CIA-B
  Guests,     \* for each guest, what it accesses of Part; the rest it leaves alone
  Code        \* bytes for the serial register

\* What a guest may use: the timers and the time of day.
Part == Which \cup {"TOD"}

ASSUME CiaUseAssumption ==
  ChipB \in BOOLEAN /\ Guests \subseteq SUBSET Part /\ NoCode \notin Code

VARIABLES
  uses,       \* what the guest of this behaviour accesses
  chip,
  \* the routine that reads the time
  digit,      \* digit it reads next
  readout,    \* digits it has read
  \* history
  asked,      \* the time when it read the high digit
  loaded,     \* value each counter was last loaded with
  elapsed,    \* ticks each counter has counted since
  fired,      \* one-shot timers that have fired and were not started again
  due         \* timers whose period has ended since ICR was last read

reader  == <<digit, readout, asked>>
history == <<loaded, elapsed, fired, due>>
chipVars    == <<uses, chip, digit, readout, asked, loaded, elapsed, fired, due>>

ChipInit ==
  /\ uses \in Guests
  /\ chip = NewChip
  /\ digit = 1 /\ readout = << >> /\ asked = <<0, 0, 0>>
  /\ loaded = [w \in Which |-> chip.timer[w].count]
  /\ elapsed = [w \in Which |-> 0]
  /\ fired = {} /\ due = {}
-----------------------------------------------------------------------------
(* The guest *)

SetTimer(w, t) == chip' = [chip EXCEPT !.timer[w] = t]

\* The counter of w is loaded with n, or goes on.
Reloaded(w, n) ==
  /\ loaded' = [loaded EXCEPT ![w] = n]
  /\ elapsed' = [elapsed EXCEPT ![w] = 0]

Undisturbed == UNCHANGED <<loaded, elapsed>>

WriteTimerLow(w, b) ==
  /\ SetTimer(w, WriteLow(chip.timer[w], b))
  /\ Undisturbed
  /\ UNCHANGED <<fired, due>> /\ UNCHANGED reader

WriteTimerHigh(w, b) ==
  LET t == chip.timer[w] IN
  /\ SetTimer(w, WriteHigh(t, b))
  /\ IF t.running /\ ~t.oneShot THEN Undisturbed
                                ELSE Reloaded(w, (t.latch % Byte) + b * Byte)
  /\ fired' = IF t.oneShot THEN fired \ {w} ELSE fired
  /\ UNCHANGED due /\ UNCHANGED reader

WriteTimerControl(w, start, oneShot, load) ==
  LET t == chip.timer[w] IN
  /\ SetTimer(w, WriteControl(t, start, oneShot, load))
  /\ IF load THEN Reloaded(w, t.latch) ELSE Undisturbed
  /\ fired' = IF start THEN fired \ {w} ELSE fired
  /\ UNCHANGED due /\ UNCHANGED reader

WriteInterrupt(enable, sources) ==
  /\ chip' = WriteIcr(chip, enable, sources)
  /\ UNCHANGED history /\ UNCHANGED reader

WritePortB ==
  /\ ChipB
  /\ chip' = EnableFlag(chip)
  /\ UNCHANGED history /\ UNCHANGED reader

WriteSerialByte ==
  /\ \E code \in Code : chip' = WriteSerial(chip, code)
  /\ UNCHANGED history /\ UNCHANGED reader

ReadInterrupt ==
  /\ chip' = AfterReadIcr(chip)
  /\ due' = {}
  /\ UNCHANGED <<loaded, elapsed, fired>> /\ UNCHANGED reader

\* The routine reads the next digit; the first one begins a new reading.
ReadTime ==
  /\ "TOD" \in uses
  /\ chip' = AfterReadTod(chip, digit)
  /\ readout' = [i \in 1 .. digit |-> IF i = digit THEN TodDigit(chip, i)
                                                   ELSE readout[i]]
  /\ asked' = IF digit = 1 THEN chip.tod ELSE asked
  /\ digit' = (digit % 3) + 1
  /\ UNCHANGED history

GiveUp ==
  /\ digit # 1 /\ digit' = 1
  /\ readout' = << >>
  /\ UNCHANGED <<chip, asked>> /\ UNCHANGED history

WriteTime(i, b) ==
  /\ "TOD" \in uses
  /\ chip' = WriteTod(chip, i, b)
  /\ UNCHANGED history /\ UNCHANGED reader

Guest ==
  \/ \E w \in uses \cap Which, b \in 0 .. Byte - 1 : WriteTimerLow(w, b) \/ WriteTimerHigh(w, b)
  \/ \E w \in uses \cap Which, start, oneShot, load \in BOOLEAN :
       WriteTimerControl(w, start, oneShot, load)
  \/ \E enable \in BOOLEAN, sources \in SUBSET Source : WriteInterrupt(enable, sources)
  \/ \E i \in 1 .. 3, b \in 0 .. Byte - 1 : WriteTime(i, b)
  \/ WritePortB \/ WriteSerialByte \/ ReadInterrupt \/ ReadTime \/ GiveUp
-----------------------------------------------------------------------------
(* The machine *)

\* The history keeps time by itself: a period of a running timer ends with the
\* tick after those that count it down to zero.
TickTimers ==
  LET Runs(w) == chip.timer[w].running
      Ends(w) == Runs(w) /\ elapsed[w] = loaded[w]
      Ended   == {w \in Which : Ends(w)}
  IN
  /\ chip' = Tick(chip)
  /\ loaded' = [w \in Which |-> IF Ends(w) THEN chip.timer[w].latch ELSE loaded[w]]
  /\ elapsed' = [w \in Which |-> IF Ends(w) THEN 0
                                 ELSE IF Runs(w) THEN elapsed[w] + 1 ELSE elapsed[w]]
  /\ fired' = fired \cup {w \in Ended : chip.timer[w].oneShot}
  /\ due' = due \cup Ended
  /\ UNCHANGED reader

ClockTime ==
  /\ "TOD" \in uses
  /\ chip' = TickTod(chip)
  /\ UNCHANGED history /\ UNCHANGED reader

PulseFlag ==
  /\ chip' = SetFlag(chip)
  /\ UNCHANGED history /\ UNCHANGED reader

ReceiveByte ==
  /\ \E code \in Code : chip' = LoadSerial(chip, code)
  /\ UNCHANGED history /\ UNCHANGED reader

Machine == TickTimers \/ ClockTime \/ PulseFlag \/ ReceiveByte

ChipNext == (Guest \/ Machine) /\ UNCHANGED uses

ChipSpec == ChipInit /\ [][ChipNext]_chipVars
-----------------------------------------------------------------------------
Timer == [count : Word, latch : Word, running : BOOLEAN, oneShot : BOOLEAN]
Time  == [1 .. 3 -> 0 .. Byte - 1]

\* Every part has its type: no counter, latch or digit leaves its width.
ChipTypeOK ==
  /\ chip.timer \in [Which -> Timer]
  /\ chip.data \subseteq Source /\ chip.mask \subseteq Source
  /\ chip.ir \in BOOLEAN /\ chip.latched \in BOOLEAN
  /\ chip.sdr \in Code \cup {NoCode}
  /\ chip.tod \in Time /\ chip.latch \in Time
  /\ digit \in 1 .. 3 /\ asked \in Time /\ uses \in Guests
  /\ loaded \in [Which -> Word] /\ elapsed \in [Which -> Word]
  /\ fired \subseteq Which /\ due \subseteq Which

\* The interrupt line tells the truth: it is up while an enabled source waits to
\* be read, in whatever order the source came and was enabled, and a handler
\* that finds it up finds a cause.  On CIA-B it may lag behind for FLAG, which a
\* write to port B enables without a look at what is pending.
LineTruthful ==
  /\ ~chip.ir => chip.data \cap chip.mask \subseteq IF ChipB THEN {"FLG"} ELSE {}
  /\ chip.ir => chip.data # {}

\* It does not lag for longer than a tick: a tick asserts the line for whatever
\* is pending and enabled, not only for what the tick itself adds.
LineCaughtUp ==
  [][TickTimers => (chip'.data \cap chip'.mask # {} => chip'.ir)]_chipVars

\* A running period is not disturbed: whatever is written to the latch on the
\* way, a counter has counted exactly the ticks since it was last loaded, so it
\* underflows one tick after it has counted down to zero.
PeriodExact ==
  \A w \in Which : chip.timer[w].count + elapsed[w] = loaded[w]

\* A one-shot timer that fired stands still until the guest starts it again.
OneShotFiresOnce == \A w \in fired : ~chip.timer[w].running

\* No period goes unreported and none is reported that did not end: the timers in
\* ICR are those whose period has ended since the guest last read it.  A timer
\* counts loaded + 1 ticks to a period, one with a latch of zero reports every
\* tick, and the cause is kept whether or not it was enabled when it came.
PeriodsReported == chip.data \cap Which = due

\* The time read digit by digit is the time at which the reading began, however
\* the clock ticked or was set in between and however often a reading was given up.
ReadingCoherent == DOMAIN readout = 1 .. 3 => readout = asked
=============================================================================

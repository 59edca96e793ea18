------------------------------ MODULE GuestBus ------------------------------
(***************************************************************************)
(* The guest's program on the memory map: emulator.rs run_scanline around   *)
(* the accesses of memory.rs.  Before an instruction the loop latches the    *)
(* drive's request and copies the interrupt registers where they are read;  *)
(* after it, the register writes it logged reach the chipset; a line later   *)
(* the copper writes and the devices request.  An instruction is one access; *)
(* the copying of a register by bytes is two.                               *)
(*                                                                         *)
(* The chipset's registers are sets of bits, their shadows pairs of bytes.   *)
(* truth and stale are history: what was written where, by the machine's     *)
(* memory map, and which shadows the loop cannot have brought up to date.    *)
(***************************************************************************)
EXTENDS AddressMap

CONSTANTS
  Setups,          \* records [model, board, plan]: a model, whether it has the board,
                   \* and what its guest does: work with memory or with registers
  Program(_),      \* the accesses the guest may do on a model
  Bases,           \* where the guest may put the board
  RegisterWrites,  \* its writes of registers, pairs of register and word
  CopperWrites,    \* the copper's
  Requests,        \* the bits of INTREQ that devices raise
  Probes(_, _),    \* addresses whose contents are compared, by plan and model
  MaxSteps         \* by plan, bound on the guest's instructions

\* An access of one or two bytes that no register answers which is more than a cell.
\* Not Gayle's, not the custom chips', not those of the network chip; of the CIAs only
\* registers that keep what is written, at the addresses that select one chip, and no
\* word across the border between two registers; nor one across the end of the board,
\* where its first cell is taken for the address that follows.
InCia(a) == Within(a, \hBFD000, \hC00000)

CellByte(a) ==
  /\ a \in Nat
  /\ ~Within(a, \hD80000, \hDF0000) /\ ~Within(a, \hDFF000, \hE00000)
  /\ \A base \in Bases : ~Within(a, base + \h4000, base + \h4004)
  /\ InCia(a) => \/ a \div \h1000 = \hBFD /\ a % 2 = 0 /\ CiaRegister(a) # ICR
                 \/ a \div \h1000 = \hBFE /\ a % 2 = 1 /\ CiaRegister(a) # ICR

CellWord(a) ==
  IF InCia(a) THEN a \in Nat /\ a \div \h1000 \in {\hBFD, \hBFE} /\ CiaRegister(a) # ICR
                   /\ a % 256 # 255
              ELSE CellByte(a) /\ CellByte(a + 1) /\ \A base \in Bases : a # base + \hFFFF

Cells(a, width) ==
  CASE width = 1 -> CellByte(a)
    [] width = 2 -> CellWord(a)
    [] OTHER     -> CellWord(a) /\ CellWord(a + 2)

\* Port A of CIA-A reads what its pins are.
PortOfA(a) == a \div 256 = \hBFE0

Readable(a, width) == Cells(a, width) /\ \A i \in 0 .. width - 1 : ~PortOfA(a + i)

\* A store before the board is placed stays out of its window.
Storable(a, width) == Cells(a, width) /\ \A i \in 0 .. width - 1 : ~Within(a + i, \hE80000, \hE90000)

\* A byte at an even address of CIA-A's page is CIA-B's, which nobody relies on.
Widths(model, a) ==
  CASE a % 2 = 0 /\ a \div \h1000 = \hBFE -> {2, 4}
    [] a % 2 = 0 /\ a \div \h1000 # \hBFE -> {1, 2, 4}
    [] OTHER -> IF model.unaligned THEN {1, 2, 4} ELSE {1}

ByteValue == 0 .. 255
WordValue == ByteValue \X ByteValue

\* Sizes as MemoryConfig allows them.
UpTo(size) == {n \in Nat : n <= size}

Model == [chip : Nat \ {0}, slow : UpTo(\h80000), fast : UpTo(\h800000),
          rom : {\h40000, \h80000}, gayle : BOOLEAN, unaligned : BOOLEAN]

\* What a write of a custom register may name: a register that is not a shadow.
Written == {2 * i : i \in 0 .. 255} \ {DMACONR, ADKCONR, INTENAR, INTREQR}

\* An address may be probed if it can be read in every width.
Comparable(model, a) == a \in Nat /\ \A width \in Widths(model, a) : Readable(a, width)

Move == [register : Written, value : WordValue]

ASSUME GuestBusAssumption ==
  /\ \A setup \in Setups : setup.model \in Model /\ setup.board \in BOOLEAN
  /\ Bases \subseteq {\h10000 * page : page \in \hE9 .. \hEF}
  /\ \A setup \in Setups : \A access \in Program(setup.model) :
       access.width > 0 => /\ access.width \in {1, 2, 4} /\ Storable(access.at, access.width)
                           /\ access.value \in Seq(ByteValue)
                           /\ Len(access.value) \in {0, access.width}
  /\ RegisterWrites \subseteq Written \X WordValue
  /\ CopperWrites \subseteq Seq(Move)
  /\ Requests \subseteq 0 .. 14

ASSUME ProbesAssumption ==
  \A setup \in Setups : \A a \in Probes(setup.plan, setup.model) : Comparable(setup.model, a)

VARIABLES machine, plan, truth, stale, steps

vars == <<machine, plan, truth, stale, steps>>
-----------------------------------------------------------------------------
(* The chipset and the loop *)

Bits(word) == BitsOf(word[2]) \cup {b \in 8 .. 14 : b - 8 \in BitsOf(word[1])}

Word(bits) == <<ByteOf({b \in 0 .. 7 : b + 8 \in bits}), ByteOf(bits)>>

\* apply_set_clear
SetClear(bits, word) == IF word[1] >= 128 THEN bits \cup Bits(word) ELSE bits \ Bits(word)

PORTS == 3     \* INT_PORTS
SPREN == 5     \* DMA_SPRITE
MASTER == 9    \* DMA_MASTER
COPEN == 7     \* DMA_COPPER
DSKEN == 4     \* DMA_DISK

SpritePointers == {\h120 + 2 * i : i \in 0 .. 15}

SyncInterrupts(m) ==
  [m EXCEPT !.bus = SetShadow(SetShadow(@, INTREQR, Word(m.intreq)), INTENAR, Word(m.intena))]

\* process_gayle_ide_interrupts
Latched(bus) == IF DriveAsks(bus) THEN [bus EXCEPT !.gayle.irq = BitOr(@, 128)] ELSE bus

Interrupting(bus) == 7 \in BitsOf(bus.gayle.irq) \cap BitsOf(bus.gayle.intena)

Latch(m) ==
  [m EXCEPT !.bus = Latched(@),
            !.intreq = IF Interrupting(Latched(m.bus)) THEN @ \cup {PORTS} ELSE @]

\* dispatch_register_write, for the registers of the chipset's own state.
Dispatch(m, write) ==
  LET register == write.register
      word     == write.value
  IN  CASE register = DMACON -> [m EXCEPT !.dmacon = SetClear(@, word)]
        [] register = INTENA -> SyncInterrupts([m EXCEPT !.intena = SetClear(@, word)])
        [] register = INTREQ -> SyncInterrupts([m EXCEPT !.intreq = SetClear(@, word)])
        [] register \in SpritePointers -> [m EXCEPT !.dmacon = @ \cup {SPREN}]
        [] OTHER -> m

\* A move of the copper is written to the shadow first.
Moved(m, write) ==
  Dispatch([m EXCEPT !.bus = SetShadow(@, write.register, write.value)], write)

\* The machine after a sequence of writes, the copper's or those of a log.
AfterWrites(m, writes, byCopper) ==
  LET after[n \in 0 .. Len(writes)] ==
        IF n = 0 THEN m
        ELSE IF byCopper THEN Moved(after[n - 1], writes[n]) ELSE Dispatch(after[n - 1], writes[n])
  IN  after[Len(writes)]

\* What the instruction does to memory: a read, or a write of the value.
Access(bus, access) ==
  IF access.value = <<>> THEN Read(bus, access.at, access.width).bus
                         ELSE Write(bus, access.at, access.value)

\* The log is drained, and the drives take port B.
Drained(m) == [m EXCEPT !.bus.log = <<>>, !.bus.prbDirty = FALSE]

DispatchLog(m) == Drained(AfterWrites(m, m.bus.log, FALSE))

\* One pass of the loop.
Run(m, access) == DispatchLog([m EXCEPT !.bus = Access(@, access)])

Executed(m, access) == Run(SyncInterrupts(Latch(m)), access)

\* The rest of run_scanline, and sync_readable_regs of the next line.
DiskOn(m) == {DSKEN, MASTER} \subseteq m.dmacon

Raised(m, raised) ==
  [m EXCEPT !.intreq = @ \cup raised, !.bus.dskbytr = IF DiskOn(m) THEN <<128, 7>> ELSE @]

Synced(m) == SyncInterrupts([m EXCEPT !.bus = SetShadow(@, DMACONR, Word(m.dmacon))])

LineEnded(m, copper, raised) == Synced(Raised(AfterWrites(m, copper, TRUE), raised))
-----------------------------------------------------------------------------
(* What the guest may expect: the memory map of the machine, as a table of   *)
(* areas that repeat their contents with a period.                          *)

Mirrored(a, place, first, length, period) ==
  IF Within(a, first, first + length) THEN {<<place, (a - first) % period>>} ELSE {}

RamPlaces(model, a) ==
  Mirrored(a, "chip", 0, \h200000, model.chip)
  \cup Mirrored(a, "fast", \h200000, model.fast, model.fast)
  \cup Mirrored(a, "slow", \hC00000, model.slow, model.slow)

RomPlaces(model, a) ==
  Mirrored(a, "rom", \hE00000, \h80000, model.rom)
  \cup Mirrored(a, "rom", \h1000000 - model.rom, model.rom, model.rom)

BoardPlaces(boardAt, a) ==
  UNION {Mirrored(a, "board", base + \h8000, \h8000, \h8000) : base \in boardAt}

CiaPlaces(a) ==
  {<<"ciaA", r>> : r \in {x \in 0 .. 15 : a % 2 = 1 /\ a \div 256 = \hBFE0 + x}}
  \cup {<<"ciaB", r>> : r \in {x \in 0 .. 15 : a % 2 = 0 /\ a \div 256 = \hBFD0 + x}}

\* Where a byte written to an address is kept: at most one place.
Places(model, boardAt, a) ==
  RamPlaces(model, a) \cup RomPlaces(model, a) \cup BoardPlaces(boardAt, a) \cup CiaPlaces(a)

\* The identity of a board that waits to be placed, in the high nibbles of the
\* even bytes: all but the first byte inverted.
Identity(a) ==
  LET n == (a - \hE80000) \div 2
      byte == AutoconfigBytes[1 + (n \div 2)]
      nibble == IF n % 2 = 0 THEN byte \div 16 ELSE byte % 16
  IN  IF n < 2 THEN 16 * nibble ELSE 255 - 16 * nibble

\* What is kept at a place of RAM, if anything was stored.
Kept(known, p) == IF p \in DOMAIN known.cells THEN known.cells[p] ELSE 0

Content(known, p) == IF p[1] = "rom" THEN RomByte(p[2]) ELSE Kept(known, p)

Expected(known, model, a) ==
  LET places == Places(model, known.boardAt, a)
  IN  IF known.overlay /\ a < model.rom THEN RomByte(a)
      ELSE IF places # {} THEN Content(known, CHOOSE p \in places : TRUE)
      ELSE IF known.unplaced /\ a % 2 = 0 /\ Within(a, \hE80000, \hE80030) THEN Identity(a)
      ELSE IF \E base \in known.boardAt : Within(a, base, base + \h8000) THEN 0
      ELSE 255

\* What a store leaves, by the table.  Bit 0 of port A switches the overlay.
LandByte(known, model, a, byte) ==
  LET places == Places(model, known.boardAt, a)
  IN  [known EXCEPT !.cells = [p \in DOMAIN @ \cup places |-> IF p \in places THEN byte ELSE @[p]],
                    !.overlay = IF <<"ciaA", 0>> \in places THEN byte % 2 = 1 ELSE @]

LandWord(known, model, a, word) ==
  LandByte(LandByte(known, model, a, word[1]), model, a + 1, word[2])

Landed(known, model, a, value) ==
  CASE Len(value) = 1 -> LandByte(known, model, a, value[1])
    [] Len(value) = 2 -> LandWord(known, model, a, value)
    [] OTHER -> LandWord(LandWord(known, model, a, <<value[1], value[2]>>), model, a + 2,
                         <<value[3], value[4]>>)
-----------------------------------------------------------------------------
Init ==
  /\ \E setup \in Setups :
       /\ plan = setup.plan
       /\ machine = LineEnded([bus |-> NewBus(setup.model, setup.board),
                              dmacon |-> {}, intena |-> {}, intreq |-> {}], <<>>, {})
       /\ truth = [cells |-> <<>>, overlay |-> TRUE, unplaced |-> setup.board,
                   boardAt |-> {}, adkcon |-> {}]
  /\ stale = {} /\ steps = 0

Counted(work) ==
  /\ plan = work /\ steps < MaxSteps[work]
  /\ steps' = steps + 1 /\ UNCHANGED plan

\* A store: the value tells the stores of a behaviour apart.
GuestStores ==
  /\ Counted("memory")
  /\ \E access \in Program(machine.bus.model) :
       /\ access.width > 0
       /\ LET value == IF access.value # <<>> THEN access.value
                       ELSE [i \in 1 .. access.width |-> (16 * steps + i) % 256]
          IN  /\ machine' = Executed(machine, [at |-> access.at, width |-> access.width,
                                               value |-> value])
              /\ truth' = Landed(truth, machine.bus.model, access.at, value)
  /\ UNCHANGED stale

\* A read, of a register that reading changes.
GuestReads ==
  /\ Counted("registers")
  /\ \E at \in {\hBFED01, \hBFDD00, \hDD1000, \hDA201C, \hDFF01A} :
       machine' = Executed(machine, [at |-> at, width |-> 1, value |-> <<>>])
  /\ UNCHANGED <<truth, stale>>

Store1(at, byte) == [at |-> at, width |-> 1, value |-> <<byte>>]

\* The board is placed by two bytes, the low nibble first, by one word, or by
\* one byte; or it is told to keep quiet.
PutsBoardAt(base) ==
  LET page == base \div \h10000
      low  == Executed(machine, Store1(\hE8004A, 16 * (page % 16)))
  IN  /\ machine' \in {Executed(low, Store1(\hE80048, 16 * (page \div 16))),
                       Executed(machine, Store1(\hE80048, page)),
                       Executed(machine, [at |-> \hE80048, width |-> 2, value |-> <<page, 0>>])}
      /\ truth' = [truth EXCEPT !.unplaced = FALSE, !.boardAt = {base}]

GuestPlacesBoard ==
  /\ Counted("memory") /\ truth.unplaced
  /\ \E base \in Bases : PutsBoardAt(base)
  /\ UNCHANGED stale

GuestSilencesBoard ==
  /\ Counted("memory") /\ truth.unplaced
  /\ machine' = Executed(machine, Store1(\hE8004C, 0))
  /\ truth' = [truth EXCEPT !.unplaced = FALSE]
  /\ UNCHANGED stale

AfterRegisterWrite(register, word) ==
  truth' = IF register = ADKCON THEN [truth EXCEPT !.adkcon = SetClear(@, word)] ELSE truth

GuestWritesRegister ==
  /\ Counted("registers")
  /\ \E write \in RegisterWrites :
       LET register == write[1]
           word     == write[2]
       IN
       /\ machine' = Executed(machine, [at |-> \hDFF000 + register, width |-> 2, value |-> word])
       /\ AfterRegisterWrite(register, word)
       /\ stale' = IF register \in SpritePointers THEN stale \cup {DMACONR} ELSE stale

\* A word copied to a register by bytes, the high one first.
GuestWritesRegisterByBytes ==
  /\ Counted("registers")
  /\ \E write \in RegisterWrites :
       LET register == write[1]
           word     == write[2]
       IN
       /\ machine' = Executed(Executed(machine, Store1(\hDFF000 + register, word[1])),
                              Store1(\hDFF001 + register, word[2]))
       /\ AfterRegisterWrite(register, word)
       /\ stale' = CASE register \in SpritePointers \cup {DMACON} -> stale \cup {DMACONR}
                     [] register = ADKCON -> stale \cup {ADKCONR}
                     [] OTHER -> stale

\* The drive asks for an interrupt.
DriveRequests ==
  /\ Counted("registers")
  /\ machine' = [machine EXCEPT !.bus.ide.pendingIrq = TRUE]
  /\ UNCHANGED <<truth, stale>>

\* The guest enables or holds back Gayle's interrupt, or answers it.
GuestUsesGayle ==
  /\ Counted("registers")
  /\ \E store \in {Store1(\hDAA000, 128), Store1(\hDAA000, 0), Store1(\hDA9000, 1),
                    Store1(\hDA3018, 2), Store1(\hDD1000, 0)} :
       machine' = Executed(machine, store)
  /\ UNCHANGED <<truth, stale>>

EndLine ==
  /\ \E copper \in (IF plan = "registers" THEN CopperWrites ELSE {<<>>}),
        raised \in (IF plan = "registers" THEN SUBSET Requests ELSE {{}}) :
       /\ copper = <<>> \/ {COPEN, MASTER} \subseteq machine.dmacon
       /\ machine' = LineEnded(machine, copper, raised)
       /\ stale' = (stale \ {DMACONR})
                     \cup {ADKCONR : i \in {j \in DOMAIN copper : copper[j].register = ADKCON}}
  /\ UNCHANGED <<plan, truth, steps>>

Next == \/ GuestStores \/ GuestReads \/ GuestPlacesBoard \/ GuestSilencesBoard
        \/ GuestWritesRegister \/ GuestWritesRegisterByBytes \/ DriveRequests
        \/ GuestUsesGayle \/ EndLine

Spec == Init /\ [][Next]_vars
-----------------------------------------------------------------------------
\* Whatever the guest has stored, moved or switched before, a byte, a word and a
\* long read at an address give the bytes the machine's memory map has there:
\* last stored RAM under each of its mirrors, ROM where no RAM covers it, the
\* board's identity until it is placed and its RAM afterwards, 255 elsewhere.
\* The decoding is written twice in memory.rs, by bytes and by words.
ReadsTrue ==
  \A a \in Probes(plan, machine.bus.model) : \A width \in Widths(machine.bus.model, a) :
    Read(machine.bus, a, width).value =
      [i \in 1 .. width |-> Expected(truth, machine.bus.model, a + i - 1)]

\* Between two instructions the shadows a guest reads are the registers the
\* chipset uses: after word writes at once, after the copper's and the devices'
\* on the next line.  DMACONR may lag behind within the line, after a write by
\* bytes or the sprite enable a pointer write implies; ADKCONR is the only copy
\* of its register, and misses what bytes or the copper wrote.
RegistersTruthful ==
  LET Shows(register, bits) == Shadow(machine.bus, register) = Word(bits)
  IN  /\ Shows(INTREQR, machine.intreq)
      /\ Shows(INTENAR, machine.intena)
      /\ DMACONR \in stale \/ Shows(DMACONR, machine.dmacon)
      /\ ADKCONR \in stale \/ Shows(ADKCONR, truth.adkcon)
=============================================================================

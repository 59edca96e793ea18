----------------------------- MODULE AddressMap -----------------------------
(***************************************************************************)
(* crates/rumiga-core/src/memory.rs, with the board of a2065.rs: what the   *)
(* processor reaches under an address.  Every access is a function from the *)
(* memory subsystem, a record `bus`, to the value read and the record after *)
(* it.  An access of n bytes has a sequence of n bytes as its value, high    *)
(* byte first; bytes and addresses are the machine's, and RAM is kept where  *)
(* it was written (the rest is zero).                                      *)
(*                                                                         *)
(* A CIA is its register file, whose ICR a read clears, and the drive its    *)
(* registers: what they do is in Cia and Ata.  Register 0 of the network     *)
(* chip is in Lance; here the chip stays stopped.                          *)
(***************************************************************************)
EXTENDS Integers, Sequences

CONSTANTS
  RomByte(_),       \* the bytes of the Kickstart ROM
  AutoconfigBytes   \* the board's identity: twelve bytes

Nowhere == -1

Within(a, first, end) == first <= a /\ a < end

\* The function f, but y at x.
Put(f, x, y) == [z \in DOMAIN f \cup {x} |-> IF z = x THEN y ELSE f[z]]

Answer(value, bus) == [value |-> value, bus |-> bus]

\* Two answers one after the other are one of twice the width.
Joined(high, low) ==
  Answer(IF Len(high.value) = 1 THEN <<high.value[1], low.value[1]>>
         ELSE <<high.value[1], high.value[2], low.value[1], low.value[2]>>, low.bus)
-----------------------------------------------------------------------------
(* A byte and the set of its bits *)

Weight == <<1, 2, 4, 8, 16, 32, 64, 128>>

BitsOf(byte) == {b \in 0 .. 7 : (byte \div Weight[b + 1]) % 2 = 1}

ByteOf(bits) ==
  LET Value(b) == IF b \in bits THEN Weight[b + 1] ELSE 0
  IN  Value(0) + Value(1) + Value(2) + Value(3) + Value(4) + Value(5) + Value(6) + Value(7)

BitAnd(x, y) == ByteOf(BitsOf(x) \cap BitsOf(y))
BitOr(x, y)  == ByteOf(BitsOf(x) \cup BitsOf(y))
BitNot(x)    == 255 - x
-----------------------------------------------------------------------------
(* Storage *)

Stored(bus, cell) == IF cell \in DOMAIN bus.ram THEN bus.ram[cell] ELSE 0

Store(bus, cell, byte) == [bus EXCEPT !.ram = Put(@, cell, byte)]

\* rom_base: a ROM of 512 KB is mapped below one of 256 KB.
RomBase(model) == IF model.rom = \h80000 THEN \hF80000 ELSE \hFC0000

\* The regions read_byte_internal and write_byte_internal try one after the
\* other.  What none of them takes is left to the board and to the ROM.
Region(model, a) ==
  CASE a < \h200000                     -> "chip"
    [] Within(a, \h200000, \hA00000)    -> CASE a - \h200000 < model.fast -> "fast"
                                             [] a - \h200000 >= model.fast /\ a >= \h600000 -> "pcmcia"
                                             [] OTHER -> "free"
    [] Within(a, \hA00000, \hA80000)    -> "pcmcia"
    [] Within(a, \hBFD000, \hC00000)    -> "cia"
    [] Within(a, \hC00000, \hC80000)    -> IF a - \hC00000 < model.slow THEN "slow" ELSE "free"
    [] Within(a, \hD80000, \hDD0000)    -> "gayle"
    [] Within(a, \hDD0000, \hDF0000)    -> "gayleId"
    [] Within(a, \hDFF000, \hE00000)    -> "custom"
    [] Within(a, \hE00000, \hE80000)    -> "romMirror"
    [] OTHER -> "free"
-----------------------------------------------------------------------------
(* The network board (a2065.rs) *)

\* enable, reset_chip
NewBoard(present) ==
  [enabled |-> present, configured |-> FALSE, shutUp |-> FALSE, base |-> Nowhere,
   mapHi |-> 0, mapLo |-> 0, rap |-> 0, csr |-> [r \in 1 .. 3 |-> <<0, 0>>]]

AutoconfigActive(board) == board.enabled /\ ~board.configured /\ ~board.shutUp

InWindow(board, a) == AutoconfigActive(board) /\ Within(a, \hE80000, \hE90000)

\* board_offset: Nowhere stands for None.
BoardOffset(board, a) ==
  IF board.enabled /\ board.configured /\ Within(a, board.base, board.base + \h10000)
  THEN a - board.base ELSE Nowhere

\* autoconfig_high_nibble, autoconfig_low_nibble: all but four are inverted.
Nibble(offset, nibble) ==
  IF offset \in {0, 2, \h40, \h42} THEN 16 * nibble ELSE 255 - 16 * nibble

ReadAutoconfig(offset) ==
  LET index == offset \div 4
  IN  CASE index < 12 /\ offset % 4 = 0 -> Nibble(offset, AutoconfigBytes[index + 1] \div 16)
        [] index < 12 /\ offset % 4 = 2 -> Nibble(offset, AutoconfigBytes[index + 1] % 16)
        [] OTHER -> 255

ShutUp(board) == [board EXCEPT !.shutUp = TRUE, !.configured = FALSE, !.base = Nowhere]

WrongConfigured(board) ==
  [board EXCEPT !.base = board.mapHi * \h10000, !.configured = TRUE, !.shutUp = FALSE]

\* configure_from_map_registers
Configured(board) ==
  [board EXCEPT !.base = BitOr(board.mapHi, board.mapLo \div 16) * \h10000,
                !.configured = TRUE, !.shutUp = FALSE]

\* write_autoconfig_byte
WriteAutoconfigByte(board, offset, byte) ==
  CASE offset % 256 = \h48 -> Configured([board EXCEPT !.mapHi = byte])
    [] offset % 256 = \h4A -> [board EXCEPT !.mapLo = byte]
    [] offset % 256 = \h4C -> ShutUp(board)
    [] OTHER -> board

\* write_autoconfig_word
WriteAutoconfigWord(board, offset, word) ==
  CASE offset % 256 = \h48 -> Configured([board EXCEPT !.mapHi = word[1], !.mapLo = 0])
    [] offset % 256 = \h4C -> ShutUp(board)
    [] OTHER -> board

\* read_board_byte, write_board_byte: board RAM, 32 KB from $8000 on.
ReadBoardByte(bus, offset) ==
  IF offset >= \h8000 THEN Stored(bus, <<"board", offset % \h8000>>) ELSE 0

WriteBoardByte(bus, offset, byte) ==
  IF offset >= \h8000 THEN Store(bus, <<"board", offset % \h8000>>, byte) ELSE bus

\* read_rdp
ReadRdp(board) == IF board.rap = 0 THEN <<0, 4>> ELSE board.csr[board.rap]

\* write_rdp: the control registers of a stopped chip.
WriteRdp(board, word) ==
  CASE board.rap = 1 -> [board EXCEPT !.csr[1] = <<word[1], 2 * (word[2] \div 2)>>]
    [] board.rap = 2 -> [board EXCEPT !.csr[2] = <<0, word[2]>>]
    [] board.rap = 3 -> [board EXCEPT !.csr[3] = <<0, word[2] % 8>>]
    [] OTHER -> board

\* The board's four entry points.  <<>> and the unchanged bus: not the board's.
BoardTakes(bus, a) == InWindow(bus.board, a) \/ BoardOffset(bus.board, a) # Nowhere

BoardReadByte(bus, a) ==
  IF InWindow(bus.board, a) THEN ReadAutoconfig(a - \hE80000)
                            ELSE ReadBoardByte(bus, BoardOffset(bus.board, a))

BoardReadWord(bus, a) ==
  LET offset == BoardOffset(bus.board, a)
  IN  CASE InWindow(bus.board, a) ->
             <<ReadAutoconfig(a - \hE80000), ReadAutoconfig(a + 1 - \hE80000)>>
        [] offset = \h4000 -> ReadRdp(bus.board)
        [] offset = \h4002 -> <<0, bus.board.rap>>
        [] OTHER -> <<ReadBoardByte(bus, offset), ReadBoardByte(bus, offset + 1)>>

BoardWriteByte(bus, a, byte) ==
  IF InWindow(bus.board, a)
  THEN [bus EXCEPT !.board = WriteAutoconfigByte(@, a - \hE80000, byte)]
  ELSE WriteBoardByte(bus, BoardOffset(bus.board, a), byte)

BoardWriteWord(bus, a, word) ==
  LET offset == BoardOffset(bus.board, a)
  IN  CASE InWindow(bus.board, a) ->
             [bus EXCEPT !.board = WriteAutoconfigWord(@, a - \hE80000, word)]
        [] offset = \h4000 -> [bus EXCEPT !.board = WriteRdp(@, word)]
        [] offset = \h4002 -> [bus EXCEPT !.board.rap = word[2] % 4]
        [] OTHER -> WriteBoardByte(WriteBoardByte(bus, offset, word[1]), offset + 1, word[2])
-----------------------------------------------------------------------------
(* The CIAs *)

CiaRegister(a) == (a \div 256) % 16
ChipSelect(a)  == (a \div \h1000) % 4

\* cia_write_selects_a, cia_write_selects_b
SelectsA(model, a) == IF model.gayle THEN ChipSelect(a) = 2 ELSE ChipSelect(a) % 2 = 0
SelectsB(model, a) == IF model.gayle THEN ChipSelect(a) = 1 ELSE ChipSelect(a) < 2

ICR == 13

\* Cia8520::read and write, as far as the map needs them.
ReadChip(chip, r)     == [chip EXCEPT ![ICR] = IF r = ICR THEN 0 ELSE @]
WriteChip(chip, r, b) == [chip EXCEPT ![r] = IF r = ICR THEN @ ELSE b]

\* read_cia_a_register: port A mixes what it drives with the disk's state, the
\* mouse button and the joystick's, which reads as released.
PortA(bus) ==
  LET driven == bus.ciaA[2]
      inputs == bus.diskStatus + (IF bus.mouseLeft THEN 0 ELSE 64) + 128
  IN  BitOr(BitAnd(bus.pra, driven), BitAnd(inputs, BitNot(driven)))

ReadCiaA(bus, r) ==
  IF r = 0 THEN Answer(<<PortA(bus)>>, bus)
           ELSE Answer(<<bus.ciaA[r]>>, [bus EXCEPT !.ciaA = ReadChip(@, r)])

ReadCiaB(bus, r) == Answer(<<bus.ciaB[r]>>, [bus EXCEPT !.ciaB = ReadChip(@, r)])

\* write_cia_a_register: bit 0 of port A is the overlay.
WriteCiaA(bus, r, byte) ==
  LET written == [bus EXCEPT !.ciaA = WriteChip(@, r, byte)]
  IN  IF r = 0 THEN [written EXCEPT !.pra = byte, !.overlay = byte % 2 = 1] ELSE written

\* write_cia_b_register: a write to port B is for the drives, and enables FLAG.
WriteCiaB(bus, r, byte) ==
  LET written == [bus EXCEPT !.ciaB = WriteChip(@, r, byte)]
  IN  IF r = 1 THEN [written EXCEPT !.prbDirty = TRUE, !.flagEnabled = TRUE] ELSE written

Swapped(a, word) == IF a % 2 = 0 THEN word ELSE <<word[2], word[1]>>

\* read_cia_word: CIA-B answers in the high byte, CIA-A in the low one, and the byte of
\* a chip that is not selected is high.
ReadsA(model, a) == ChipSelect(a) = 2 \/ (ChipSelect(a) = 0 /\ ~model.gayle)
ReadsB(model, a) == ChipSelect(a) = 1 \/ (ChipSelect(a) = 0 /\ ~model.gayle)

CiaHigh(bus, a) ==
  IF ReadsB(bus.model, a) THEN ReadCiaB(bus, CiaRegister(a)) ELSE Answer(<<255>>, bus)
CiaLow(bus, a) ==
  IF ReadsA(bus.model, a) THEN ReadCiaA(bus, CiaRegister(a)) ELSE Answer(<<255>>, bus)

ThenCiaLow(high, a) == Joined(high, CiaLow(high.bus, a))

InOrder(a, answer) == Answer(Swapped(a, answer.value), answer.bus)

ReadCiaWord(bus, a) == InOrder(a, ThenCiaLow(CiaHigh(bus, a), a))

\* write_cia_word
WriteCiaWord(bus, a, word) ==
  LET r == CiaRegister(a)
      w == Swapped(a, word)
      b == IF SelectsB(bus.model, a) THEN WriteCiaB(bus, r, w[1]) ELSE bus
  IN  IF SelectsA(bus.model, a) THEN WriteCiaA(b, r, w[2]) ELSE b

\* A byte is CIA-A's at an odd address from $BFE001 on, CIA-B's at an even one;
\* a write to a machine with Gayle goes by the select lines alone.
ReadCiaByte(bus, a) ==
  CASE a % 2 = 1 /\ a >= \hBFE001 -> ReadCiaA(bus, CiaRegister(a))
    [] a % 2 = 0                  -> ReadCiaB(bus, CiaRegister(a))
    [] OTHER                      -> Answer(<<255>>, bus)

WriteCiaByte(bus, a, byte) ==
  LET r == CiaRegister(a)
      m == bus.model
      b == IF SelectsB(m, a) THEN WriteCiaB(bus, r, byte) ELSE bus
  IN  CASE m.gayle -> IF SelectsA(m, a) THEN WriteCiaA(b, r, byte) ELSE b
        [] ~m.gayle /\ a % 2 = 1 /\ a >= \hBFE001 -> WriteCiaA(bus, r, byte)
        [] ~m.gayle /\ a % 2 = 0 -> WriteCiaB(bus, r, byte)
        [] OTHER -> bus
-----------------------------------------------------------------------------
(* Gayle *)

\* gayle_ide_register: A5 and A13 do not select a register.
IdeRegister(a) ==
  LET offset == a % \h10000
      plain  == offset - 32 * ((offset \div 32) % 2) - \h2000 * ((offset \div \h2000) % 2)
  IN  IF Within(a, \hDA0000, \hDA4000) THEN plain \div 4 ELSE Nowhere

DriveAsks(bus) == bus.ide.pendingIrq /\ ~bus.ide.nIen

\* read_gayle_status
GayleStatus(bus) ==
  BitOr(bus.gayle.status, BitAnd(IF DriveAsks(bus) THEN 128 ELSE bus.gayle.irq, 128))

\* read_gayle_ide_register: reading the status releases both latches; the
\* alternate status, in the control block, does not.
ReadIde(bus, r) ==
  CASE r = 7 -> Answer(<<bus.ide.reg[7]>>, [bus EXCEPT !.ide.pendingIrq = FALSE,
                                                       !.gayle.irq = @ % 128])
    [] r \in 0 .. 6 -> Answer(<<bus.ide.reg[r]>>, bus)
    [] r = \h406 -> Answer(<<bus.ide.reg[7]>>, bus)
    [] r = \h407 -> LET select == bus.ide.reg[6]
                     IN  Answer(<<254 - ((select \div 16) % 2) - 4 * (select % 16)>>, bus)
    [] OTHER -> Answer(<<255>>, bus)

\* write_gayle_ide_register: the status register is the drive's to change.
WriteIde(bus, r, byte) ==
  CASE r \in 0 .. 6 -> [bus EXCEPT !.ide.reg[r] = byte]
    [] r = \h406 -> [bus EXCEPT !.ide.nIen = (byte \div 2) % 2 = 1]
    [] OTHER -> bus

ReadGayle(bus, a) ==
  CASE a = \hDA8000 -> Answer(<<GayleStatus(bus)>>, bus)
    [] a = \hDA9000 -> Answer(<<bus.gayle.irq>>, bus)
    [] a = \hDAA000 -> Answer(<<bus.gayle.intena>>, bus)
    [] a = \hDAB000 -> Answer(<<bus.gayle.config % 16>>, bus)
    [] IdeRegister(a) # Nowhere -> ReadIde(bus, IdeRegister(a))
    [] OTHER -> Answer(<<0>>, bus)

\* A request is cleared by writing a zero to it; the two low bits are kept.
WriteGayle(bus, a, byte) ==
  CASE a = \hDA8000 -> [bus EXCEPT !.gayle.status = byte]
    [] a = \hDA9000 -> [bus EXCEPT !.gayle.irq = BitOr(BitAnd(@, byte), byte % 4)]
    [] a = \hDAA000 -> [bus EXCEPT !.gayle.intena = byte]
    [] a = \hDAB000 -> [bus EXCEPT !.gayle.config = byte]
    [] IdeRegister(a) # Nowhere -> WriteIde(bus, IdeRegister(a), byte)
    [] OTHER -> bus

\* The identity of Gayle, one bit a read, from the last write on.
ReadGayleId(bus, a) ==
  IF a % \h10000 = \h1000
  THEN Answer(<<IF bus.gayle.id \in {0, 1, 3, 7} THEN 128 ELSE 0>>,
              [bus EXCEPT !.gayle.id = (@ + 1) % 256])
  ELSE Answer(<<0>>, bus)
-----------------------------------------------------------------------------
(* The shadow of the custom chips' registers *)

BEAMCON0 == \h1DC
DMACONR == \h002
ADKCONR == \h010
DSKBYTR == \h01A
INTENAR == \h01C
INTREQR == \h01E
DMACON == \h096
INTENA == \h09A
INTREQ == \h09C
ADKCON == \h09E

RegisterOf(a) == 2 * (((a - \hDFF000) % \h200) \div 2)

Shadow(bus, r) == IF r \in DOMAIN bus.custom THEN bus.custom[r] ELSE <<0, 0>>

SetShadow(bus, r, word) == [bus EXCEPT !.custom = Put(@, r, word)]

Logged(bus, r, word) == [bus EXCEPT !.log = Append(@, [register |-> r, value |-> word])]

\* Reading DSKBYTR, by byte or by word, takes its byte: bit 15 goes.
ReadCustom(bus, r) ==
  IF r = DSKBYTR
  THEN Answer(bus.dskbytr, [bus EXCEPT !.dskbytr = <<@[1] % 128, @[2]>>])
  ELSE Answer(Shadow(bus, r), bus)

ReadCustomByte(bus, a) ==
  LET word == ReadCustom(bus, RegisterOf(a))
  IN  Answer(<<word.value[1 + (a % 2)]>>, word.bus)

\* A register is written by its low byte.
WriteCustomByte(bus, a, byte) ==
  LET r    == RegisterOf(a)
      old  == Shadow(bus, r)
      low  == <<old[1], byte>>
  IN  IF a % 2 = 0 THEN SetShadow(bus, r, <<byte, old[2]>>)
                   ELSE Logged(SetShadow(bus, r, low), r, low)

WrongShadowBits(register, word) ==
  LET bits == <<word[1] % 128, word[2]>>
  IN  IF word[1] >= 128 THEN bits
                        ELSE [i \in 1 .. 2 |-> ByteOf(BitsOf(register[i]) \ BitsOf(bits[i]))]

\* What a write of a set/clear register leaves in the one that can be read.
ShadowBits(register, word) ==
  LET bits == <<word[1] % 128, word[2]>>
      Byte(i) == IF word[1] >= 128 THEN BitOr(register[i], bits[i])
                                   ELSE BitAnd(register[i], BitNot(bits[i]))
  IN  <<Byte(1), Byte(2)>>

SetClearRegister == {DMACON, INTENA, INTREQ, ADKCON}

ReadableOf(r) == CASE r = DMACON -> DMACONR [] r = INTENA -> INTENAR
                   [] r = INTREQ -> INTREQR [] OTHER -> ADKCONR

Reflected(bus, readable, word) ==
  SetShadow(bus, readable, ShadowBits(Shadow(bus, readable), word))

WriteCustomWord(bus, a, word) ==
  LET r       == RegisterOf(a)
      written == Logged(SetShadow(bus, r, word), r, word)
  IN  IF r \in SetClearRegister THEN Reflected(written, ReadableOf(r), word) ELSE written
-----------------------------------------------------------------------------
(* Accesses of a byte, a word and a long *)

\* read_byte_internal
ReadByte(bus, a) ==
  LET m == bus.model
      region == Region(m, a)
      Here(byte) == Answer(<<byte>>, bus)
  IN  CASE bus.overlay /\ a < m.rom -> Here(RomByte(a))
        [] ~(bus.overlay /\ a < m.rom) /\ region = "chip" ->
             Here(Stored(bus, <<"chip", a % m.chip>>))
        [] region = "fast"      -> Here(Stored(bus, <<"fast", a - \h200000>>))
        [] region = "slow"      -> Here(Stored(bus, <<"slow", a - \hC00000>>))
        [] region = "pcmcia"    -> Here(255)
        [] region = "cia"       -> ReadCiaByte(bus, a)
        [] region = "gayle"     -> ReadGayle(bus, a)
        [] region = "gayleId"   -> ReadGayleId(bus, a)
        [] region = "custom"    -> ReadCustomByte(bus, a)
        [] region = "romMirror" -> Here(RomByte((a - \hE00000) % m.rom))
        [] region = "free" /\ BoardTakes(bus, a) -> Here(BoardReadByte(bus, a))
        [] OTHER ->
             Here(IF Within(a, RomBase(m), \h1000000) /\ a - RomBase(m) < m.rom
                  THEN RomByte(a - RomBase(m)) ELSE 255)

\* write_byte_internal: the overlay is for reads only.
WriteByte(bus, a, byte) ==
  LET m == bus.model
      region == Region(m, a)
      Board(b) == IF BoardTakes(b, a) THEN BoardWriteByte(b, a, byte) ELSE b
  IN  CASE region = "chip"    -> Store(bus, <<"chip", a % m.chip>>, byte)
        [] region = "fast"    -> Store(bus, <<"fast", a - \h200000>>, byte)
        [] region = "slow"    -> Store(bus, <<"slow", a - \hC00000>>, byte)
        [] region = "pcmcia"  -> bus
        [] region = "cia"     -> WriteCiaByte(bus, a, byte)
        [] region = "gayle"   -> WriteGayle(bus, a, byte)
        [] region = "gayleId" -> [bus EXCEPT !.gayle.id = 0]
        [] region = "custom"  -> Board(WriteCustomByte(bus, a, byte))
        [] OTHER              -> Board(bus)

ThenByte(high, a) == Joined(high, ReadByte(high.bus, a + 1))

\* read_word and write_word: four devices take a word whole, whatever a byte would reach.
ReadWord(bus, a) ==
  IF IdeRegister(a) = 0 THEN Answer(bus.ide.data, bus)
  ELSE IF Within(a, \hBFD000, \hC00000) THEN ReadCiaWord(bus, a)
  ELSE IF BoardTakes(bus, a) THEN Answer(BoardReadWord(bus, a), bus)
  ELSE IF Within(a, \hDFF000, \hE00000) THEN ReadCustom(bus, RegisterOf(a))
  ELSE ThenByte(ReadByte(bus, a), a)

WriteWord(bus, a, word) ==
  IF IdeRegister(a) = 0 THEN [bus EXCEPT !.ide.data = word]
  ELSE IF Within(a, \hBFD000, \hC00000) THEN WriteCiaWord(bus, a, word)
  ELSE IF BoardTakes(bus, a) THEN BoardWriteWord(bus, a, word)
  ELSE IF Within(a, \hDFF000, \hE00000) THEN WriteCustomWord(bus, a, word)
  ELSE WriteByte(WriteByte(bus, a, word[1]), a + 1, word[2])

\* read_long, write_long: two words.
ThenWord(high, a) == Joined(high, ReadWord(high.bus, a + 2))

Read(bus, a, width) ==
  CASE width = 1 -> ReadByte(bus, a)
    [] width = 2 -> ReadWord(bus, a)
    [] OTHER     -> ThenWord(ReadWord(bus, a), a)

Write(bus, a, value) ==
  CASE Len(value) = 1 -> WriteByte(bus, a, value[1])
    [] Len(value) = 2 -> WriteWord(bus, a, value)
    [] OTHER -> WriteWord(WriteWord(bus, a, <<value[1], value[2]>>), a + 2,
                          <<value[3], value[4]>>)

\* AmigaMemory::new: the ROM lies over chip RAM, no drive is selected.
NewBus(model, withBoard) ==
  [model |-> model, ram |-> <<>>, overlay |-> TRUE,
   custom |-> Put(<<>>, BEAMCON0, <<0, 32>>), log |-> <<>>,
   pra |-> 0, prbDirty |-> FALSE, flagEnabled |-> FALSE, diskStatus |-> 60,
   mouseLeft |-> FALSE, dskbytr |-> <<0, 0>>,
   ciaA |-> [r \in 0 .. 15 |-> 0], ciaB |-> [r \in 0 .. 15 |-> 0],
   gayle |-> [irq |-> 0, intena |-> 0, config |-> 0, status |-> 0, id |-> 0],
   ide |-> [reg |-> [r \in 0 .. 7 |-> 0], data |-> <<0, 0>>, pendingIrq |-> FALSE,
            nIen |-> FALSE],
   board |-> NewBoard(withBoard)]
=============================================================================

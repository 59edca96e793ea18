---------------------------- MODULE M68000Decoder ----------------------------
(***************************************************************************)
(* crates/m68000/src/decoder.rs: the table that gives each of the 65536      *)
(* opcode words its instruction, one operator per line (bits 12 to 15) of    *)
(* the opcode map, or per half of a line where the halves differ.           *)
(***************************************************************************)
EXTENDS Opcode, Sequences

Line0Dynamic(op) ==
  CASE Mode(op) = 1 -> "Movep"
    [] SizeOf(op) = 0 /\ Ea(op) \in Data -> "Btst"
    [] SizeOf(op) # 0 /\ Ea(op) \in DataAlterable -> <<"Bchg", "Bclr", "Bset">>[SizeOf(op)]
    [] OTHER -> "Unknown"

\* The immediate instructions; to the CCR in bytes, to the SR in words.
Immediate0(op, name, ccr, sr) ==
  CASE SizeOf(op) # 3 /\ Ea(op) \in DataAlterable -> name
    [] SizeOf(op) = 0 /\ Ea(op) = 60 -> ccr
    [] SizeOf(op) = 1 /\ Ea(op) = 60 -> sr
    [] OTHER -> "Unknown"

Line0Low(op) ==
  IF Bit(op, 8) THEN Line0Dynamic(op)
  ELSE LET none == "Unknown"
       IN  CASE High(op) = 0 -> Immediate0(op, "Ori", "Oriccr", "Orisr")
             [] High(op) = 1 -> Immediate0(op, "Andi", "Andiccr", "Andisr")
             [] High(op) = 2 -> Immediate0(op, "Subi", none, none)
             [] High(op) = 3 -> Immediate0(op, "Addi", none, none)

Line0High(op) ==
  CASE Bit(op, 8) -> Line0Dynamic(op)
    [] ~Bit(op, 8) /\ High(op) = 4 ->
         CASE SizeOf(op) = 0 /\ Ea(op) \in Data \ {60} -> "Btst"
           [] SizeOf(op) # 0 /\ Ea(op) \in DataAlterable -> <<"Bchg", "Bclr", "Bset">>[SizeOf(op)]
           [] OTHER -> "Unknown"
    [] ~Bit(op, 8) /\ High(op) = 5 -> Immediate0(op, "Eori", "Eoriccr", "Eorisr")
    [] ~Bit(op, 8) /\ High(op) = 6 -> Immediate0(op, "Cmpi", "Unknown", "Unknown")
    [] OTHER -> "Unknown"

\* The destination of a move: bits 6 to 8 the mode, bits 9 to 11 the register.
Destination(op) == 8 * Bits(op, 6, 8) + High(op)

Line1(op) ==
  IF Destination(op) \in DataAlterable /\ Ea(op) \in Data THEN "Move" ELSE "Unknown"

Line2(op) ==
  CASE Ea(op) \notin Every -> "Unknown"
    [] Ea(op) \in Every /\ Bits(op, 6, 8) = 1 -> "Movea"
    [] Ea(op) \in Every /\ Destination(op) \in DataAlterable -> "Move"
    [] OTHER -> "Unknown"

Line3(op) == Line2(op)

Unary(op, name) == IF Ea(op) \in DataAlterable THEN name ELSE "Unknown"

\* Chk and Lea, whose register is in bits 9 to 11, in both halves of line 4.
ChkLea(op) ==
  CASE Bits(op, 6, 8) = 6 /\ Ea(op) \in Data -> "Chk"
    [] Bits(op, 6, 8) = 7 /\ Ea(op) \in Control -> "Lea"
    [] OTHER -> "Unknown"

Line4Low(op) ==
  CASE Bit(op, 8) -> ChkLea(op)
    [] ~Bit(op, 8) /\ SizeOf(op) < 3 -> Unary(op, <<"Negx", "Clr", "Neg", "Not">>[High(op) + 1])
    [] ~Bit(op, 8) /\ SizeOf(op) = 3 ->
         CASE High(op) = 0 -> Unary(op, "Movefsr")
           [] High(op) = 2 /\ Ea(op) \in Data -> "Moveccr"
           [] High(op) = 3 /\ Ea(op) \in Data -> "Movesr"
           [] OTHER -> "Unknown"

\* 4E40 to 4E7F.
Line4Control(op) ==
  LET low == Bits(op, 0, 5)
  IN  CASE low < 16 -> "Trap"
        [] low \in 16 .. 23 -> "Link"
        [] low \in 24 .. 31 -> "Unlk"
        [] low \in 32 .. 47 -> "Moveusp"
        [] low \in 48 .. 55 -> <<"Reset", "Nop", "Stop", "Rte", "Unknown", "Rts", "Trapv",
                                "Rtr">>[low - 47]
        [] OTHER -> "Unknown"

Line4High(op) ==
  LET row == Bits(op, 6, 11) - 32        \* of 64 opcodes, from 4800 on
      ea  == Ea(op)
  IN  CASE Bit(op, 8) -> ChkLea(op)
        [] row = 0 -> Unary(op, "Nbcd")
        [] row = 1 /\ ea < 8 -> "Swap"
        [] row = 1 /\ ea \in Control -> "Pea"
        [] row \in {2, 3} /\ ea < 8 -> "Ext"
        [] row \in {2, 3} /\ ea \in MemoryAlterable -> "Movem"
        [] row \in 8 .. 10 -> Unary(op, "Tst")
        [] row = 11 /\ ea = 60 -> "Illegal"
        [] row = 11 /\ ea # 60 -> Unary(op, "Tas")
        [] row \in {18, 19} /\ ea \in 16 .. 59 -> "Movem"
        [] row = 25 -> Line4Control(op)
        [] row = 26 /\ ea \in Control -> "Jsr"
        [] row = 27 /\ ea \in Control -> "Jmp"
        [] OTHER -> "Unknown"

Line5(op) ==
  LET quick == IF Bit(op, 8) THEN "Subq" ELSE "Addq"
  IN  CASE SizeOf(op) = 0 -> Unary(op, quick)
        [] SizeOf(op) \in {1, 2} /\ Ea(op) \in Alterable -> quick
        [] SizeOf(op) = 3 /\ Mode(op) = 1 -> "Dbcc"
        [] SizeOf(op) = 3 /\ Mode(op) # 1 -> Unary(op, "Scc")
        [] OTHER -> "Unknown"

Line6(op) ==
  CASE Bits(op, 8, 11) = 0 -> "Bra"
    [] Bits(op, 8, 11) = 1 -> "Bsr"
    [] OTHER -> "Bcc"

Line7(op) == IF Bit(op, 8) THEN "Unknown" ELSE "Moveq"

Line8(op) ==
  LET opmode == Bits(op, 6, 8)
  IN  CASE opmode = 3 /\ Ea(op) \in Data -> "Divu"
        [] opmode = 7 /\ Ea(op) \in Data -> "Divs"
        [] opmode < 3 /\ Ea(op) \in Data -> "Or"
        [] opmode = 4 /\ Ea(op) \in Register -> "Sbcd"
        [] opmode \in 4 .. 6 /\ Ea(op) \in MemoryAlterable -> "Or"
        [] OTHER -> "Unknown"

Line9(op) ==
  LET opmode == Bits(op, 6, 8)
  IN  CASE opmode \in {3, 7} /\ Ea(op) \in Every -> "Suba"
        [] opmode = 0 /\ Ea(op) \in Data -> "Sub"
        [] opmode \in {1, 2} /\ Ea(op) \in Every -> "Sub"
        [] opmode \in 4 .. 6 /\ Ea(op) \in Register -> "Subx"
        [] opmode \in 4 .. 6 /\ Ea(op) \in MemoryAlterable -> "Sub"
        [] OTHER -> "Unknown"

LineA(op) == "Unknown"

LineB(op) ==
  LET opmode == Bits(op, 6, 8)
  IN  CASE opmode \in {3, 7} /\ Ea(op) \in Every -> "Cmpa"
        [] opmode = 0 /\ Ea(op) \in Data -> "Cmp"
        [] opmode \in {1, 2} /\ Ea(op) \in Every -> "Cmp"
        [] opmode \in 4 .. 6 /\ Mode(op) = 1 -> "Cmpm"
        [] opmode \in 4 .. 6 /\ Ea(op) \in DataAlterable -> "Eor"
        [] OTHER -> "Unknown"

LineC(op) ==
  LET opmode == Bits(op, 6, 8)
  IN  CASE opmode = 3 /\ Ea(op) \in Data -> "Mulu"
        [] opmode = 7 /\ Ea(op) \in Data -> "Muls"
        [] opmode < 3 /\ Ea(op) \in Data -> "And"
        [] opmode = 4 /\ Ea(op) \in Register -> "Abcd"
        [] opmode = 5 /\ Ea(op) \in Register -> "Exg"
        [] opmode = 6 /\ Mode(op) = 1 -> "Exg"
        [] opmode \in 4 .. 6 /\ Ea(op) \in MemoryAlterable -> "And"
        [] OTHER -> "Unknown"

LineD(op) ==
  LET opmode == Bits(op, 6, 8)
  IN  CASE opmode \in {3, 7} /\ Ea(op) \in Every -> "Adda"
        [] opmode = 0 /\ Ea(op) \in Data -> "Add"
        [] opmode \in {1, 2} /\ Ea(op) \in Every -> "Add"
        [] opmode \in 4 .. 6 /\ Ea(op) \in Register -> "Addx"
        [] opmode \in 4 .. 6 /\ Ea(op) \in MemoryAlterable -> "Add"
        [] OTHER -> "Unknown"

ShiftName(op) == <<"Asr", "Lsr", "Roxr", "Ror">>[Bits(op, 3, 4) + 1]

LineELow(op) ==
  CASE SizeOf(op) < 3 -> ShiftName(op)
    [] SizeOf(op) = 3 /\ Ea(op) \in MemoryAlterable -> <<"Asm", "Lsm", "Roxm", "Rom">>[High(op) + 1]
    [] OTHER -> "Unknown"

LineEHigh(op) == IF SizeOf(op) < 3 THEN ShiftName(op) ELSE "Unknown"

LineF(op) == "Unknown"

Decoder(op) ==
  LET line == op \div 4096
      high == Bit(op, 11)
  IN  CASE line = 0 /\ ~high -> Line0Low(op)  [] line = 0 /\ high -> Line0High(op)
        [] line = 1 -> Line1(op)  [] line = 2 -> Line2(op)  [] line = 3 -> Line3(op)
        [] line = 4 /\ ~high -> Line4Low(op)  [] line = 4 /\ high -> Line4High(op)
        [] line = 5 -> Line5(op)  [] line = 6 -> Line6(op)  [] line = 7 -> Line7(op)
        [] line = 8 -> Line8(op)  [] line = 9 -> Line9(op)  [] line = 10 -> LineA(op)
        [] line = 11 -> LineB(op) [] line = 12 -> LineC(op) [] line = 13 -> LineD(op)
        [] line = 14 /\ ~high -> LineELow(op)  [] line = 14 /\ high -> LineEHigh(op)
        [] line = 15 -> LineF(op)
=============================================================================

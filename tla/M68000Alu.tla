----------------------------- MODULE M68000Alu -----------------------------
(***************************************************************************)
(* crates/m68000/src/interpreter.rs: the instructions that compute.          *)
(***************************************************************************)
EXTENDS M68000Access

\* The operand the low six bits of the opcode name, with its extension words.
Operand(s, op, size) == FromMemory(s, Mode(op), Low(op), size)

Source(s, op, size) == Get(Operand(s, op, size), size)

\* The fields of the opcode word that several instructions read the same way.
TowardOperand(op)   == Bit(op, 8)      \* the result goes to the operand, not to the register
AddressSize(op)     == IF Bit(op, 8) THEN "L" ELSE "W"
BelowAddresses(op)  == Bit(op, 3)      \* two values in memory, not in registers
ToTheLeft(op)       == Bit(op, 8)
CountInRegister(op) == Bit(op, 5)
ConditionOf(op)     == Bits(op, 8, 11)

CheckSupervisor(s) == IF s.S THEN s ELSE Fail(s, 8)

\* N and Z from a value, V and C clear.
Tested(s, x, size) ==
  [s EXCEPT !.N = Negative(x, size), !.Z = x = 0, !.V = FALSE, !.C = FALSE]

\* The two values of an X instruction, in registers or below two addresses: the
\* source in src, the destination in val.
XOperands(s, op, size) ==
  LET p == Ariwpr(s, Low(op), size)
      q == Ariwpr(p, High(op), size)
      r == Load(q, p.val, size)
      t == Load(r, q.val, size)
  IN  IF BelowAddresses(op) THEN [t EXCEPT !.src = r.val]
      ELSE [s EXCEPT !.val = Wrap(s.d[High(op)], size), !.src = Wrap(s.d[Low(op)], size)]

XResult(s, op, size, x) ==
  IF BelowAddresses(op) THEN Store(s, AReg(s, High(op)), size, x) ELSE SetD(s, High(op), size, x)
-----------------------------------------------------------------------------
(* Addition and subtraction *)

\* The result is left in val.
AddInto(s, dst, src, size, addx) ==
  LET x == Num(addx /\ s.X)
      u == CarryingAdd(src, dst, x, size)
  IN  [s EXCEPT !.val = u.res, !.X = u.over, !.C = u.over, !.N = Negative(u.res, size),
                !.Z = u.res = 0 /\ (addx => @), !.V = SignedCarryingAdd(src, dst, x, size)]

SubInto(s, dst, src, size, kind) ==
  LET x == Num(kind = "subx" /\ s.X)
      u == BorrowingSub(dst, src, x, size)
  IN  [s EXCEPT !.val = u.res, !.X = IF kind = "cmp" THEN @ ELSE u.over, !.C = u.over,
                !.N = Negative(u.res, size), !.Z = u.res = 0 /\ (kind = "subx" => @),
                !.V = SignedBorrowingSub(dst, src, x, size)]

\* The value goes to the operand, or to the register of bits 9 to 11.
ToOperand(s, size) == Try(s, Set(s, size, s.val))
ToRegister(s, op, size) == Try(s, SetD(s, High(op), size, s.val))

Add(s, op) ==
  LET size == Sized[SizeOf(op)]
      e    == Source(s, op, size)
      reg  == Wrap(s.d[High(op)], size)
  IN  IF TowardOperand(op) THEN ToOperand(Try(e, AddInto(e, e.val, reg, size, FALSE)), size)
      ELSE ToRegister(Try(e, AddInto(e, reg, e.val, size, FALSE)), op, size)

Sub(s, op) ==
  LET size == Sized[SizeOf(op)]
      e    == Source(s, op, size)
      reg  == Wrap(s.d[High(op)], size)
  IN  IF TowardOperand(op) THEN ToOperand(Try(e, SubInto(e, e.val, reg, size, "sub")), size)
      ELSE ToRegister(Try(e, SubInto(e, reg, e.val, size, "sub")), op, size)

\* Bit 8 is the size: a word source is sign-extended.
AddressSource(s, op) ==
  LET size == AddressSize(op)
      e    == Source(s, op, size)
  IN  [e EXCEPT !.val = Extend(@, size)]

Adda(s, op) ==
  LET e == AddressSource(s, op) IN Try(e, SetA(e, High(op), AReg(e, High(op)) + e.val))
Suba(s, op) ==
  LET e == AddressSource(s, op) IN Try(e, SetA(e, High(op), AReg(e, High(op)) - e.val))
Cmpa(s, op) ==
  LET e == AddressSource(s, op)
  IN  Try(e, SubInto(e, AReg(e, High(op)), e.val, "L", "cmp"))

\* The immediate comes before the extension words of the operand: it is kept in src.
Immediate(s, op) ==
  LET size == Sized[SizeOf(op)]
      i    == IF size = "L" THEN NextLong(s) ELSE NextWord(s)
  IN  Source([i EXCEPT !.src = Wrap(i.val, size)], op, size)

Addi(s, op) ==
  LET size == Sized[SizeOf(op)]
      e    == Immediate(s, op)
  IN  ToOperand(Try(e, AddInto(e, e.val, e.src, size, FALSE)), size)
Subi(s, op) ==
  LET size == Sized[SizeOf(op)]
      e    == Immediate(s, op)
  IN  ToOperand(Try(e, SubInto(e, e.val, e.src, size, "sub")), size)
Cmpi(s, op) ==
  LET e == Immediate(s, op) IN Try(e, SubInto(e, e.val, e.src, Sized[SizeOf(op)], "cmp"))

Quick(op) == IF High(op) = 0 THEN 8 ELSE High(op)

\* On an address register the whole register counts and no flag changes.
Addq(s, op) ==
  LET size == Sized[SizeOf(op)]
      e    == Source(s, op, size)
  IN  IF Mode(op) = 1 THEN SetA(s, Low(op), AReg(s, Low(op)) + Quick(op))
      ELSE ToOperand(Try(e, AddInto(e, e.val, Quick(op), size, FALSE)), size)
Subq(s, op) ==
  LET size == Sized[SizeOf(op)]
      e    == Source(s, op, size)
  IN  IF Mode(op) = 1 THEN SetA(s, Low(op), AReg(s, Low(op)) - Quick(op))
      ELSE ToOperand(Try(e, SubInto(e, e.val, Quick(op), size, "sub")), size)

Addx(s, op) ==
  LET size == Sized[SizeOf(op)]
      e    == XOperands(s, op, size)
      r    == AddInto(e, e.val, e.src, size, TRUE)
  IN  Try(e, XResult(r, op, size, r.val))
Subx(s, op) ==
  LET size == Sized[SizeOf(op)]
      e    == XOperands(s, op, size)
      r    == SubInto(e, e.val, e.src, size, "subx")
  IN  Try(e, XResult(r, op, size, r.val))

Cmp(s, op) ==
  LET size == Sized[SizeOf(op)]
      e    == Source(s, op, size)
  IN  Try(e, SubInto(e, Wrap(e.d[High(op)], size), e.val, size, "cmp"))

Cmpm(s, op) ==
  LET size == Sized[SizeOf(op)]
      y    == Ariwpo(s, Low(op), size)
      x    == Ariwpo(y, High(op), size)
      src  == Load(x, y.val, size)
      dst  == Load(src, x.val, size)
  IN  Try(dst, SubInto(dst, dst.val, src.val, size, "cmp"))

Neg(s, op) ==
  LET size == Sized[SizeOf(op)]
      e    == Source(s, op, size)
  IN  ToOperand(Try(e, SubInto(e, 0, e.val, size, "sub")), size)
Negx(s, op) ==
  LET size == Sized[SizeOf(op)]
      e    == Source(s, op, size)
  IN  ToOperand(Try(e, SubInto(e, 0, e.val, size, "subx")), size)
-----------------------------------------------------------------------------
(* Decimal arithmetic, a digit to a nibble *)

Abcd(s, op) ==
  LET e      == XOperands(s, op, "B")
      adjust == (e.src % Nibble) + (e.val % Nibble) + Num(e.X) >= Nibble
      bin    == CarryingAdd(e.src, e.val, Num(e.X), "B")
      low    == IF bin.res % Nibble >= Ten \/ adjust THEN Wrap(bin.res + Nibble - Ten, "B")
                ELSE bin.res
      c      == bin.res > (Ten - 1) * (Nibble + 1) \/ bin.over
      res    == IF c THEN Wrap(low + (Nibble - Ten) * Nibble, "B") ELSE low
      r      == [e EXCEPT !.X = c, !.C = c, !.N = Negative(res, "B"), !.Z = @ /\ res = 0,
                          !.V = Negative(res, "B") /\ ~Negative(bin.res, "B")]
  IN  Try(e, XResult(r, op, "B", res))

\* The result is left in val.
SbcdInto(s, dst, src) ==
  LET adjust == dst % Nibble < (src % Nibble) + Num(s.X)
      bin    == BorrowingSub(dst, src, Num(s.X), "B")
      low    == IF bin.res % Nibble >= Ten \/ adjust THEN Wrap(bin.res - (Nibble - Ten), "B")
                ELSE bin.res
      res    == IF bin.res > (Ten - 1) * (Nibble + 1) \/ bin.over
                THEN Wrap(low - (Nibble - Ten) * Nibble, "B") ELSE low
  IN  [s EXCEPT !.val = res, !.X = bin.over, !.C = bin.over, !.N = Negative(res, "B"),
                !.Z = @ /\ res = 0, !.V = ~Negative(res, "B") /\ Negative(bin.res, "B")]

Sbcd(s, op) ==
  LET e == XOperands(s, op, "B")
      r == SbcdInto(e, e.val, e.src)
  IN  Try(e, XResult(r, op, "B", r.val))

Nbcd(s, op) ==
  LET e == Source(s, op, "B") IN ToOperand(Try(e, SbcdInto(e, 0, e.val)), "B")
-----------------------------------------------------------------------------
(* Multiplication and division *)

Mulu(s, op) ==
  LET e   == Source(s, op, "W")
      res == e.val * Wrap(e.d[High(op)], "W")
  IN  Try(e, Tested(SetD(e, High(op), "L", res), Wrap(res, "L"), "L"))

Muls(s, op) ==
  LET e   == Source(s, op, "W")
      res == SignedOf(e.val, "W") * SignedOf(Wrap(e.d[High(op)], "W"), "W")
  IN  Try(e, Tested(SetD(e, High(op), "L", res), Wrap(res, "L"), "L"))

\* A division by zero clears C and sets Z before the exception.
ByZero(s) == Fail([s EXCEPT !.C = FALSE, !.Z = TRUE], 5)

Divu(s, op) ==
  LET e    == Source(s, op, "W")
      dst  == e.d[High(op)]
      quot == dst \div e.val
      rem  == dst % e.val
      over == quot >= Modulus["W"]
  IN  Try(e, IF e.val = 0 THEN ByZero(e)
             ELSE IF over THEN [e EXCEPT !.C = FALSE, !.N = FALSE, !.Z = FALSE, !.V = TRUE]
             ELSE Tested(SetD(e, High(op), "L", rem * Modulus["W"] + quot), quot, "W"))

Abs(x) == IF x < 0 THEN -x ELSE x

\* The quotient is truncated towards zero; the most negative word counts as overflow.
Divs(s, op) ==
  LET e    == Source(s, op, "W")
      src  == SignedOf(e.val, "W")
      dst  == SignedOf(e.d[High(op)], "L")
      quot == LET q == Abs(dst) \div Abs(src) IN IF (dst < 0) = (src < 0) THEN q ELSE -q
      rem  == Wrap(dst - quot * src, "W")
      low  == Wrap(quot, "W")
      over == quot <= -Sign["W"] \/ quot >= Sign["W"]
      f    == [e EXCEPT !.C = FALSE, !.N = Negative(low, "W"), !.Z = low = 0, !.V = over]
  IN  Try(e, IF src = 0 THEN ByZero(e)
             ELSE IF over THEN f
             ELSE SetD(f, High(op), "L", rem * Modulus["W"] + low))

Chk(s, op) ==
  LET e    == Source(s, op, "W")
      data == SignedOf(Wrap(e.d[High(op)], "W"), "W")
  IN  Try(e, IF data < 0 \/ data > SignedOf(e.val, "W") THEN Fail(e, 6) ELSE e)
-----------------------------------------------------------------------------
(* Logic *)

And(s, op) ==
  LET size == Sized[SizeOf(op)]
      e    == Source(s, op, size)
      res  == BitAnd(e.val, Wrap(s.d[High(op)], size))
      r    == Tested([e EXCEPT !.val = res], res, size)
  IN  IF TowardOperand(op) THEN ToOperand(Try(e, r), size) ELSE ToRegister(Try(e, r), op, size)

Or(s, op) ==
  LET size == Sized[SizeOf(op)]
      e    == Source(s, op, size)
      res  == BitOr(e.val, Wrap(s.d[High(op)], size))
      r    == Tested([e EXCEPT !.val = res], res, size)
  IN  IF TowardOperand(op) THEN ToOperand(Try(e, r), size) ELSE ToRegister(Try(e, r), op, size)

Eor(s, op) ==
  LET size == Sized[SizeOf(op)]
      e    == Source(s, op, size)
      res  == BitXor(e.val, Wrap(s.d[High(op)], size))
  IN  ToOperand(Try(e, Tested([e EXCEPT !.val = res], res, size)), size)

Andi(s, op) ==
  LET size == Sized[SizeOf(op)]
      e    == Immediate(s, op)
      res  == BitAnd(e.val, e.src)
  IN  ToOperand(Try(e, Tested([e EXCEPT !.val = res], res, size)), size)
Ori(s, op) ==
  LET size == Sized[SizeOf(op)]
      e    == Immediate(s, op)
      res  == BitOr(e.val, e.src)
  IN  ToOperand(Try(e, Tested([e EXCEPT !.val = res], res, size)), size)
Eori(s, op) ==
  LET size == Sized[SizeOf(op)]
      e    == Immediate(s, op)
      res  == BitXor(e.val, e.src)
  IN  ToOperand(Try(e, Tested([e EXCEPT !.val = res], res, size)), size)

Not(s, op) ==
  LET size == Sized[SizeOf(op)]
      e    == Source(s, op, size)
      res  == Modulus[size] - 1 - e.val
  IN  ToOperand(Try(e, Tested([e EXCEPT !.val = res], res, size)), size)

Clr(s, op) ==
  LET size == Sized[SizeOf(op)]
      e    == Set(Operand(s, op, size), size, 0)
  IN  Try(e, Tested(e, 0, size))

Tst(s, op) ==
  LET size == Sized[SizeOf(op)]
      e    == Source(s, op, size)
  IN  Try(e, Tested(e, e.val, size))

Tas(s, op) ==
  LET e == Source(s, op, "B")
  IN  ToOperand(Try(e, [Tested(e, e.val, "B") EXCEPT !.val = BitOr(e.val, Sign["B"])]), "B")

Scc(s, op) ==
  Set(Operand(s, op, "B"), "B", IF Condition(s, ConditionOf(op)) THEN Modulus["B"] - 1 ELSE 0)

\* The number of a bit, in a register or in the next word.
BitCount(s, op) == IF Bit(op, 8) THEN [s EXCEPT !.val = s.d[High(op)]] ELSE NextWord(s)

\* Operations on a bit: a register has its whole width, memory a byte.
BitOperand(s, op) ==
  LET n    == BitCount(s, op)
      size == IF Mode(op) = 0 THEN "L" ELSE "B"
      bit  == n.val % Width[size]
      e    == Source(n, op, size)
  IN  Try(e, [e EXCEPT !.src = 2^bit, !.Z = ~BitAt(e.val, bit)])

BitSize(op) == IF Mode(op) = 0 THEN "L" ELSE "B"

Btst(s, op) == BitOperand(s, op)
Bchg(s, op) ==
  LET e == BitOperand(s, op)
  IN  ToOperand(Try(e, [e EXCEPT !.val = IF e.Z THEN @ + e.src ELSE @ - e.src]), BitSize(op))
Bclr(s, op) ==
  LET e == BitOperand(s, op)
  IN  ToOperand(Try(e, [e EXCEPT !.val = IF e.Z THEN @ ELSE @ - e.src]), BitSize(op))
Bset(s, op) ==
  LET e == BitOperand(s, op)
  IN  ToOperand(Try(e, [e EXCEPT !.val = IF e.Z THEN @ + e.src ELSE @]), BitSize(op))
-----------------------------------------------------------------------------
(* Shifts and rotations, bit by bit, of a field [data, X, V, C] *)

AsBit(f, left, size) ==
  IF left
  THEN LET sign == Negative(f.data, size)
           next == Wrap(2 * f.data, size)
       IN  [data |-> next, X |-> sign, C |-> sign, V |-> f.V \/ (sign # Negative(next, size))]
  ELSE [data |-> (f.data \div 2) + (IF Negative(f.data, size) THEN Sign[size] ELSE 0),
        X |-> Odd(f.data), C |-> Odd(f.data), V |-> f.V]

LsBit(f, left, size) ==
  LET out == IF left THEN Negative(f.data, size) ELSE Odd(f.data)
  IN  [f EXCEPT !.data = IF left THEN Wrap(2 * @, size) ELSE @ \div 2, !.X = out, !.C = out]

RoBit(f, left, size) ==
  LET out == IF left THEN Negative(f.data, size) ELSE Odd(f.data)
  IN  [f EXCEPT !.data = IF left THEN Wrap(2 * @, size) + Num(out)
                         ELSE (@ \div 2) + Num(out) * Sign[size], !.C = out]

RoxBit(f, left, size) ==
  LET out == IF left THEN Negative(f.data, size) ELSE Odd(f.data)
  IN  [f EXCEPT !.data = IF left THEN Wrap(2 * @, size) + Num(f.X)
                         ELSE (@ \div 2) + Num(f.X) * Sign[size], !.X = out, !.C = out]

OneBit(f, kind, left, size) ==
  CASE kind = "as"  -> AsBit(f, left, size)
    [] kind = "ls"  -> LsBit(f, left, size)
    [] kind = "ro"  -> RoBit(f, left, size)
    [] kind = "rox" -> RoxBit(f, left, size)

RECURSIVE Turn(_, _, _, _, _)
Turn(f, count, kind, left, size) ==
  IF count = 0 THEN f ELSE Turn(OneBit(f, kind, left, size), count - 1, kind, left, size)

\* The core with the flags of a field, and N and Z of its data.
Shifted(s, f, size) ==
  [s EXCEPT !.X = f.X, !.V = f.V, !.C = f.C, !.N = Negative(f.data, size), !.Z = f.data = 0]

ShiftCount(s, op) ==
  IF CountInRegister(op) THEN s.d[High(op)] % 64 ELSE IF High(op) = 0 THEN 8 ELSE High(op)

\* Carry is what C holds after no bit at all.
ShiftRegister(s, op, kind, carry) ==
  LET size == Sized[SizeOf(op)]
      f    == Turn([data |-> Wrap(s.d[Low(op)], size), X |-> s.X, V |-> FALSE, C |-> carry],
                   ShiftCount(s, op), kind, ToTheLeft(op), size)
  IN  SetD(Shifted(s, f, size), Low(op), size, f.data)

Asr(s, op)  == ShiftRegister(s, op, "as", FALSE)
Lsr(s, op)  == ShiftRegister(s, op, "ls", FALSE)
Ror(s, op)  == ShiftRegister(s, op, "ro", FALSE)
Roxr(s, op) == ShiftRegister(s, op, "rox", s.X)

\* In memory a word moves by one bit.
ShiftMemory(s, op, kind) ==
  LET e == Source(s, op, "W")
      f == OneBit([data |-> e.val, X |-> e.X, V |-> FALSE, C |-> FALSE], kind, ToTheLeft(op), "W")
  IN  ToOperand(Try(e, [Shifted(e, f, "W") EXCEPT !.val = f.data]), "W")

Asm(s, op)  == ShiftMemory(s, op, "as")
Lsm(s, op)  == ShiftMemory(s, op, "ls")
Rom(s, op)  == ShiftMemory(s, op, "ro")
Roxm(s, op) == ShiftMemory(s, op, "rox")
=============================================================================

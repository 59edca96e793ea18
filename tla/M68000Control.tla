--------------------------- MODULE M68000Control ---------------------------
(***************************************************************************)
(* crates/m68000/src/interpreter.rs: the instructions that move data, change *)
(* the flow of control and the state of the system.                         *)
(***************************************************************************)
EXTENDS M68000Alu

MoveSize(op) == <<"B", "L", "W">>[Bits(op, 12, 13)]
MoveDestination(s, op, size) == FromMemory(s, Bits(op, 6, 8), High(op), size)

\* Both operands are decoded before the source is read.
Move(s, op) ==
  LET size == MoveSize(op)
      from == Operand(s, op, size)
      to   == MoveDestination(from, op, size)
      got  == Get([to EXCEPT !.ea = from.ea], size)
      put  == Set([got EXCEPT !.ea = to.ea], size, got.val)
  IN  Try(got, Try(put, Tested(put, got.val, size)))

Movea(s, op) ==
  LET size == MoveSize(op)
      e    == Source(s, op, size)
  IN  Try(e, SetA(e, High(op), Extend(e.val, size)))

MoveqData(op) == Wrap(ByteDisplacement(op), "L")
Moveq(s, op) ==
  LET x == MoveqData(op) IN Tested(SetD(s, High(op), "L", x), x, "L")

Moveccr(s, op) == LET e == Source(s, op, "W") IN Try(e, SetCcr(e, e.val))
Movefsr(s, op) == Set(Operand(s, op, "W"), "W", Sr(s))
Movesr(s, op) ==
  LET e == Get(CheckSupervisor(Operand(s, op, "W")), "W") IN Try(e, SetSr(e, e.val))
UspToRegister(op) == Bit(op, 3)
Moveusp(s, op) ==
  Try(CheckSupervisor(s),
      IF UspToRegister(op) THEN SetA(s, Low(op), s.usp) ELSE [s EXCEPT !.usp = AReg(s, Low(op))])

\* Registers 0 to 7 are D0 to D7, 8 to 15 A0 to A7.
Reg(s, k) == IF k < 8 THEN s.d[k] ELSE AReg(s, k - 8)

\* Bit k of the list stands for register k, or for register 15 - k below an
\* address that is counted down; val is the address after the transfer.
RECURSIVE MoveOut(_, _, _, _, _)
MoveOut(s, list, k, size, down) ==
  LET n    == Bytes[size]
      at   == IF down THEN Wrap(s.val - n, "L") ELSE s.val
      next == [s EXCEPT !.mem = StoreTo(@, at, size,
                                        Wrap(Reg(s, IF down THEN 15 - k ELSE k), size)),
                        !.val = IF down THEN at ELSE Wrap(at + n, "L")]
  IN  IF k = 16 THEN s ELSE MoveOut(IF Bit(list, k) THEN next ELSE s, list, k + 1, size, down)

RECURSIVE MoveIn(_, _, _, _)
MoveIn(s, list, k, size) ==
  LET x    == Extend(LoadFrom(s.mem, s.val, size), size)
      t    == IF k < 8 THEN [s EXCEPT !.d[k] = x] ELSE SetA(s, k - 8, x)
      next == [t EXCEPT !.val = Wrap(s.val + Bytes[size], "L")]
  IN  IF k = 16 THEN s ELSE MoveIn(IF Bit(list, k) THEN next ELSE s, list, k + 1, size)

\* The list comes before the extension words of the operand: it is kept in src.
ListAndOperand(s, op, size) ==
  LET n == NextWord(s) IN Operand([n EXCEPT !.src = n.val], op, size)

Movem(s, op) ==
  LET size  == IF Bit(op, 6) THEN "L" ELSE "W"
      am    == ListAndOperand(s, op, size)
      list  == am.src
      own   == AReg(s, Low(op))
      start == IF Mode(op) \in {3, 4} THEN [am EXCEPT !.val = own] ELSE Locate(am, size)
      done  == IF Bit(op, 10) /\ Mode(op) # 4 THEN MoveIn(start, list, 0, size)
               ELSE MoveOut(start, list, 0, size, Mode(op) = 4)
  IN  IF Odd(start.val) THEN Fail(start, 3)
      ELSE IF Mode(op) \in {3, 4} THEN SetA(done, Low(op), done.val) ELSE done

\* Bytes at every other address, the highest first.
RECURSIVE MovepOut(_, _, _, _)
MovepOut(mem, a, x, n) ==
  IF n = 0 THEN mem
  ELSE MovepOut(StoreTo(mem, a, "B", (x \div 2^(ByteBits * (n - 1))) % Modulus["B"]),
                a + 2, x, n - 1)

RECURSIVE MovepIn(_, _, _)
MovepIn(mem, a, n) ==
  IF n = 0 THEN 0 ELSE MovepIn(mem, a, n - 1) * Modulus["B"] + ByteAt(mem, a + 2 * (n - 1))

\* Of Movep: the size, and whether the register is written to memory.
MovepFields(op) == [size |-> IF Bit(op, 6) THEN "L" ELSE "W", out |-> Bit(op, 7)]

\* The displacement in the next word is left in val.
NextDisplacement(s) == [NextWord(s) EXCEPT !.val = Displacement(@)]

Movep(s, op) ==
  LET size == MovepFields(op).size
      n    == NextDisplacement(s)
      at   == Wrap(AReg(s, Low(op)) + n.val, "L")
  IN  IF MovepFields(op).out THEN [n EXCEPT !.mem = MovepOut(@, at, s.d[High(op)], Bytes[size])]
      ELSE SetD(n, High(op), size, MovepIn(n.mem, at, Bytes[size]))

\* 8 exchanges data registers, 9 address registers, 17 one of each.
ExchangeKind(op) == Bits(op, 3, 7)

Exg(s, op) ==
  LET kind == ExchangeKind(op)
      x    == s.d[High(op)]
      y    == s.d[Low(op)]
      ax   == AReg(s, High(op))
      ay   == AReg(s, Low(op))
  IN  CASE kind = 8 -> [s EXCEPT !.d[High(op)] = y, !.d[Low(op)] = x]
        [] kind = 9 -> SetA(SetA(s, Low(op), ax), High(op), ay)
        [] OTHER    -> [SetA(s, Low(op), x) EXCEPT !.d[High(op)] = ay]

\* From a byte to a word with opmode 2, from a word to a long otherwise.
ExtensionMode(op) == Bits(op, 6, 8)
Ext(s, op) ==
  LET x == s.d[Low(op)]
      t == IF ExtensionMode(op) = 2 THEN SetD(s, Low(op), "W", Extend(Wrap(x, "B"), "B"))
           ELSE SetD(s, Low(op), "L", Extend(Wrap(x, "W"), "W"))
  IN  Tested(t, t.d[Low(op)], "L")

Swap(s, op) ==
  LET x == s.d[Low(op)]
      y == Wrap(x, "W") * Modulus["W"] + (x \div Modulus["W"])
  IN  Tested(SetD(s, Low(op), "L", y), y, "L")

Lea(s, op) == LET e == Locate(Operand(s, op, "L"), "L") IN SetA(e, High(op), e.val)
Pea(s, op) == LET e == Locate(Operand(s, op, "L"), "L") IN Push(e, "L", e.val)

Link(s, op) ==
  LET n == NextDisplacement(s)
      p == Push(n, "L", AReg(n, Low(op)))
      t == SetA(p, Low(op), AReg(p, 7))
  IN  Try(p, SetA(t, 7, AReg(t, 7) + n.val))

Unlk(s, op) ==
  LET p == Pop(SetA(s, 7, AReg(s, Low(op))), "L") IN Try(p, SetA(p, Low(op), p.val))
-----------------------------------------------------------------------------
(* The flow of control; pc is the address after the opcode word *)

\* A zero in the opcode's low byte is followed by a displacement word.
BranchDisplacement(s, op) ==
  IF op % 256 = 0 THEN NextDisplacement(s)
  ELSE [s EXCEPT !.val = ByteDisplacement(op)]

Bcc(s, op) ==
  LET n == BranchDisplacement(s, op)
  IN  IF Condition(s, ConditionOf(op)) THEN [n EXCEPT !.pc = Wrap(s.pc + n.val, "L")] ELSE n
Bra(s, op) ==
  LET n == BranchDisplacement(s, op) IN [n EXCEPT !.pc = Wrap(s.pc + n.val, "L")]
Bsr(s, op) ==
  LET n == BranchDisplacement(s, op)
      p == Push(n, "L", n.pc)
  IN  Try(p, [p EXCEPT !.pc = Wrap(s.pc + n.val, "L")])

Dbcc(s, op) ==
  LET n     == NextDisplacement(s)
      count == Wrap(s.d[Low(op)] - 1, "W")
      t     == SetD(n, Low(op), "W", count)
  IN  IF Condition(s, ConditionOf(op)) THEN n
      ELSE IF count = Modulus["W"] - 1 THEN t
      ELSE [t EXCEPT !.pc = Wrap(s.pc + n.val, "L")]

Jmp(s, op) == LET e == Locate(Operand(s, op, "L"), "L") IN [e EXCEPT !.pc = e.val]

\* The return address is pushed before the address is computed.
Jsr(s, op) ==
  LET o == Operand(s, op, "L")
      p == Push(o, "L", o.pc)
      e == Locate(p, "L")
  IN  Try(p, [e EXCEPT !.pc = e.val])

Rts(s) == LET p == Pop(s, "L") IN Try(p, [p EXCEPT !.pc = p.val])
Rtr(s) ==
  LET w == Pop(s, "W")
      p == Pop(Try(w, SetCcr(w, w.val)), "L")
  IN  Try(p, [p EXCEPT !.pc = p.val])
Rte(s) ==
  LET w == Pop(CheckSupervisor(s), "W")
      p == Pop(w, "L")
  IN  Try(p, [SetSr(p, w.val) EXCEPT !.pc = p.val])

TrapVector(op) == 32 + Bits(op, 0, 3)
Trap(s, op) == Fail(s, TrapVector(op))
Trapv(s)    == IF s.V THEN Fail(s, 7) ELSE s
Illegal(s)  == Fail(s, 4)
Unknown(s, op) == Fail(s, CASE op \div 4096 = 10 -> 10 [] op \div 4096 = 15 -> 11 [] OTHER -> 4)
Reset(s)    == CheckSupervisor(s)

\* Instructions on the condition codes and the status register, with the next word.
ImmediateWord(s) == [NextWord(s) EXCEPT !.val = Wrap(@, "W")]

Andiccr(s) == LET n == ImmediateWord(s) IN SetCcr(n, BitAnd(Sr(s), n.val))
Eoriccr(s) == LET n == ImmediateWord(s) IN SetSr(n, BitXor(Sr(s), n.val))
Oriccr(s)  == LET n == ImmediateWord(s) IN SetSr(n, BitOr(Sr(s), n.val))

Andisr(s) ==
  LET n == CheckSupervisor(ImmediateWord(s)) IN Try(n, SetSr(n, BitAnd(Sr(s), n.val)))
Eorisr(s) ==
  LET n == CheckSupervisor(ImmediateWord(s)) IN Try(n, SetSr(n, BitXor(Sr(s), n.val)))
Orisr(s) ==
  LET n == CheckSupervisor(ImmediateWord(s)) IN Try(n, SetSr(n, BitOr(Sr(s), n.val)))
Stop(s) ==
  LET n == CheckSupervisor(ImmediateWord(s))
  IN  Try(n, [SetSr(n, n.val) EXCEPT !.stop = TRUE])
=============================================================================

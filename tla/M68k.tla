-------------------------------- MODULE M68k --------------------------------
(***************************************************************************)
(* The m68k core in its 68000 type: the dispatcher of decode.rs, one         *)
(* operator per group of opcodes, and a step of execute.rs with the handler  *)
(* the emulator gives it, which leaves every trap to the processor.          *)
(* An effective address that does not exist is an illegal instruction in     *)
(* some groups and a panic in the others.                                    *)
(***************************************************************************)
EXTENDS M68kInstructions

\* Illegal instructions, lines A and F start again from the instruction itself.
Illegal(k) == TakeException([k EXCEPT !.pc = k.ppc], 4)
LineTrap(k, vector) == TakeException([k EXCEPT !.pc = k.ppc], vector)

Unwrapped(k, op, then) == IF Exists(Ea(op)) THEN then ELSE Panic(k)
Decoded(k, op, then)   == IF Exists(Ea(op)) THEN then ELSE Illegal(k)

Size00(op) == IF SizeOf(op) = 3 THEN "B" ELSE Sized[SizeOf(op)]
OpMode(op) == Bits(op, 6, 8)

DispatchMove(k, op, size) ==
  LET to == 8 * Bits(op, 6, 8) + High(op)
  IN  IF ~Exists(Ea(op)) \/ ~Exists(to) THEN Illegal(k)
      ELSE IF Kind(to) # 1 THEN ExecMove(k, size, Ea(op), to)
      ELSE IF size = "B" THEN Illegal(k)
      ELSE ExecMovea(k, size, Ea(op), High(op))

DispatchMoveq(k, op) ==
  LET x == Wrap(ByteDisplacement(op), "L") IN ResultFlags(SetDar(k, High(op), x), x, "L")

\* Movep: bytes at every other address, the highest first.
RECURSIVE MovepTo(_, _, _, _)
MovepTo(k, at, x, n) ==
  IF n = 0 THEN k
  ELSE MovepTo(Write(k, at, "B", x \div 2^(ByteBits * (n - 1))), at + 2, x, n - 1)

RECURSIVE MovepFrom(_, _, _, _)
MovepFrom(k, at, x, n) ==
  LET r == Read(k, at, "B")
  IN  IF n = 0 THEN [k EXCEPT !.val = x] ELSE MovepFrom(r, at + 2, x * Modulus["B"] + r.val, n - 1)

Movep(k, op) ==
  LET size == IF Bit(op, 6) THEN "L" ELSE "W"
      d    == ReadImm16(k)
      at   == Wrap(A(d, Low(op)) + Displacement(d.val), "L")
      got  == MovepFrom(d, at, 0, Bytes[size])
  IN  IF Bit(op, 7) THEN MovepTo(d, at, Wrap(D(d, High(op)), size), Bytes[size])
      ELSE SetData(got, High(op), size, got.val)

\* Immediate operands: the addition and the subtraction go on after a fault.
ImmediateInto(k, op, adding) ==
  LET size == Sized[SizeOf(op)]
      i    == ReadImmediate(k, size)
      s    == ReadResolved(ResolveEa(i, Ea(op), size), size)
      r    == IF adding THEN SetAddFlags(s, i.val, s.val, size) ELSE SetSubFlags(s, i.val, s.val, size)
  IN  WriteResolved(r, size, r.val)

Cmpi(k, op) ==
  LET size == Sized[SizeOf(op)]
      i    == ReadImmediate(k, size)
      s    == ReadEa(i, Ea(op), size)
  IN  IF Faulted(s) THEN s ELSE ExecCmp(s, size, i.val, s.val)

DispatchBit(k, op) ==
  LET i == IF Bit(op, 8) THEN [k EXCEPT !.val = D(k, High(op))] ELSE ReadImm16(k)
  IN  Decoded(k, op, CASE SizeOf(op) = 0 -> ExecBtst(i, i.val, Ea(op))
                       [] SizeOf(op) = 1 -> ExecBchg(i, i.val, Ea(op))
                       [] SizeOf(op) = 2 -> ExecBclr(i, i.val, Ea(op))
                       [] SizeOf(op) = 3 -> ExecBset(i, i.val, Ea(op)))

\* The instructions of later processors among the immediate ones: CAS, MOVES, CALLM,
\* CMP2 and CHK2.  They are illegal on this one.
OfLaterProcessors(op) == ~Bit(op, 8) /\ (High(op) = 7 \/ (SizeOf(op) = 3 /\ High(op) # 4))

DispatchGroup0(k, op) ==
  LET size == Size00(op)
      name == High(op)
      byte == Ea(op) = 60 /\ SizeOf(op) = 0
      word == Ea(op) = 60 /\ SizeOf(op) = 1
  IN  CASE Bit(op, 8) /\ Mode(op) = 1 -> Movep(k, op)
        [] Bit(op, 8) /\ Mode(op) # 1 -> DispatchBit(k, op)
        [] ~Bit(op, 8) /\ name = 4 -> DispatchBit(k, op)
        [] OfLaterProcessors(op) -> Illegal(k)
        [] ~Bit(op, 8) /\ name # 4 /\ ~OfLaterProcessors(op) ->
             CASE name = 0 -> IF byte THEN ExecOriCcr(k) ELSE IF word THEN ExecOriSr(k)
                              ELSE Decoded(k, op, ExecOri(k, size, Ea(op)))
               [] name = 1 -> IF byte THEN ExecAndiCcr(k) ELSE IF word THEN ExecAndiSr(k)
                              ELSE Decoded(k, op, ExecAndi(k, size, Ea(op)))
               [] name = 2 -> Unwrapped(k, op, ImmediateInto(k, op, FALSE))
               [] name = 3 -> Unwrapped(k, op, ImmediateInto(k, op, TRUE))
               [] name = 5 -> IF byte THEN ExecEoriCcr(k) ELSE IF word THEN ExecEoriSr(k)
                              ELSE Unwrapped(k, op, ExecEori(k, size, Ea(op)))
               [] name = 6 -> Unwrapped(k, op, Cmpi(k, op))
-----------------------------------------------------------------------------
(* Group 4 *)

\* A value pulled after a fault is 0, and is used.
Rts(k) == LET p == Pull(k, "L") IN [p EXCEPT !.pc = p.val]
Rtr(k) ==
  LET w == Pull(k, "W")
      p == Pull(SetCcr(w, w.val), "L")
  IN  [p EXCEPT !.pc = p.val]
Rte(k) ==
  LET w == Pull(k, "W")
      p == Pull(w, "L")
  IN  SetSr([p EXCEPT !.pc = p.val], w.val)
Stop(k) == LET i == ReadImm16(k) IN [SetSr(i, Wrap(i.val, "W")) EXCEPT !.stop = TRUE]

MoveToSr(k, op) ==
  LET s == ReadEa(k, Ea(op), "W") IN IF Faulted(s) THEN s ELSE SetSr(s, s.val)
MoveToCcr(k, op) ==
  LET s == ReadEa(k, Ea(op), "W") IN IF Faulted(s) THEN s ELSE SetCcr(s, s.val)

\* The address is computed before the return address is pushed.
Jsr(k, op) ==
  LET s == EaAddress(k, Ea(op), "L") IN [Push(s, "L", s.pc) EXCEPT !.pc = s.val]
Jmp(k, op) == LET s == EaAddress(k, Ea(op), "L") IN [s EXCEPT !.pc = s.val]

MovemLoad(k, op) ==
  LET m == ReadImm16(k)
  IN  IF Mode(op) < 2 THEN Illegal(k)
      ELSE Unwrapped(k, op, ExecMovemToReg(m, IF Bit(op, 6) THEN "L" ELSE "W", Ea(op), m.val))
MovemStore(k, op) ==
  LET m == ReadImm16(k)
  IN  Unwrapped(k, op, ExecMovemToMem(m, IF Bit(op, 6) THEN "L" ELSE "W", Ea(op), m.val))

\* A return that deallocates and the moves of control registers: later processors.
RtdMovec(low) == low \in {52, 58, 59}

\* 4E40 to 4E7F.
Control4E(k, op) ==
  LET low == Ea(op)
      reg == Low(op)
  IN  CASE low < 16 -> TakeException(k, 32 + low)
        [] low \in 16 .. 23 -> ExecLink(k, reg)
        [] low \in 24 .. 31 -> ExecUnlk(k, reg)
        [] low \in 32 .. 39 -> Privileged(k, SetUsp(k, A(k, reg)))
        [] low \in 40 .. 47 -> Privileged(k, SetAddr(k, reg, GetUsp(k)))
        [] low = 48 -> Privileged(k, k)
        [] low = 49 -> k
        [] low = 50 -> Privileged(k, Stop(k))
        [] low = 51 -> Privileged(k, Rte(k))
        [] RtdMovec(low) -> Illegal(k)
        [] low = 53 -> Rts(k)
        [] low = 54 -> IF k.v # 0 THEN TakeException(k, 7) ELSE k
        [] low = 55 -> Rtr(k)
        [] OTHER -> MovemLoad(k, op)

\* Lea and Pea refuse a register and an immediate.
NoAddress(op) == IsRegister(Ea(op)) \/ Ea(op) = 60

Chk(k, op) ==
  LET s == ReadEa(k, Ea(op), "W") IN Decoded(k, op, ExecChk(s, s.val, High(op)))

\* 4800 to 48FF.
Group48(k, op) ==
  CASE SizeOf(op) = 0 -> IF Bits(op, 3, 5) = 1 THEN Illegal(k)
                         ELSE Unwrapped(k, op, ExecNbcd(k, Ea(op)))
    [] SizeOf(op) = 1 -> IF Mode(op) = 0 THEN ExecSwap(k, Low(op))
                         ELSE IF Mode(op) = 1 THEN Illegal(k)
                         ELSE Unwrapped(k, op, IF NoAddress(op) THEN Illegal(k) ELSE ExecPea(k, Ea(op)))
    [] SizeOf(op) \in {2, 3} -> IF Mode(op) = 0
                                THEN ExecExt(k, IF SizeOf(op) = 2 THEN "W" ELSE "L", Low(op))
                                ELSE IF Mode(op) = 1 THEN Illegal(k) ELSE MovemStore(k, op)

\* The rows of 64 opcodes that are no other instruction are multiple moves when
\* bits 10 and 11 are set, and illegal otherwise.
\* The rows of group 4 by bits 8 to 11.
SubGroup4(k, op) ==
  LET size == Size00(op)
      ea   == Ea(op)
      sub  == Bits(op, 8, 11)
      last == SizeOf(op) = 3
  IN  CASE sub = 0  -> Unwrapped(k, op, IF last THEN WriteEa(k, ea, "W", GetSr(k))
                                        ELSE ExecNegx(k, size, ea))
        [] sub = 2  -> IF last THEN Illegal(k) ELSE Unwrapped(k, op, ExecClr(k, size, ea))
        [] sub = 4  -> Unwrapped(k, op, IF last THEN MoveToCcr(k, op) ELSE ExecNeg(k, size, ea))
        [] sub = 6  -> IF last THEN Privileged(k, Unwrapped(k, op, MoveToSr(k, op)))
                       ELSE Unwrapped(k, op, ExecNot(k, size, ea))
        [] sub = 8  -> Group48(k, op)
        [] sub = 10 -> IF op = 19196 THEN Illegal(k)
                       ELSE Unwrapped(k, op, IF last THEN ExecTas(k, ea) ELSE ExecTst(k, size, ea))
        [] sub = 12 -> IF SizeOf(op) < 2 THEN Illegal(k) ELSE MovemLoad(k, op)
        [] sub = 14 -> (CASE SizeOf(op) = 0 -> MovemLoad(k, op)
                          [] SizeOf(op) = 1 -> Control4E(k, op)
                          [] SizeOf(op) = 2 -> Unwrapped(k, op, Jsr(k, op))
                          [] SizeOf(op) = 3 -> Unwrapped(k, op, Jmp(k, op)))
        [] sub \in {13, 15} /\ OpMode(op) \in {4, 5} -> MovemLoad(k, op)
        [] OTHER -> Illegal(k)

DispatchGroup4(k, op) ==
  CASE OpMode(op) = 6 -> Chk(k, op)
    [] OpMode(op) = 7 -> Unwrapped(k, op, IF NoAddress(op) THEN Illegal(k)
                                          ELSE ExecLea(k, Ea(op), High(op)))
    [] OTHER -> SubGroup4(k, op)
-----------------------------------------------------------------------------
(* Groups 5 and 6 *)

Dbcc(k, op) ==
  LET d     == ReadImm16(k)
      count == Wrap(D(k, Low(op)) - 1, "W")
      t     == SetData(d, Low(op), "W", count)
  IN  IF Faulted(d) \/ TestCondition(d, Bits(op, 8, 11)) THEN d
      ELSE IF count = Modulus["W"] - 1 THEN t
      ELSE [t EXCEPT !.pc = Wrap(@ + Displacement(d.val) - 2, "L")]

Scc(k, op) ==
  WriteEa(k, Ea(op), "B", IF TestCondition(k, Bits(op, 8, 11)) THEN Modulus["B"] - 1 ELSE 0)

DispatchGroup5(k, op) ==
  LET quick == IF High(op) = 0 THEN 8 ELSE High(op)
  IN  CASE SizeOf(op) = 3 /\ Mode(op) = 1 -> Dbcc(k, op)
        [] SizeOf(op) = 3 /\ Mode(op) # 1 -> Unwrapped(k, op, Scc(k, op))
        [] SizeOf(op) < 3 ->
             Unwrapped(k, op, IF Bit(op, 8) THEN ExecSubq(k, Sized[SizeOf(op)], quick, Ea(op))
                              ELSE ExecAddq(k, Sized[SizeOf(op)], quick, Ea(op)))

\* A displacement of all ones is followed by a long one, as on later processors.
DispatchGroup6(k, op) ==
  LET cc == Bits(op, 8, 11)
      w  == ReadImm16(k)
      d  == CASE op % 256 = 0   -> [w EXCEPT !.val = Displacement(@)]
              [] op % 256 = 255 -> ReadImm32(k)
              [] OTHER          -> [k EXCEPT !.val = ByteDisplacement(op)]
      go(s) == [s EXCEPT !.pc = Wrap(k.pc + d.val, "L")]
  IN  CASE cc = 0 -> go(d)
        [] cc = 1 -> go(Push(d, "L", d.pc))
        [] cc > 1 -> IF TestCondition(d, cc) THEN go(d) ELSE d
-----------------------------------------------------------------------------
(* Groups 8, 9, B, C and D: a data register and an operand *)

\* The register is the destination; And, Sub and Add go on after a fault, Or and Cmp
\* do not.
ToRegister(k, op, Op(_, _, _, _)) ==
  LET size == Sized[OpMode(op)]
      s    == ReadEa(k, Ea(op), size)
      r    == Op(s, size, s.val, Wrap(D(s, High(op)), size))
  IN  Unwrapped(k, op, SetData(r, High(op), size, r.val))

\* The operand is the destination.
ToOperand(k, op, Op(_, _, _, _)) ==
  LET size == Sized[OpMode(op) - 4]
      s    == ReadResolved(ResolveEa(k, Ea(op), size), size)
      r    == Op(s, size, Wrap(D(k, High(op)), size), s.val)
  IN  Unwrapped(k, op, WriteResolved(r, size, r.val))

ExecAdd(k, size, src, dst) == SetAddFlags(k, src, dst, size)
ExecSub(k, size, src, dst) == SetSubFlags(k, src, dst, size)

\* Unless the read faulted.
OrUnfaulted(k, size, src, dst)  == IF Faulted(k) THEN k ELSE ExecOr(k, size, src, dst)

\* With the extend bit: two registers, or the values below two addresses; a fault in
\* the first read is noticed before the second, one of the write before the flags.
Extended(k, op, Op(_, _, _, _)) ==
  LET size == Sized[OpMode(op) - 4]
      reg  == Op(k, size, Wrap(D(k, Low(op)), size), Wrap(D(k, High(op)), size))
      p    == ResolveEa(k, 32 + Low(op), size)
      q    == ResolveEa(p, 32 + High(op), size)
      x    == ReadResolved([q EXCEPT !.ea = p.ea], size)
      y    == ReadResolved([x EXCEPT !.ea = q.ea], size)
      mem  == Op(y, size, x.val, y.val)
  IN  IF Mode(op) = 0 THEN SetData(reg, High(op), size, reg.val)
      ELSE IF Faulted(x) THEN x
      ELSE IF Faulted(y) THEN y
      ELSE WriteResolved(mem, size, mem.val)

AddressOp(k, op, Op(_, _, _, _)) ==
  LET size == IF OpMode(op) = 3 THEN "W" ELSE "L"
      s    == ReadEa(k, Ea(op), size)
  IN  Unwrapped(k, op, Op(s, size, s.val, High(op)))

DispatchGroup8(k, op) ==
  LET mode == OpMode(op)
  IN  CASE mode < 3 -> LET s == ReadEa(k, Ea(op), Sized[mode])
                       IN  IF Exists(Ea(op)) /\ Faulted(s) THEN s ELSE ToRegister(k, op, ExecOr)
        [] mode = 3 -> Unwrapped(k, op, ExecDivu(k, Ea(op), High(op)))
        [] mode = 7 -> Unwrapped(k, op, ExecDivs(k, Ea(op), High(op)))
        [] mode = 4 /\ Mode(op) < 2 -> ExecSbcd(k, Low(op), High(op), Mode(op) = 1)
        [] mode \in {5, 6} /\ Mode(op) < 2 -> Illegal(k)
        [] mode \in 4 .. 6 /\ Mode(op) >= 2 -> ToOperand(k, op, OrUnfaulted)

DispatchGroup9(k, op) ==
  LET mode == OpMode(op)
  IN  CASE mode < 3 -> ToRegister(k, op, ExecSub)
        [] mode \in {3, 7} -> AddressOp(k, op, ExecSuba)
        [] mode \in 4 .. 6 /\ Mode(op) < 2 -> Extended(k, op, ExecSubx)
        [] mode \in 4 .. 6 /\ Mode(op) >= 2 -> ToOperand(k, op, ExecSub)

\* The first operand is read before the second address is incremented.
Cmpm(k, op) ==
  LET size == Sized[OpMode(op) - 4]
      x    == ReadEa(k, 24 + Low(op), size)
      y    == ReadEa(x, 24 + High(op), size)
  IN  IF Faulted(x) THEN x ELSE IF Faulted(y) THEN y ELSE ExecCmp(y, size, x.val, y.val)

Eor(k, op) ==
  LET size == Sized[OpMode(op) - 4]
      eor(s)   == [s EXCEPT !.val = BitXor(Wrap(D(s, High(op)), size), @)]
      flags(s) == LogicFlags(s, s.val, size)
  IN  OnEaChecked(k, Ea(op), size, eor, flags)

DispatchGroupB(k, op) ==
  LET mode == OpMode(op)
      size == Sized[mode % 4]
      s    == ReadEa(k, Ea(op), size)
      cmpa(t, z, x, reg) == IF Faulted(t) THEN t ELSE ExecCmpa(t, z, x, reg)
  IN  CASE mode < 3 ->
             Unwrapped(k, op, IF Faulted(s) THEN s ELSE ExecCmp(s, size, s.val, D(s, High(op))))
        [] mode \in {3, 7} -> AddressOp(k, op, cmpa)
        [] mode \in 4 .. 6 /\ Mode(op) = 1 -> Cmpm(k, op)
        [] mode \in 4 .. 6 /\ Mode(op) # 1 -> Unwrapped(k, op, Eor(k, op))

DispatchGroupC(k, op) ==
  LET mode == OpMode(op)
  IN  CASE mode < 3 -> ToRegister(k, op, ExecAnd)
        [] mode = 3 -> Unwrapped(k, op, ExecMulu(k, Ea(op), High(op)))
        [] mode = 7 -> Unwrapped(k, op, ExecMuls(k, Ea(op), High(op)))
        [] mode = 4 /\ Mode(op) < 2 -> ExecAbcd(k, Low(op), High(op), Mode(op) = 1)
        [] Bits(op, 3, 8) \in {40, 41, 49} -> ExecExg(k, op)
        [] mode \in 4 .. 6 /\ Mode(op) >= 2 -> ToOperand(k, op, ExecAnd)
        [] mode = 6 /\ Mode(op) = 0 -> ToOperand(k, op, ExecAnd)

DispatchGroupD(k, op) ==
  LET mode == OpMode(op)
  IN  CASE mode < 3 -> ToRegister(k, op, ExecAdd)
        [] mode \in {3, 7} -> AddressOp(k, op, ExecAdda)
        [] mode \in 4 .. 6 /\ Mode(op) < 2 -> Extended(k, op, ExecAddx)
        [] mode \in 4 .. 6 /\ Mode(op) >= 2 -> ToOperand(k, op, ExecAdd)
-----------------------------------------------------------------------------
(* Group E *)

ShiftBy(k, kind, left, size, count, x) ==
  CASE kind = 0 -> IF left THEN ExecAsl(k, size, count, x) ELSE ExecAsr(k, size, count, x)
    [] kind = 1 -> IF left THEN ExecLsl(k, size, count, x) ELSE ExecLsr(k, size, count, x)
    [] kind = 2 -> IF left THEN ExecRoxl(k, size, count, x) ELSE ExecRoxr(k, size, count, x)
    [] kind = 3 -> IF left THEN ExecRol(k, size, count, x) ELSE ExecRor(k, size, count, x)

DispatchGroupE(k, op) ==
  LET left  == Bit(op, 8)
      s     == ReadResolved(ResolveEa(k, Ea(op), "W"), "W")
      m     == ShiftBy(s, High(op), left, "W", 1, s.val)
      size  == Sized[SizeOf(op)]
      count == IF Bit(op, 5) THEN D(k, High(op)) % 64 ELSE IF High(op) = 0 THEN 8 ELSE High(op)
      r     == ShiftBy(k, Bits(op, 3, 4), left, size, count, Wrap(D(k, Low(op)), size))
  IN  CASE SizeOf(op) = 3 /\ Bit(op, 11) -> Illegal(k)
        [] SizeOf(op) = 3 /\ ~Bit(op, 11) ->
             Unwrapped(k, op, IF Faulted(s) THEN s ELSE WriteResolved(m, "W", m.val))
        [] SizeOf(op) < 3 -> SetData(r, Low(op), size, r.val)

\* No coprocessor answers.
DispatchGroupF(k) == LineTrap(k, 11)
-----------------------------------------------------------------------------
(* The step *)

DispatchInstruction(k, op) ==
  LET group == op \div 4096
  IN  CASE group = 0  -> DispatchGroup0(k, op)     [] group = 1  -> DispatchMove(k, op, "B")
        [] group = 2  -> DispatchMove(k, op, "L")  [] group = 3  -> DispatchMove(k, op, "W")
        [] group = 4  -> DispatchGroup4(k, op)     [] group = 5  -> DispatchGroup5(k, op)
        [] group = 6  -> DispatchGroup6(k, op)     [] group = 7  -> DispatchMoveq(k, op)
        [] group = 8  -> DispatchGroup8(k, op)     [] group = 9  -> DispatchGroup9(k, op)
        [] group = 10 -> LineTrap(k, 10)           [] group = 11 -> DispatchGroupB(k, op)
        [] group = 12 -> DispatchGroupC(k, op)     [] group = 13 -> DispatchGroupD(k, op)
        [] group = 14 -> DispatchGroupE(k, op)     [] group = 15 -> DispatchGroupF(k)

\* A new core of the 68000 type: in supervisor mode, all interrupts masked.
NewCore ==
  [dar |-> [i \in 0 .. 15 |-> 0], sp |-> [mode \in BOOLEAN |-> 0], pc |-> 0, ppc |-> 0,
   T |-> FALSE, S |-> TRUE, mask |-> 7, X |-> FALSE, N |-> FALSE, Z |-> FALSE, v |-> 0,
   C |-> FALSE, mem |-> << >>, code |-> << >>, stop |-> FALSE, run |-> "normal", ir |-> 0,
   irq |-> 0, darSave |-> << >>, srSave |-> 0, val |-> 0, src |-> 0,
   ea |-> [in |-> "none", at |-> 0]]

Rest(k) == [k EXCEPT !.val = 0, !.src = 0, !.ea = [in |-> "none", at |-> 0]]

\* The instruction at the program counter, with what it takes to undo it.
Executed(k) ==
  LET p == [k EXCEPT !.ppc = k.pc, !.darSave = k.dar, !.srSave = GetSr(k)]
      f == ReadImm16(p)
      g == [f EXCEPT !.ir = f.val]
  IN  IF Faulted(g) THEN g ELSE DispatchInstruction(g, g.ir)

\* An instruction is traced if the trace bit was set before it.
Step(k) ==
  LET i == ServiceInterrupts(k)
      d == Executed(i)
  IN  Rest(IF i.stop THEN i
           ELSE IF d.run = "fault" THEN [d EXCEPT !.run = "normal"]
           ELSE IF d.run = "panic" THEN d
           ELSE IF i.T THEN TakeException(d, 9)
           ELSE ServiceInterrupts(d))
=============================================================================

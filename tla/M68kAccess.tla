---------------------------- MODULE M68kAccess ----------------------------
(***************************************************************************)
(* State, operands, memory and exceptions of the m68k core, the processor of *)
(* the emulated machine, in its 68000 type (crates/m68k/src/core: cpu.rs,    *)
(* ea.rs, exceptions.rs, execute.rs, the operand functions of                *)
(* instructions/data_movement.rs).  A core is one record; an operation is an *)
(* operator from a core to a core.  val stands for the value a call returns  *)
(* and ea for the resolved operand.  An access that faults takes the address *)
(* error at once and sets run to "fault": what the instruction still does is *)
(* done, on reads of 0 and writes of nothing.  "panic" is an unwrap of None. *)
(***************************************************************************)
EXTENDS Words

D(k, r)    == k.dar[r]
A(k, r)    == k.dar[8 + r]
SetDar(k, r, x)  == [k EXCEPT !.dar[r] = Wrap(x, "L")]
SetAddr(k, r, x) == SetDar(k, 8 + r, x)

Faulted(k) == k.run # "normal"
Panic(k)   == [k EXCEPT !.run = "panic"]

\* Condition codes.  v_flag is a byte: the status register shows its top bit, a
\* test of the condition any bit.
VSet == Sign["B"]

GetSr(k) == 2^TraceBit * Num(k.T) + 2^SuperBit * Num(k.S) + 2^MaskBit * k.mask
            + 16 * Num(k.X) + 8 * Num(k.N) + 4 * Num(k.Z) + 2 * Num(k.v \div VSet % 2 = 1)
            + Num(k.C)

SetCcr(k, x) ==
  [k EXCEPT !.X = BitAt(x, 4), !.N = BitAt(x, 3), !.Z = BitAt(x, 2),
            !.v = IF BitAt(x, 1) THEN VSet ELSE 0, !.C = BitAt(x, 0)]

\* The stack pointer of the mode that is left goes to its bank.
WrongSetSFlag(k, on) == [k EXCEPT !.S = on, !.dar[15] = k.sp[on]]

SetSFlag(k, on) ==
  LET banks == [k.sp EXCEPT ![k.S] = k.dar[15]]
  IN  [k EXCEPT !.sp = banks, !.S = on, !.dar[15] = banks[on]]

SetSrNoSp(k, x) ==
  [SetCcr(k, x) EXCEPT !.T = BitAt(x, TraceBit), !.mask = (x \div 2^MaskBit) % 8,
                       !.S = BitAt(x, SuperBit)]

SetSr(k, x) ==
  SetSFlag([SetCcr(k, x) EXCEPT !.T = BitAt(x, TraceBit), !.mask = (x \div 2^MaskBit) % 8],
           BitAt(x, SuperBit))

GetUsp(k)    == IF k.S THEN k.sp[FALSE] ELSE k.dar[15]
SetUsp(k, x) == IF k.S THEN [k EXCEPT !.sp[FALSE] = x] ELSE SetDar(k, 15, x)

TestCondition(k, cc) ==
  LET v == k.v # 0
  IN  <<TRUE, FALSE, ~k.C /\ ~k.Z, k.C \/ k.Z, ~k.C, k.C, ~k.Z, k.Z, ~v, v, ~k.N, k.N,
        k.N = v, k.N # v, ~k.Z /\ k.N = v, k.Z \/ k.N # v>>[cc + 1]

LogicFlags(k, x, size) ==
  [k EXCEPT !.N = Negative(Wrap(x, size), size), !.Z = Wrap(x, size) = 0, !.v = 0, !.C = FALSE]
-----------------------------------------------------------------------------
(* Address errors *)

PushRaw(k, size, x) ==
  LET sp == Wrap(k.dar[15] - Bytes[size], "L")
  IN  [k EXCEPT !.dar[15] = sp, !.mem = StoreTo(@, sp, size, x)]

\* The frame of seven words, and the vector; status is the access that failed.
ExceptionAddressError(k, address, write, instruction) ==
  LET sr     == GetSr(k)
      status == (IF k.S THEN 4 ELSE 0) + (IF instruction THEN 2 ELSE 1)
                + (IF write THEN 0 ELSE 16) + (IF instruction THEN 0 ELSE 8)
      s == [SetSFlag(k, TRUE) EXCEPT !.T = FALSE]
      f == PushRaw(PushRaw(PushRaw(s, "W", status), "L", address), "W", Wrap(k.ir, "W"))
      g == PushRaw(PushRaw(f, "W", sr), "L", k.ppc)
  IN  [g EXCEPT !.pc = LoadFrom(g.mem, 12, "L")]

\* The registers and the status register go back to the start of the instruction.
TriggerAddressError(k, address, write, instruction) ==
  LET back == [SetSrNoSp(k, k.srSave) EXCEPT !.dar = k.darSave]
  IN  IF Faulted(k) THEN k
      ELSE [ExceptionAddressError(back, address, write, instruction) EXCEPT !.run = "fault"]
-----------------------------------------------------------------------------
(* Memory *)

\* x is what the memory holds.
ReadChecked(k, address, size, x) ==
  IF Faulted(k) THEN [k EXCEPT !.val = 0]
  ELSE IF size # "B" /\ Odd(address)
       THEN [TriggerAddressError(k, Address(address), FALSE, FALSE) EXCEPT !.val = 0]
       ELSE [k EXCEPT !.val = x]

Read(k, address, size) == ReadChecked(k, address, size, LoadFrom(k.mem, address, size))

Write(k, address, size, x) ==
  IF Faulted(k) THEN k
  ELSE IF size # "B" /\ Odd(address)
       THEN TriggerAddressError(k, Address(address), TRUE, FALSE)
       ELSE [k EXCEPT !.mem = StoreTo(@, address, size, Wrap(x, size))]

\* read_imm_16 and read_imm_32 look at the alignment only.
ReadImm16(k) ==
  IF Odd(k.pc) THEN [TriggerAddressError(k, k.pc, FALSE, TRUE) EXCEPT !.val = 0]
  ELSE [k EXCEPT !.val = CodeAt(k.code, k.pc), !.pc = Wrap(@ + 2, "L")]

ReadImm32(k) ==
  IF Odd(k.pc) THEN [TriggerAddressError(k, k.pc, FALSE, TRUE) EXCEPT !.val = 0]
  ELSE [k EXCEPT !.val = LongOf(CodeAt(k.code, k.pc), CodeAt(k.code, k.pc + 2)),
                 !.pc = Wrap(@ + 4, "L")]

ReadImmediate(k, size) ==
  LET w == ReadImm16(k)
  IN  IF size = "L" THEN ReadImm32(k) ELSE [w EXCEPT !.val = Wrap(@, size)]

Push(k, size, x) ==
  LET s == SetDar(k, 15, k.dar[15] - Bytes[size]) IN Write(s, s.dar[15], size, x)

Pull(k, size) ==
  LET s == Read(k, k.dar[15], size) IN SetDar(s, 15, s.dar[15] + Bytes[size])
-----------------------------------------------------------------------------
(* Operands: an effective address is the number 8 * mode + register *)

\* 0 Dn, 1 An, 2 (An), 3 (An)+, 4 -(An), 5 (d,An), 6 (d,An,Xn), 7 and 8 absolute,
\* 9 (d,PC), 10 (d,PC,Xn), 11 immediate, from 12 on none.
Kind(ea)   == IF ea < 56 THEN ea \div 8 ELSE 7 + (ea % 8)
Exists(ea) == Kind(ea) < 12
IsRegister(ea) == Kind(ea) \in {0, 1}

AddrInc(reg, size) == IF reg = 7 /\ size = "B" THEN 2 ELSE Bytes[size]

\* The index register is one of all sixteen; the 68000 has no scale.
ComputeIndex(k, base, pattern) ==
  LET x == k.dar[Bits(pattern, 12, 15)]
  IN  base + ByteDisplacement(pattern)
      + (IF Bit(pattern, 11) THEN x ELSE SignedOf(Wrap(x, "W"), "W"))

ResolveEa(k, ea, size) ==
  LET kind == Kind(ea)
      reg  == ea % 8
      own  == A(k, reg)
      w    == ReadImm16(k)
      l    == ReadImm32(k)
      put(s, where, x) == [s EXCEPT !.ea = [in |-> where, at |-> Wrap(x, "L")]]
      down == Wrap(own - AddrInc(reg, size), "L")
  IN  CASE Faulted(k) -> put(k, "memory", 0)
        [] ~Faulted(k) /\ kind = 0 -> put(k, "data", reg)
        [] ~Faulted(k) /\ kind = 1 -> put(k, "address", reg)
        [] ~Faulted(k) /\ kind = 2 -> put(k, "memory", own)
        [] ~Faulted(k) /\ kind = 3 -> put(SetAddr(k, reg, own + AddrInc(reg, size)), "memory", own)
        [] ~Faulted(k) /\ kind = 4 -> put(SetAddr(k, reg, down), "memory", down)
        [] ~Faulted(k) /\ kind = 5 -> put(w, "memory", A(w, reg) + Displacement(w.val))
        [] ~Faulted(k) /\ kind = 6 -> put(w, "memory", ComputeIndex(w, A(w, reg), w.val))
        [] ~Faulted(k) /\ kind = 7 -> put(w, "memory", Displacement(w.val))
        [] ~Faulted(k) /\ kind = 8 -> put(l, "memory", l.val)
        [] ~Faulted(k) /\ kind = 9 -> put(w, "memory", k.pc + Displacement(w.val))
        [] ~Faulted(k) /\ kind = 10 -> put(w, "memory", ComputeIndex(w, k.pc, w.val))
        [] ~Faulted(k) /\ kind = 11 ->
             put([k EXCEPT !.pc = Wrap(@ + (IF size = "L" THEN 4 ELSE 2), "L")], "program", k.pc)

ReadResolved(k, size) ==
  LET at   == k.ea.at
      high == CodeAt(k.code, at)
  IN  CASE k.ea.in = "data"    -> [k EXCEPT !.val = Wrap(D(k, at), size)]
        [] k.ea.in = "address" -> [k EXCEPT !.val = Wrap(A(k, at), size)]
        [] k.ea.in = "memory"  -> Read(k, at, size)
        [] k.ea.in = "program" ->
             ReadChecked(k, at, IF size = "L" THEN "L" ELSE "W",
                         IF size = "L" THEN LongOf(high, CodeAt(k.code, at + 2))
                         ELSE Wrap(high, size))

WriteResolved(k, size, x) ==
  LET at == k.ea.at
  IN  CASE k.ea.in = "data"    -> SetDar(k, at, Merge(D(k, at), Wrap(x, size), size))
        [] k.ea.in = "address" -> SetAddr(k, at, x)
        [] k.ea.in = "memory"  -> Write(k, at, size, x)
        [] k.ea.in = "program" -> k

ReadEa(k, ea, size) == ReadResolved(ResolveEa(k, ea, size), size)
WriteEa(k, ea, size, x) == WriteResolved(ResolveEa(k, ea, size), size, x)

\* The address of an operand, 0 for a register.
EaAddress(k, ea, size) ==
  LET s == ResolveEa(k, ea, size)
  IN  [s EXCEPT !.val = IF s.ea.in \in {"memory", "program"} THEN s.ea.at ELSE 0]

\* A field of a data register is replaced.
SetData(k, r, size, x) == SetDar(k, r, Merge(D(k, r), Wrap(x, size), size))
-----------------------------------------------------------------------------
(* Exceptions and interrupts *)

JumpVector(k, vector) == LET s == Read(k, 4 * vector, "L") IN [s EXCEPT !.pc = s.val]

\* Some exceptions return to the next instruction, the others to their own.
TakeException(k, vector) ==
  LET sr   == GetSr(k)
      s    == [SetSFlag(k, TRUE) EXCEPT !.T = FALSE]
      next == vector \in {5, 7, 9} \cup (24 .. 31) \cup (32 .. 47)
      p    == Push(Push(s, "L", IF next THEN k.pc ELSE k.ppc), "W", sr)
  IN  JumpVector(p, vector)

ExceptionChk(k) ==
  LET sr == GetSr(k)
      s  == [SetSFlag(k, TRUE) EXCEPT !.T = FALSE]
  IN  JumpVector(Push(Push(s, "L", k.pc), "W", sr), 6)

\* An interrupt the mask lets through ends a stop; the line is polled for every step.
ServiceInterrupts(k) ==
  LET sr == GetSr(k)
      s  == [SetSFlag([k EXCEPT !.T = FALSE], TRUE) EXCEPT !.mask = k.irq]
      p  == JumpVector(Push(Push(s, "L", k.pc), "W", sr), 24 + k.irq)
  IN  IF k.irq = 7 \/ k.irq > k.mask THEN [p EXCEPT !.stop = FALSE, !.irq = 0] ELSE k
=============================================================================
